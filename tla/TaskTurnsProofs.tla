-------------------------- MODULE TaskTurnsProofs --------------------------
(***************************************************************************)
(* What becomes of the messages of a task, for any number of messages,      *)
(* turns, crashes and failing calls and any mixture of requests.  Every     *)
(* message that is on its way has exactly one ticket: a turn that is being  *)
(* opened for it, a steer, or the execution it was handed to; one that is   *)
(* queued has none.  TodoOk keeps the commits of a request in an order in   *)
(* which they can be made.                                                  *)
(***************************************************************************)
EXTENDS TaskTurns, FiniteSetTheorems, WellFoundedInduction, TLAPS

(* The commits a request has yet to make.                                   *)
Todo == Elements(agenda)

Plainly == {"pump", "dropSteer", "stopping", "interrupt", "dequeue", "stopWaiting", "cancelled", "archived",
            "cleanup", "restart", "interruptSteered", "fail", "reject", "finishFailed", "chain"}
Opens == {"park", "reset", "run", "arm", "reserve"}
Sends == {"sendNow", "start", "steer"}
Ends == {"control", "settle"}
Results == {"delivered", "rejected", "unknown"}

AgendaSteps ==
    [op : Plainly]
      \cup [op : Opens, turn : Turns]
      \cup [op : {"begin"}, turn : Turns, skills : BOOLEAN]
      \cup [op : Sends, message : Messages]
      \cup [op : {"handOver"}, message : Messages, exec : Nat]
      \cup [op : {"answer"}, message : Messages, result : Results]
      \cup [op : {"append"}, exec : Nat, seq : Nat]
      \cup [op : Ends, stopped : BOOLEAN, restarted : BOOLEAN, outcome : Outcomes \cup {"none"}]

(* Which commit may stand behind which in one request.                      *)
BeforeAnswers == {"control", "settle", "cleanup", "finishFailed", "pump", "chain", "start", "begin", "park",
                  "reset", "run", "arm", "reserve", "fail", "answer"}
Behind(a, b) ==
    \/ a \in BeforeAnswers /\ b = "answer"
    \/ a = "reset" /\ b \in {"run", "arm", "reserve"}
    \/ a = "run" /\ b \in {"arm", "reserve"}
    \/ a = "arm" /\ b = "reserve"
    \/ a = "dropSteer" /\ b \in {"stopping", "interrupt", "cancelled"}
    \/ a = "stopping" /\ b = "interrupt"
    \/ a = "dequeue" /\ b = "stopWaiting"
    \/ a \in {"stopWaiting", "archived"} /\ b = "cleanup"
    \/ a = "restart" /\ b = "interruptSteered"
    \/ a = "fail" /\ b \in {"reject", "finishFailed"}
Ordered(s) == \A i, j \in DOMAIN s : i < j => Behind(s[i].op, s[j].op)

-----------------------------------------------------------------------------
(* The tickets of a message: a turn is being opened for it, it is on its    *)
(* way into a running turn, an answer for it is on its way back, and the    *)
(* executions that have got it.                                             *)
Carries(x, m) ==
    \/ x.op = "start" /\ x.message = m
    \/ x.op \in {"begin", "park", "reserve"} /\ x.turn.message = m
AwaitsSkills(w, m) == w.run = queue.run /\ w.turn.message = m
Opened(m) == (\E x \in Todo : Carries(x, m)) \/ (\E w \in waiting : AwaitsSkills(w, m))

Steering(m) ==
    \/ \E x \in Todo : x.op \in {"steer", "handOver"} /\ x.message = m
    \/ \E s \in steers : s.phase = "resolving" /\ s.message = m
Answering(m) == \E x \in Todo : x.op = "answer" /\ x.message = m
Given(e, m) == execs[e].turn.message = m \/ execs[e].sends[m] # "none"
HandedTo(m) == \E e \in DOMAIN execs : Given(e, m)
Acknowledged(m) == \E e \in DOMAIN execs : Has(e, Event("delivered", m))

(* What the entry of a message in the queue says of its tickets.            *)
EntryOk(x) ==
    /\ x.held => x.status = "queued"
    /\ x.status = "queued" => ~Opened(x.id) /\ ~Steering(x.id) /\ ~Answering(x.id) /\ ~HandedTo(x.id)
    /\ Opened(x.id) => x.status = "sending" /\ ~Steering(x.id) /\ ~Answering(x.id) /\ ~HandedTo(x.id)
    /\ Steering(x.id) => ~Answering(x.id) /\ ~HandedTo(x.id)
    /\ (x.id = queue.initial /\ ~queue.started /\ x.status = "sending") => ~Steering(x.id) /\ ~HandedTo(x.id)
    /\ (x.id = queue.initial /\ queue.run # 0) => x.status # "queued"
    /\ x.status = "delivered" => Acknowledged(x.id)

(* The text that a turn carries is the one in the queue, and the turns from *)
(* the queue have nothing before them that still may run.                   *)
Carried(m, v) ==
    \/ \E y \in Todo : y.op \in {"begin", "park", "reserve"} /\ y.turn.message = m /\ y.turn.version = v
    \/ \E w \in waiting : AwaitsSkills(w, m) /\ w.turn.version = v
    \/ \E e \in DOMAIN execs : execs[e].turn.message = m /\ execs[e].turn.version = v
VersionOk(x) == \A v \in 1..MaxVersion : Carried(x.id, v) => v = x.version

Ran(m) == \E e \in DOMAIN execs : execs[e].turn.message = m
FirstOk(i) ==
    LET x == queue.messages[i]
    IN  x.mode = "queue" /\ (Opened(x.id) \/ Ran(x.id)) =>
          \A j \in DOMAIN queue.messages : j < i => queue.messages[j].status \notin {"queued", "sending"}

QueueOk ==
    /\ queue.initial \in Ids(queue) \cup {None}
    /\ \A m \in Messages : (Opened(m) \/ Steering(m) \/ Answering(m) \/ HandedTo(m)) => m \in Ids(queue)
    /\ \A i \in DOMAIN queue.messages :
          EntryOk(queue.messages[i]) /\ VersionOk(queue.messages[i]) /\ FirstOk(i)

-----------------------------------------------------------------------------
StatusIs(m, S) == \E i \in DOMAIN queue.messages : queue.messages[i].id = m /\ queue.messages[i].status \in S

TodoStepOk(x) ==
    /\ x.op \in {"start", "begin", "chain"} => runs < MaxRuns /\ task.status # "none"
    /\ x.op = "start" => queue.run = 0
    /\ x.op = "sendNow" =>
         /\ queue.run = 0 => runs < MaxRuns /\ task.status # "none"
         /\ \E i \in DOMAIN queue.messages :
               LET y == queue.messages[i] IN y.id = x.message /\ y.status = "queued" /\ ~y.held
    /\ x.op = "park" => queue.run # 0
    /\ x.op \in {"park", "reset", "run", "arm", "reserve"} => \A w \in waiting : w.run # queue.run
    /\ x.op \in {"control", "settle", "fail", "finishFailed", "reject", "stopWaiting"} => handle = 0
    /\ x.op = "reserve" /\ queue.started = FALSE => \E y \in Todo : y.op = "arm"
    /\ x.op = "steer" => queue.run # 0 /\ StatusIs(x.message, {"sending"})
    /\ x.op = "handOver" =>
         /\ x.exec \in 1..Len(execs)
         /\ x.exec = handle => StatusIs(x.message, {"sending"})
    /\ x.op = "answer" /\ x.result = "delivered" => Acknowledged(x.message)
    /\ x.op \in {"steer", "handOver"} => \A s \in steers : s.phase = "resolving" => s.message # x.message

TodoOk ==
    /\ agenda \in Seq(AgendaSteps) /\ Ordered(agenda)
    /\ \A x \in Todo : TodoStepOk(x)
    /\ web # "up" => agenda = <<>> /\ waiting = {} /\ steers = {} /\ handle = 0

ExecOk(e) ==
    /\ \A m \in Messages : execs[e].sends[m] = "delivered" => Has(e, Event("delivered", m))
    /\ \A m \in Messages : Has(e, Event("delivered", m)) => Given(e, m)
    /\ \A m \in Messages : execs[e].state = "ended" => execs[e].sends[m] # "accepted"

(* Nothing is handed over twice.                                            *)
GivenOnce(m) ==
    /\ \A d, e \in DOMAIN execs : Given(d, m) /\ Given(e, m) => d = e
    /\ \A e \in DOMAIN execs : execs[e].turn.message = m => execs[e].sends[m] = "none"

SteersOk ==
    /\ \A s \in steers : s.phase = "sent" => execs[s.exec].sends[s.message] # "none"
    /\ \A s \in steers : s.phase = "resolving" /\ s.exec = handle => StatusIs(s.message, {"sending"})
    /\ \A s, t \in steers : s.phase = "resolving" /\ t.phase = "resolving" /\ s.message = t.message => s = t

RunsOk ==
    /\ queue.run <= runs
    /\ \A w \in waiting : w.run <= runs
    /\ \A v, w \in waiting : v.run = w.run => v = w
    /\ task.status = "none" => runs = 0
    /\ view.exec # 0 => view.cursor <= Len(execs[view.exec].journal)

(* The inductive invariant.                                                 *)
Sound ==
    /\ TypeOK /\ TodoOk /\ QueueOk /\ SteersOk /\ RunsOk
    /\ \A e \in DOMAIN execs : ExecOk(e)
    /\ \A m \in Messages : GivenOnce(m)

-----------------------------------------------------------------------------
(* The agenda.                                                              *)

(* What a commit carries, by its kind.                                      *)
LEMMA StepFields ==
    ASSUME NEW x \in AgendaSteps
    PROVE  /\ x.op \in Opens \cup {"begin"} => x.turn \in Turns
           /\ x.op = "begin" => x.skills \in BOOLEAN
           /\ x.op \in Sends \cup {"handOver", "answer"} => x.message \in Messages
           /\ x.op = "handOver" => x.exec \in Nat
           /\ x.op = "answer" => x.result \in Results
           /\ x.op = "append" => x.exec \in Nat /\ x.seq \in Nat
           /\ x.op \in Ends => x \in [op : Ends, stopped : BOOLEAN, restarted : BOOLEAN, outcome : Outcomes \cup {"none"}]
           /\ x.op \in Plainly \cup Opens \cup Sends \cup Ends \cup {"begin", "handOver", "answer", "append"}
BY DEF AgendaSteps, Plainly, Opens, Sends, Ends

(* The elements of short sequences.                                         *)
LEMMA FewElements ==
    /\ Elements(<<>>) = {}
    /\ \A a : Elements(<<a>>) = {a}
    /\ \A a, b : Elements(<<a, b>>) = {a, b}
    /\ \A a, b, c : Elements(<<a, b, c>>) = {a, b, c}
    /\ \A a, b, c, d : Elements(<<a, b, c, d>>) = {a, b, c, d}
BY DEF Elements

(* Short sequences of commits in order.                                     *)
LEMMA FewOrdered ==
    /\ <<>> \in Seq(AgendaSteps) /\ Ordered(<<>>)
    /\ \A a \in AgendaSteps : <<a>> \in Seq(AgendaSteps) /\ Ordered(<<a>>)
    /\ \A a, b \in AgendaSteps :
          <<a, b>> \in Seq(AgendaSteps) /\ (Behind(a.op, b.op) => Ordered(<<a, b>>))
BY DEF Ordered

(* The rest of an agenda stays behind what replaces its head.               *)
LEMMA Advance ==
    ASSUME NEW old \in Seq(AgendaSteps), old # <<>>, Ordered(old), NEW steps \in Seq(AgendaSteps), Ordered(steps),
           \A y \in Elements(steps) : \A b : Behind(Head(old).op, b) => Behind(y.op, b),
           NEW new, new = steps \o Tail(old)
    PROVE  /\ new \in Seq(AgendaSteps) /\ Ordered(new)
           /\ Elements(new) = Elements(steps) \cup Elements(Tail(old))
           /\ Elements(old) = {Head(old)} \cup Elements(Tail(old))
           /\ \A x \in Elements(Tail(old)) : Behind(Head(old).op, x.op)
           /\ Head(old) \in AgendaSteps /\ Elements(Tail(old)) \subseteq AgendaSteps
<1> DEFINE rest == Tail(old)
<1>1. /\ rest \in Seq(AgendaSteps) /\ Len(rest) = Len(old) - 1 /\ Len(old) \in Nat /\ Len(old) > 0
      /\ \A i \in 1..Len(rest) : rest[i] = old[i + 1]
      /\ Head(old) = old[1]
  OBVIOUS
<1>2. /\ new \in Seq(AgendaSteps) /\ Len(new) = Len(steps) + Len(rest)
      /\ \A i \in 1..Len(steps) : new[i] = steps[i]
      /\ \A i \in 1..Len(rest) : new[Len(steps) + i] = rest[i]
  BY <1>1
<1> HIDE DEF rest
<1>3. /\ DOMAIN new = 1..(Len(steps) + Len(rest)) /\ DOMAIN rest = 1..Len(rest) /\ DOMAIN steps = 1..Len(steps)
      /\ DOMAIN old = 1..(Len(rest) + 1) /\ Len(rest) \in Nat /\ Len(steps) \in Nat
  BY <1>1, <1>2
<1>4. Elements(new) = Elements(steps) \cup Elements(rest)
  <2>1. ASSUME NEW x \in Elements(new) PROVE x \in Elements(steps) \cup Elements(rest)
    <3>1. PICK i \in 1..(Len(steps) + Len(rest)) : x = new[i]
      BY <1>3 DEF Elements
    <3>2. CASE i <= Len(steps)
      BY <1>2, <1>3, <3>1, <3>2 DEF Elements
    <3>3. CASE i > Len(steps)
      <4>1. i - Len(steps) \in 1..Len(rest) /\ i = Len(steps) + (i - Len(steps))
        BY <1>3, <3>3
      <4> QED  BY <1>2, <1>3, <3>1, <4>1 DEF Elements
    <3> QED  BY <1>3, <3>2, <3>3
  <2>2. ASSUME NEW x \in Elements(steps) PROVE x \in Elements(new)
    BY <1>2, <1>3, <2>2 DEF Elements
  <2>3. ASSUME NEW x \in Elements(rest) PROVE x \in Elements(new)
    <3>1. PICK i \in 1..Len(rest) : x = rest[i]
      BY <1>3 DEF Elements
    <3>2. Len(steps) + i \in DOMAIN new
      BY <1>3
    <3> QED  BY <1>2, <3>1, <3>2 DEF Elements
  <2> QED  BY <2>1, <2>2, <2>3
<1>5. Elements(old) = {Head(old)} \cup Elements(rest)
  <2>1. ASSUME NEW x \in Elements(old) PROVE x \in {Head(old)} \cup Elements(rest)
    <3>1. PICK i \in 1..(Len(rest) + 1) : x = old[i]
      BY <1>3 DEF Elements
    <3>2. CASE i = 1
      BY <1>1, <3>1, <3>2
    <3>3. CASE i > 1
      <4>1. i - 1 \in 1..Len(rest) /\ (i - 1) + 1 = i
        BY <1>3, <3>3
      <4> QED  BY <1>1, <1>3, <3>1, <4>1 DEF Elements
    <3> QED  BY <3>2, <3>3
  <2>2. ASSUME NEW x \in Elements(rest) PROVE x \in Elements(old)
    <3>1. PICK i \in 1..Len(rest) : x = rest[i]
      BY <1>3 DEF Elements
    <3>2. i + 1 \in DOMAIN old /\ x = old[i + 1]
      BY <1>1, <1>3, <3>1
    <3> QED  BY <3>2 DEF Elements
  <2>3. Head(old) \in Elements(old)
    BY <1>1, <1>3 DEF Elements
  <2> QED  BY <2>1, <2>2, <2>3
<1>6. ASSUME NEW x \in Elements(rest) PROVE Behind(Head(old).op, x.op) /\ x \in AgendaSteps
  <2>1. PICK i \in 1..Len(rest) : x = rest[i]
    BY <1>3 DEF Elements
  <2>2. i + 1 \in DOMAIN old /\ x = old[i + 1] /\ 1 \in DOMAIN old /\ 1 < i + 1
    BY <1>1, <1>3, <2>1
  <2>3. Behind(old[1].op, old[i + 1].op)
    BY <2>2 DEF Ordered
  <2>4. x \in AgendaSteps
    BY <1>1, <2>1
  <2> QED  BY <1>1, <2>2, <2>3, <2>4
<1>7. Ordered(new)
  <2> SUFFICES ASSUME NEW i \in DOMAIN new, NEW j \in DOMAIN new, i < j PROVE Behind(new[i].op, new[j].op)
    BY DEF Ordered
  <2>1. CASE j <= Len(steps)
    BY <1>2, <1>3, <2>1 DEF Ordered
  <2>2. CASE i > Len(steps)
    <3>1. PICK k \in 1..Len(rest), l \in 1..Len(rest) : i = Len(steps) + k /\ j = Len(steps) + l
      <4>1. i - Len(steps) \in 1..Len(rest) /\ i = Len(steps) + (i - Len(steps))
        BY <1>3, <2>2
      <4>2. j - Len(steps) \in 1..Len(rest) /\ j = Len(steps) + (j - Len(steps))
        BY <1>3, <2>2
      <4> QED  BY <4>1, <4>2
    <3>2. new[i] = old[k + 1] /\ new[j] = old[l + 1]
      BY <1>1, <1>2, <3>1
    <3>3. k + 1 \in DOMAIN old /\ l + 1 \in DOMAIN old /\ k + 1 < l + 1
      BY <1>3, <3>1
    <3> QED  BY <3>2, <3>3 DEF Ordered
  <2>3. CASE i <= Len(steps) /\ j > Len(steps)
    <3>1. j - Len(steps) \in 1..Len(rest) /\ j = Len(steps) + (j - Len(steps))
      BY <1>3, <2>3
    <3>2. new[j] \in Elements(rest) /\ new[i] \in Elements(steps)
      BY <1>2, <1>3, <2>3, <3>1 DEF Elements
    <3>3. new[j] \in AgendaSteps /\ Behind(Head(old).op, new[j].op)
      BY <1>6, <3>2
    <3> QED  BY <3>2, <3>3
  <2> QED  BY <1>3, <2>1, <2>2, <2>3
<1>8. Head(old) \in AgendaSteps
  BY <1>1
<1> QED  BY <1>2, <1>4, <1>5, <1>6, <1>7, <1>8 DEF rest

(* A commit is made, and the commits of S come in its place.                *)
Rest == Elements(Tail(agenda))
Made(S) ==
    /\ agenda' \in Seq(AgendaSteps) /\ Ordered(agenda') /\ Todo' = S \cup Rest
    /\ Todo = {Now} \cup Rest /\ Now \in AgendaSteps /\ Rest \subseteq AgendaSteps
    /\ \A x \in Rest : Behind(Now.op, x.op)

(* What is made in general, and the four ways in which it happens.          *)
LEMMA MadeSteps ==
    ASSUME TodoOk, agenda # <<>>, NEW steps \in Seq(AgendaSteps), Ordered(steps), Then(steps),
           \A y \in Elements(steps) : \A b : Behind(Now.op, b) => Behind(y.op, b)
    PROVE  Made(Elements(steps))
<1>1. agenda \in Seq(AgendaSteps) /\ Ordered(agenda) /\ agenda' = steps \o Tail(agenda)
  BY DEF TodoOk, Then
<1>2. \A y \in Elements(steps) : \A b : Behind(Head(agenda).op, b) => Behind(y.op, b)
  BY DEF Now
<1>3. /\ agenda' \in Seq(AgendaSteps) /\ Ordered(agenda')
      /\ Elements(agenda') = Elements(steps) \cup Elements(Tail(agenda))
      /\ Elements(agenda) = {Head(agenda)} \cup Elements(Tail(agenda))
      /\ \A x \in Elements(Tail(agenda)) : Behind(Head(agenda).op, x.op)
      /\ Head(agenda) \in AgendaSteps /\ Elements(Tail(agenda)) \subseteq AgendaSteps
  BY <1>1, <1>2, Advance
<1> QED  BY <1>3 DEF Made, Rest, Todo, Now

(* A commit with nothing after it leaves the rest of the request.           *)
LEMMA MadeNone ==
    ASSUME TodoOk, agenda # <<>>, Then(<<>>)
    PROVE  Made({})
<1>1. <<>> \in Seq(AgendaSteps) /\ Ordered(<<>>) /\ Elements(<<>>) = {}
  BY FewElements, FewOrdered
<1>2. Made(Elements(<<>>))
  BY <1>1, MadeSteps
<1> QED  BY <1>1, <1>2

(* A commit followed by one other.                                          *)
LEMMA MadeOne ==
    ASSUME TodoOk, agenda # <<>>, NEW a \in AgendaSteps, Then(<<a>>),
           \A b : Behind(Now.op, b) => Behind(a.op, b)
    PROVE  Made({a})
<1>1. <<a>> \in Seq(AgendaSteps) /\ Ordered(<<a>>) /\ Elements(<<a>>) = {a}
  BY FewElements, FewOrdered
<1>2. \A y \in Elements(<<a>>) : \A b : Behind(Now.op, b) => Behind(y.op, b)
  BY <1>1
<1>3. Made(Elements(<<a>>))
  BY <1>1, <1>2, MadeSteps
<1> QED  BY <1>1, <1>3

(* A commit followed by two others.                                         *)
LEMMA MadeTwo ==
    ASSUME TodoOk, agenda # <<>>, NEW a \in AgendaSteps, NEW c \in AgendaSteps, Then(<<a, c>>), Behind(a.op, c.op),
           \A b : Behind(Now.op, b) => Behind(a.op, b) /\ Behind(c.op, b)
    PROVE  Made({a, c})
<1>1. <<a, c>> \in Seq(AgendaSteps) /\ Ordered(<<a, c>>) /\ Elements(<<a, c>>) = {a, c}
  BY FewElements, FewOrdered
<1>2. \A y \in Elements(<<a, c>>) : \A b : Behind(Now.op, b) => Behind(y.op, b)
  BY <1>1
<1>3. Made(Elements(<<a, c>>))
  BY <1>1, <1>2, MadeSteps
<1> QED  BY <1>1, <1>3

(* The commits that open a turn.                                            *)
OpeningSet(turn) == {Open("reset", turn), Open("run", turn), Open("arm", turn), Open("reserve", turn)}

(* The four commits that open a turn are in an order in which they can be   *)
(* made.                                                                    *)
LEMMA OpeningSteps ==
    ASSUME NEW turn \in Turns
    PROVE  /\ Opening(turn) \in Seq(AgendaSteps) /\ Ordered(Opening(turn))
           /\ Elements(Opening(turn)) = OpeningSet(turn) /\ OpeningSet(turn) \subseteq AgendaSteps
           /\ \A x \in OpeningSet(turn) : x.op \in {"reset", "run", "arm", "reserve"} /\ x.turn = turn
<1> DEFINE a == Open("reset", turn)
           b == Open("run", turn)
           c == Open("arm", turn)
           d == Open("reserve", turn)
<1>1. a \in AgendaSteps /\ b \in AgendaSteps /\ c \in AgendaSteps /\ d \in AgendaSteps
  BY DEF AgendaSteps, Opens, Open
<1>2. /\ a.op = "reset" /\ b.op = "run" /\ c.op = "arm" /\ d.op = "reserve"
      /\ a.turn = turn /\ b.turn = turn /\ c.turn = turn /\ d.turn = turn
  BY DEF Open
<1>3. Opening(turn) = <<a, b, c, d>> /\ OpeningSet(turn) = {a, b, c, d}
  BY DEF Opening, OpeningSet
<1> HIDE DEF a, b, c, d
<1>4. Ordered(<<a, b, c, d>>)
  BY <1>2 DEF Ordered, Behind, BeforeAnswers
<1>5. <<a, b, c, d>> \in Seq(AgendaSteps)
  BY <1>1
<1> QED  BY <1>1, <1>2, <1>3, <1>4, <1>5, FewElements

(* beginTurn puts those four in front of the rest of the request.           *)
LEMMA MadeOpening ==
    ASSUME TodoOk, agenda # <<>>, NEW turn \in Turns, Then(Opening(turn)), Now.op = "begin"
    PROVE  Made(OpeningSet(turn))
<1>1. /\ Opening(turn) \in Seq(AgendaSteps) /\ Ordered(Opening(turn))
      /\ Elements(Opening(turn)) = OpeningSet(turn)
      /\ \A x \in OpeningSet(turn) : x.op \in {"reset", "run", "arm", "reserve"}
  BY OpeningSteps
<1>2. \A y \in Elements(Opening(turn)) : \A b : Behind(Now.op, b) => Behind(y.op, b)
  BY <1>1 DEF Behind, BeforeAnswers
<1>3. Made(Elements(Opening(turn)))
  BY <1>1, <1>2, MadeSteps
<1> QED  BY <1>1, <1>3

(* A request that begins.                                                   *)
LEMMA Begun ==
    ASSUME agenda = <<>>
    PROVE  /\ Todo = {}
           /\ agenda' = <<>> => agenda' \in Seq(AgendaSteps) /\ Ordered(agenda') /\ Todo' = {}
           /\ \A a \in AgendaSteps : agenda' = <<a>> => agenda' \in Seq(AgendaSteps) /\ Ordered(agenda') /\ Todo' = {a}
           /\ \A a, b \in AgendaSteps : (agenda' = <<a, b>> /\ Behind(a.op, b.op)) =>
                agenda' \in Seq(AgendaSteps) /\ Ordered(agenda') /\ Todo' = {a, b}
           /\ \A turn \in Turns : agenda' = Opening(turn) =>
                agenda' \in Seq(AgendaSteps) /\ Ordered(agenda') /\ Todo' = OpeningSet(turn)
BY FewElements, FewOrdered, OpeningSteps DEF Todo

-----------------------------------------------------------------------------
(* The message aggregate.                                                   *)
Distinct(q) == \A i, j \in DOMAIN q.messages : q.messages[i].id = q.messages[j].id => i = j

(* The fields of a message aggregate and of its entries.                    *)
LEMMA QueueFields ==
    ASSUME NEW q \in Queue
    PROVE  /\ q.paused \in BOOLEAN /\ q.run \in Nat /\ q.initial \in Messages \cup {None} /\ q.started \in BOOLEAN
           /\ q.compaction \in Compaction /\ q.messages \in Seq(Message)
           /\ \A i \in DOMAIN q.messages : q.messages[i] \in Message
           /\ DOMAIN q.messages = 1..Len(q.messages) /\ Len(q.messages) \in Nat
BY DEF Queue

(* An entry is found by its id.                                             *)
LEMMA EntryAt ==
    ASSUME NEW q, Distinct(q), NEW i \in DOMAIN q.messages
    PROVE  /\ Entry(q, q.messages[i].id) = q.messages[i] /\ q.messages[i].id \in Ids(q)
           /\ StatusOf(q, q.messages[i].id) = q.messages[i].status
<1>1. q.messages[i] \in Elements(q.messages) /\ q.messages[i].id \in Ids(q)
  BY DEF Elements, Ids
<1>2. \A x \in Elements(q.messages) : x.id = q.messages[i].id => x = q.messages[i]
  BY DEF Elements, Distinct
<1>3. Entry(q, q.messages[i].id) = q.messages[i]
  BY <1>1, <1>2 DEF Entry
<1> QED  BY <1>1, <1>3 DEF StatusOf

(* An id of the aggregate is the id of one of its entries.                  *)
LEMMA IdAt ==
    ASSUME NEW q, NEW m \in Ids(q)
    PROVE  \E i \in DOMAIN q.messages : q.messages[i].id = m
BY DEF Ids, Elements

(* A sequence rewritten entry by entry.                                     *)
LEMMA Rewriting ==
    ASSUME NEW q \in Queue, NEW f \in [DOMAIN q.messages -> Message]
    PROVE  LET p == [q EXCEPT !.messages = f]
           IN  /\ f \in Seq(Message) /\ Len(f) = Len(q.messages) /\ DOMAIN f = DOMAIN q.messages
               /\ p \in Queue /\ p.messages = f /\ p.run = q.run /\ p.initial = q.initial /\ p.started = q.started
               /\ p.paused = q.paused /\ p.compaction = q.compaction
<1>1. DOMAIN q.messages = 1..Len(q.messages) /\ Len(q.messages) \in Nat
  BY QueueFields
<1>2. f \in Seq(Message) /\ Len(f) = Len(q.messages)
  BY <1>1
<1> QED  BY <1>2 DEF Queue

(* Entries that differ in their status and their run at most.               *)
Like(y, x) == y.id = x.id /\ y.mode = x.mode /\ y.held = x.held /\ y.version = x.version

(* Setting the status of an entry concerns nothing else.                    *)
LEMMA StatusSet ==
    ASSUME NEW x \in Message, NEW status \in MessageStatus
    PROVE  /\ [x EXCEPT !.status = status] \in Message /\ Like([x EXCEPT !.status = status], x)
           /\ [x EXCEPT !.status = status].status = status
BY DEF Message, Like

(* An entry that goes back to the queue keeps what the user wrote.          *)
LEMMA Requeued ==
    ASSUME NEW x \in Message
    PROVE  Requeue(x) \in Message /\ Like(Requeue(x), x) /\ Requeue(x).status = "queued"
BY DEF Message, MessageStatus, Like, Requeue

(* The end of a compaction concerns nothing else.                           *)
LEMMA CompactionEnded ==
    ASSUME NEW q \in Queue, NEW status \in {"failed", "completed"}, NEW r, r = CompactionEnds(q, status)
    PROVE  /\ r \in Queue /\ r.run = q.run /\ r.initial = q.initial /\ r.started = q.started
           /\ r.messages = q.messages
BY DEF CompactionEnds, Compacting, Queue, Compaction

(* finish: the run is over, and an entry still being sent becomes unknown.  *)
LEMMA FinishEffect ==
    ASSUME NEW q \in Queue, NEW failed \in BOOLEAN, NEW r, r = Finish(q, failed)
    PROVE  /\ r \in Queue /\ r.run = 0 /\ r.initial = q.initial /\ r.started = q.started
           /\ DOMAIN r.messages = DOMAIN q.messages
           /\ \A i \in DOMAIN q.messages :
                /\ Like(r.messages[i], q.messages[i])
                /\ r.messages[i].status = IF q.messages[i].status = "sending" THEN "unknown" ELSE q.messages[i].status
<1> DEFINE f == [i \in DOMAIN q.messages |-> IF q.messages[i].status = "sending"
                     THEN [q.messages[i] EXCEPT !.status = "unknown"] ELSE q.messages[i]]
           p == [q EXCEPT !.messages = f]
           s == [p EXCEPT !.run = 0, !.paused = q.paused \/ failed \/ Some(q, {"sending"})]
<1>1. ASSUME NEW i \in DOMAIN q.messages
      PROVE  /\ f[i] \in Message /\ Like(f[i], q.messages[i])
             /\ f[i].status = IF q.messages[i].status = "sending" THEN "unknown" ELSE q.messages[i].status
  <2>1. q.messages[i] \in Message /\ "unknown" \in MessageStatus
    BY QueueFields DEF MessageStatus
  <2>2. CASE q.messages[i].status = "sending"
    BY <2>1, <2>2, StatusSet
  <2>3. CASE q.messages[i].status # "sending"
    BY <2>1, <2>3 DEF Like
  <2> QED  BY <2>2, <2>3
<1>2. f \in [DOMAIN q.messages -> Message]
  BY <1>1
<1>3. p \in Queue /\ p.messages = f /\ p.run = q.run /\ p.initial = q.initial /\ p.started = q.started /\ p.paused = q.paused
  BY <1>2, Rewriting DEF Queue
<1>4. r = CompactionEnds(s, IF failed THEN "failed" ELSE "completed")
  BY <1>3 DEF Finish, Update
<1> HIDE DEF f, p
<1>5. s \in Queue /\ s.messages = f /\ s.run = 0 /\ s.initial = q.initial /\ s.started = q.started
  BY <1>3 DEF Queue, Some
<1>6. r \in Queue /\ r.run = s.run /\ r.initial = s.initial /\ r.started = s.started /\ r.messages = s.messages
  BY <1>4, <1>5, CompactionEnded
<1> QED  BY <1>1, <1>2, <1>5, <1>6

(* rejectBeforeStart, of a run that has not reached the runtime.            *)
LEMMA RejectEffect ==
    ASSUME NEW q \in Queue, q.started = FALSE, NEW r, r = RejectBeforeStart(q)
    PROVE  /\ r \in Queue /\ r.run = 0 /\ r.initial = q.initial /\ r.started = q.started
           /\ DOMAIN r.messages = DOMAIN q.messages
           /\ \A i \in DOMAIN q.messages :
                /\ Like(r.messages[i], q.messages[i])
                /\ r.messages[i].status = IF q.messages[i].status = "sending" THEN "rejected" ELSE q.messages[i].status
<1> DEFINE f == [i \in DOMAIN q.messages |-> IF q.messages[i].status = "sending"
                     THEN [q.messages[i] EXCEPT !.status = "rejected"] ELSE q.messages[i]]
           p == [q EXCEPT !.messages = f]
           s == [p EXCEPT !.run = 0, !.paused = TRUE]
<1>1. ASSUME NEW i \in DOMAIN q.messages
      PROVE  /\ f[i] \in Message /\ Like(f[i], q.messages[i])
             /\ f[i].status = IF q.messages[i].status = "sending" THEN "rejected" ELSE q.messages[i].status
  <2>1. q.messages[i] \in Message /\ "rejected" \in MessageStatus
    BY QueueFields DEF MessageStatus
  <2>2. CASE q.messages[i].status = "sending"
    BY <2>1, <2>2, StatusSet
  <2>3. CASE ~(q.messages[i].status = "sending")
    BY <2>1, <2>3 DEF Like
  <2> QED  BY <2>2, <2>3
<1>2. f \in [DOMAIN q.messages -> Message]
  BY <1>1
<1>3. /\ p \in Queue /\ p.messages = f /\ p.run = q.run /\ p.initial = q.initial /\ p.started = q.started
      /\ p.paused = q.paused
  BY <1>2, Rewriting
<1>4. r = s
  BY <1>3 DEF RejectBeforeStart, Update
<1> HIDE DEF f, p
<1>5. s \in Queue /\ s.messages = f /\ s.run = 0 /\ s.initial = q.initial /\ s.started = q.started
  BY <1>3, QueueFields DEF Queue, Some
<1> QED  BY <1>1, <1>2, <1>4, <1>5

(* stopWaiting: only the message of a turn that never left comes back.      *)
LEMMA StopEffect ==
    ASSUME NEW q \in Queue, NEW r, r = StopWaiting(q)
    PROVE  /\ r \in Queue /\ r.run = 0 /\ r.initial = q.initial /\ r.started = q.started
           /\ DOMAIN r.messages = DOMAIN q.messages
           /\ \A i \in DOMAIN q.messages :
                /\ Like(r.messages[i], q.messages[i])
                /\ r.messages[i].status = IF ~q.started /\ q.messages[i].id = q.initial /\ q.messages[i].status = "sending" THEN "queued" ELSE q.messages[i].status
<1> DEFINE f == [i \in DOMAIN q.messages |-> IF ~q.started /\ q.messages[i].id = q.initial /\ q.messages[i].status = "sending"
                     THEN Requeue(q.messages[i]) ELSE q.messages[i]]
           p == [q EXCEPT !.messages = f]
           s == [p EXCEPT !.run = 0, !.paused = TRUE]
<1>1. ASSUME NEW i \in DOMAIN q.messages
      PROVE  /\ f[i] \in Message /\ Like(f[i], q.messages[i])
             /\ f[i].status = IF ~q.started /\ q.messages[i].id = q.initial /\ q.messages[i].status = "sending" THEN "queued" ELSE q.messages[i].status
  <2>1. q.messages[i] \in Message /\ "queued" \in MessageStatus
    BY QueueFields DEF MessageStatus
  <2>2. CASE ~q.started /\ q.messages[i].id = q.initial /\ q.messages[i].status = "sending"
    BY <2>1, <2>2, Requeued
  <2>3. CASE ~(~q.started /\ q.messages[i].id = q.initial /\ q.messages[i].status = "sending")
    BY <2>1, <2>3 DEF Like
  <2> QED  BY <2>2, <2>3
<1>2. f \in [DOMAIN q.messages -> Message]
  BY <1>1
<1>3. /\ p \in Queue /\ p.messages = f /\ p.run = q.run /\ p.initial = q.initial /\ p.started = q.started
      /\ p.paused = q.paused
  BY <1>2, Rewriting
<1>4. r = CompactionEnds(s, "failed")
  BY <1>3 DEF StopWaiting, Update
<1> HIDE DEF f, p
<1>5. s \in Queue /\ s.messages = f /\ s.run = 0 /\ s.initial = q.initial /\ s.started = q.started
  BY <1>3, QueueFields DEF Queue, Some
<1>6. r \in Queue /\ r.run = s.run /\ r.initial = s.initial /\ r.started = s.started /\ r.messages = s.messages
  BY <1>4, <1>5, CompactionEnded
<1> QED  BY <1>1, <1>2, <1>5, <1>6

(* delivered.                                                               *)
LEMMA DeliveredEffect ==
    ASSUME NEW q \in Queue, NEW m, NEW r, r = Delivered(q, m)
    PROVE  /\ r \in Queue /\ r.run = q.run /\ r.initial = q.initial /\ r.started = q.started
           /\ DOMAIN r.messages = DOMAIN q.messages
           /\ \A i \in DOMAIN q.messages :
                /\ Like(r.messages[i], q.messages[i])
                /\ r.messages[i].status = IF q.messages[i].id = m /\ q.messages[i].status \in {"sending", "unknown"} THEN "delivered" ELSE q.messages[i].status
<1> DEFINE f == [i \in DOMAIN q.messages |-> IF q.messages[i].id = m /\ q.messages[i].status \in {"sending", "unknown"}
                     THEN [q.messages[i] EXCEPT !.status = "delivered"] ELSE q.messages[i]]
           p == [q EXCEPT !.messages = f]
<1>1. ASSUME NEW i \in DOMAIN q.messages
      PROVE  /\ f[i] \in Message /\ Like(f[i], q.messages[i])
             /\ f[i].status = IF q.messages[i].id = m /\ q.messages[i].status \in {"sending", "unknown"} THEN "delivered" ELSE q.messages[i].status
  <2>1. q.messages[i] \in Message /\ "delivered" \in MessageStatus
    BY QueueFields DEF MessageStatus
  <2>2. CASE q.messages[i].id = m /\ q.messages[i].status \in {"sending", "unknown"}
    BY <2>1, <2>2, StatusSet
  <2>3. CASE ~(q.messages[i].id = m /\ q.messages[i].status \in {"sending", "unknown"})
    BY <2>1, <2>3 DEF Like
  <2> QED  BY <2>2, <2>3
<1>2. f \in [DOMAIN q.messages -> Message]
  BY <1>1
<1>3. /\ p \in Queue /\ p.messages = f /\ p.run = q.run /\ p.initial = q.initial /\ p.started = q.started
      /\ p.paused = q.paused
  BY <1>2, Rewriting
<1>4. r = p
  BY DEF Delivered, Update
<1> HIDE DEF f, p
<1> QED  BY <1>1, <1>2, <1>3, <1>4

(* host.start threw.                                                        *)
LEMMA RefusedEffect ==
    ASSUME NEW q \in Queue, NEW m, NEW r, r = StartRefused(q, m)
    PROVE  /\ r \in Queue /\ r.run = q.run /\ r.initial = q.initial /\ r.started = q.started
           /\ DOMAIN r.messages = DOMAIN q.messages
           /\ \A i \in DOMAIN q.messages :
                /\ Like(r.messages[i], q.messages[i])
                /\ r.messages[i].status = IF q.messages[i].id = m THEN "rejected" ELSE q.messages[i].status
<1> DEFINE f == [i \in DOMAIN q.messages |-> IF q.messages[i].id = m
                     THEN [q.messages[i] EXCEPT !.status = "rejected"] ELSE q.messages[i]]
           p == [q EXCEPT !.messages = f]
           s == [p EXCEPT !.paused = TRUE]
<1>1. ASSUME NEW i \in DOMAIN q.messages
      PROVE  /\ f[i] \in Message /\ Like(f[i], q.messages[i])
             /\ f[i].status = IF q.messages[i].id = m THEN "rejected" ELSE q.messages[i].status
  <2>1. q.messages[i] \in Message /\ "rejected" \in MessageStatus
    BY QueueFields DEF MessageStatus
  <2>2. CASE q.messages[i].id = m
    BY <2>1, <2>2, StatusSet
  <2>3. CASE ~(q.messages[i].id = m)
    BY <2>1, <2>3 DEF Like
  <2> QED  BY <2>2, <2>3
<1>2. f \in [DOMAIN q.messages -> Message]
  BY <1>1
<1>3. /\ p \in Queue /\ p.messages = f /\ p.run = q.run /\ p.initial = q.initial /\ p.started = q.started
      /\ p.paused = q.paused
  BY <1>2, Rewriting
<1>4. r = s
  BY <1>3 DEF StartRefused, Set, Update
<1> HIDE DEF f, p
<1>5. s \in Queue /\ s.messages = f /\ s.run = q.run /\ s.initial = q.initial /\ s.started = q.started
  BY <1>3, QueueFields DEF Queue, Some
<1> QED  BY <1>1, <1>2, <1>4, <1>5

(* pump takes the message.                                                  *)
LEMMA TakeEffect ==
    ASSUME NEW q \in Queue, NEW m, NEW r, r = Take(q, m)
    PROVE  /\ r \in Queue /\ r.run = q.run /\ r.initial = q.initial /\ r.started = q.started
           /\ DOMAIN r.messages = DOMAIN q.messages
           /\ \A i \in DOMAIN q.messages :
                /\ Like(r.messages[i], q.messages[i])
                /\ r.messages[i].status = IF q.messages[i].id = m THEN "sending" ELSE q.messages[i].status
<1> DEFINE f == [i \in DOMAIN q.messages |-> IF q.messages[i].id = m
                     THEN [q.messages[i] EXCEPT !.status = "sending"] ELSE q.messages[i]]
           p == [q EXCEPT !.messages = f]
<1>1. ASSUME NEW i \in DOMAIN q.messages
      PROVE  /\ f[i] \in Message /\ Like(f[i], q.messages[i])
             /\ f[i].status = IF q.messages[i].id = m THEN "sending" ELSE q.messages[i].status
  <2>1. q.messages[i] \in Message /\ "sending" \in MessageStatus
    BY QueueFields DEF MessageStatus
  <2>2. CASE q.messages[i].id = m
    BY <2>1, <2>2, StatusSet
  <2>3. CASE ~(q.messages[i].id = m)
    BY <2>1, <2>3 DEF Like
  <2> QED  BY <2>2, <2>3
<1>2. f \in [DOMAIN q.messages -> Message]
  BY <1>1
<1>3. /\ p \in Queue /\ p.messages = f /\ p.run = q.run /\ p.initial = q.initial /\ p.started = q.started
      /\ p.paused = q.paused
  BY <1>2, Rewriting
<1>4. r = p
  BY DEF Take, Set, Update
<1> HIDE DEF f, p
<1> QED  BY <1>1, <1>2, <1>3, <1>4

(* A message is removed.                                                    *)
LEMMA DeleteEffect ==
    ASSUME NEW q \in Queue, NEW m, NEW r, r = Delete(q, m)
    PROVE  /\ r \in Queue /\ r.run = q.run /\ r.initial = q.initial /\ r.started = q.started
           /\ DOMAIN r.messages = DOMAIN q.messages
           /\ \A i \in DOMAIN q.messages :
                /\ Like(r.messages[i], q.messages[i])
                /\ r.messages[i].status = IF q.messages[i].id = m THEN "cancelled" ELSE q.messages[i].status
<1> DEFINE f == [i \in DOMAIN q.messages |-> IF q.messages[i].id = m
                     THEN [q.messages[i] EXCEPT !.status = "cancelled"] ELSE q.messages[i]]
           p == [q EXCEPT !.messages = f]
<1>1. ASSUME NEW i \in DOMAIN q.messages
      PROVE  /\ f[i] \in Message /\ Like(f[i], q.messages[i])
             /\ f[i].status = IF q.messages[i].id = m THEN "cancelled" ELSE q.messages[i].status
  <2>1. q.messages[i] \in Message /\ "cancelled" \in MessageStatus
    BY QueueFields DEF MessageStatus
  <2>2. CASE q.messages[i].id = m
    BY <2>1, <2>2, StatusSet
  <2>3. CASE ~(q.messages[i].id = m)
    BY <2>1, <2>3 DEF Like
  <2> QED  BY <2>2, <2>3
<1>2. f \in [DOMAIN q.messages -> Message]
  BY <1>1
<1>3. /\ p \in Queue /\ p.messages = f /\ p.run = q.run /\ p.initial = q.initial /\ p.started = q.started
      /\ p.paused = q.paused
  BY <1>2, Rewriting
<1>4. r = p
  BY DEF Delete, Set, Update
<1> HIDE DEF f, p
<1> QED  BY <1>1, <1>2, <1>3, <1>4

(* The continuation of host.steer, with what the agent answered.            *)
LEMMA AnswerEffect ==
    ASSUME NEW q \in Queue, Distinct(q), NEW m \in Ids(q), NEW result \in Results, NEW r, r = SteerAnswered(q, m, result)
    PROVE  /\ r \in Queue /\ r.run = q.run /\ r.initial = q.initial /\ r.started = q.started
           /\ DOMAIN r.messages = DOMAIN q.messages
           /\ \A i \in DOMAIN q.messages :
                /\ Like(r.messages[i], q.messages[i])
                /\ r.messages[i].status = IF q.messages[i].id = m /\ q.messages[i].status # "delivered" THEN result
                                          ELSE q.messages[i].status
<1>1. PICK k \in DOMAIN q.messages : q.messages[k].id = m
  BY IdAt
<1>2. StatusOf(q, m) = q.messages[k].status /\ \A i \in DOMAIN q.messages : q.messages[i].id = m => i = k
  BY <1>1, EntryAt DEF Distinct
<1>3. CASE q.messages[k].status = "delivered"
  <2>1. r = q
    BY <1>2, <1>3 DEF SteerAnswered
  <2> QED  BY <1>1, <1>2, <1>3, <2>1 DEF Like
<1>4. CASE q.messages[k].status # "delivered"
  <2> DEFINE f == [i \in DOMAIN q.messages |-> IF q.messages[i].id = m
                       THEN [q.messages[i] EXCEPT !.status = result] ELSE q.messages[i]]
             p == [q EXCEPT !.messages = f]
             s == [p EXCEPT !.paused = q.paused \/ result # "delivered"]
  <2>1. ASSUME NEW i \in DOMAIN q.messages
        PROVE  /\ f[i] \in Message /\ Like(f[i], q.messages[i])
               /\ f[i].status = IF q.messages[i].id = m THEN result ELSE q.messages[i].status
    <3>1. q.messages[i] \in Message /\ result \in MessageStatus
      BY QueueFields DEF MessageStatus, Results
    <3>2. CASE q.messages[i].id = m
      BY <3>1, <3>2, StatusSet
    <3>3. CASE q.messages[i].id # m
      BY <3>1, <3>3 DEF Like
    <3> QED  BY <3>2, <3>3
  <2>2. f \in [DOMAIN q.messages -> Message]
    BY <2>1
  <2>3. /\ p \in Queue /\ p.messages = f /\ p.run = q.run /\ p.initial = q.initial /\ p.started = q.started
        /\ p.paused = q.paused
    BY <2>2, Rewriting
  <2>4. r = s
    BY <1>2, <1>4, <2>3 DEF SteerAnswered, Set, Update
  <2> HIDE DEF f, p
  <2>5. s \in Queue /\ s.messages = f /\ s.run = q.run /\ s.initial = q.initial /\ s.started = q.started
    BY <2>3, QueueFields DEF Queue
  <2> QED  BY <1>1, <1>2, <1>4, <2>1, <2>2, <2>4, <2>5
<1> QED  BY <1>3, <1>4

(* sendNow claims the message and makes it one that was sent.               *)
LEMMA SendEffect ==
    ASSUME NEW q \in Queue, NEW m, NEW r, r = SendNow(q, m)
    PROVE  /\ r \in Queue /\ r.run = q.run /\ r.initial = q.initial /\ r.started = q.started
           /\ DOMAIN r.messages = DOMAIN q.messages
           /\ \A i \in DOMAIN q.messages :
                /\ q.messages[i].id # m => r.messages[i] = q.messages[i]
                /\ q.messages[i].id = m =>
                     /\ r.messages[i].id = m /\ r.messages[i].status = "sending" /\ r.messages[i].mode = "send"
                     /\ r.messages[i].held = q.messages[i].held /\ r.messages[i].version = q.messages[i].version
<1> DEFINE f == [i \in DOMAIN q.messages |-> IF q.messages[i].id = m
                     THEN [q.messages[i] EXCEPT !.status = "sending", !.mode = "send", !.run = q.run] ELSE q.messages[i]]
           p == [q EXCEPT !.messages = f]
<1>1. ASSUME NEW i \in DOMAIN q.messages
      PROVE  /\ f[i] \in Message
             /\ q.messages[i].id # m => f[i] = q.messages[i]
             /\ q.messages[i].id = m =>
                  /\ f[i].id = m /\ f[i].status = "sending" /\ f[i].mode = "send"
                  /\ f[i].held = q.messages[i].held /\ f[i].version = q.messages[i].version
  <2>1. q.messages[i] \in Message /\ q.run \in Nat
    BY QueueFields
  <2>2. CASE q.messages[i].id = m
    BY <2>1, <2>2 DEF Message, MessageStatus
  <2>3. CASE q.messages[i].id # m
    BY <2>1, <2>3
  <2> QED  BY <2>2, <2>3
<1>2. f \in [DOMAIN q.messages -> Message]
  BY <1>1
<1>3. p \in Queue /\ p.messages = f /\ p.run = q.run /\ p.initial = q.initial /\ p.started = q.started
  BY <1>2, Rewriting
<1>4. r = p
  BY DEF SendNow, Set, Update
<1> HIDE DEF f, p
<1> QED  BY <1>1, <1>2, <1>3, <1>4

(* recover.                                                                 *)
LEMMA RecoverEffect ==
    ASSUME NEW q \in Queue, NEW live \in BOOLEAN, NEW r, r = Recover(q, live)
    PROVE  /\ r \in Queue /\ r.run = (IF live THEN q.run ELSE 0) /\ r.initial = q.initial /\ r.started = q.started
           /\ DOMAIN r.messages = DOMAIN q.messages
           /\ \A i \in DOMAIN q.messages :
                /\ Like(r.messages[i], q.messages[i])
                /\ r.messages[i].status =
                     IF q.messages[i].status # "sending" THEN q.messages[i].status
                     ELSE IF ~live /\ ~q.started /\ q.messages[i].id = q.initial THEN "queued" ELSE "unknown"
<1> DEFINE Back(x) == IF ~live /\ ~q.started /\ x.id = q.initial THEN Requeue(x) ELSE [x EXCEPT !.status = "unknown"]
           f == [i \in DOMAIN q.messages |-> IF q.messages[i].status = "sending"
                     THEN Back(q.messages[i]) ELSE q.messages[i]]
           p == [q EXCEPT !.messages = f]
           unsure == \E x \in Elements(q.messages) : x.status = "sending" /\ ~NeverLeft(q, x, live)
           s == [p EXCEPT !.paused = q.paused \/ unsure \/ (~live /\ q.run # 0), !.run = IF live THEN q.run ELSE 0]
<1>1. ASSUME NEW i \in DOMAIN q.messages
      PROVE  /\ f[i] \in Message /\ Like(f[i], q.messages[i])
             /\ f[i].status = IF q.messages[i].status # "sending" THEN q.messages[i].status
                              ELSE IF ~live /\ ~q.started /\ q.messages[i].id = q.initial THEN "queued" ELSE "unknown"
  <2>1. q.messages[i] \in Message /\ "unknown" \in MessageStatus
    BY QueueFields DEF MessageStatus
  <2>2. CASE q.messages[i].status # "sending"
    BY <2>1, <2>2 DEF Like
  <2>3. CASE q.messages[i].status = "sending" /\ ~live /\ ~q.started /\ q.messages[i].id = q.initial
    BY <2>1, <2>3, Requeued
  <2>4. CASE q.messages[i].status = "sending" /\ ~(~live /\ ~q.started /\ q.messages[i].id = q.initial)
    BY <2>1, <2>4, StatusSet
  <2> QED  BY <2>2, <2>3, <2>4
<1>2. f \in [DOMAIN q.messages -> Message]
  BY <1>1
<1>3. /\ p \in Queue /\ p.messages = f /\ p.run = q.run /\ p.initial = q.initial /\ p.started = q.started
      /\ p.paused = q.paused
  BY <1>2, Rewriting
<1>4. r = IF live THEN s ELSE CompactionEnds(s, "failed")
  BY <1>3 DEF Recover, Update, NeverLeft
<1> HIDE DEF f, p, unsure
<1>5. /\ s \in Queue /\ s.messages = f /\ s.run = (IF live THEN q.run ELSE 0) /\ s.initial = q.initial
      /\ s.started = q.started
  <2>1. unsure \in BOOLEAN
    BY DEF unsure
  <2> QED  BY <1>3, <2>1, QueueFields DEF Queue
<1>6. r \in Queue /\ r.run = s.run /\ r.initial = s.initial /\ r.started = s.started /\ r.messages = s.messages
  BY <1>4, <1>5, CompactionEnded
<1> QED  BY <1>1, <1>2, <1>5, <1>6

(* beginRun changes no status.                                              *)
NewRun(q, r, run, initial) ==
    /\ r \in Queue /\ r.run = run /\ r.initial = initial /\ r.started = FALSE
    /\ DOMAIN r.messages = DOMAIN q.messages
    /\ \A i \in DOMAIN q.messages :
         Like(r.messages[i], q.messages[i]) /\ r.messages[i].status = q.messages[i].status

(* What beginRun leaves behind.                                             *)
LEMMA BeginEffect ==
    ASSUME NEW q \in Queue, NEW run \in Nat, NEW initial \in Messages \cup {None}, NEW request \in Compactions \cup {None}
    PROVE  NewRun(q, BeginRun(q, run, initial, request), run, initial)
<1>0. PICK r : r = BeginRun(q, run, initial, request)
  OBVIOUS
<1> DEFINE f == [i \in DOMAIN q.messages |-> IF q.messages[i].status = "sending" /\ q.messages[i].run = 0
                     THEN [q.messages[i] EXCEPT !.run = run] ELSE q.messages[i]]
           p == [q EXCEPT !.messages = f]
           compaction == IF request = None THEN NoCompaction ELSE [request |-> request, status |-> "running"]
           s == [p EXCEPT !.run = run, !.initial = initial, !.started = FALSE, !.compaction = compaction]
<1>1. ASSUME NEW i \in DOMAIN q.messages
      PROVE  f[i] \in Message /\ Like(f[i], q.messages[i]) /\ f[i].status = q.messages[i].status
  <2>1. q.messages[i] \in Message
    BY QueueFields
  <2> QED  BY <2>1 DEF Message, Like
<1>2. f \in [DOMAIN q.messages -> Message]
  BY <1>1
<1>3. p \in Queue /\ p.messages = f
  BY <1>2, Rewriting
<1>4. r = s
  BY <1>0 DEF BeginRun, Update
<1>5. compaction \in Compaction
  BY DEF Compaction, NoCompaction
<1> HIDE DEF f, p, compaction
<1>6. s \in Queue /\ s.messages = f /\ s.run = run /\ s.initial = initial /\ s.started = FALSE
  BY <1>3, <1>5 DEF Queue
<1>7. NewRun(q, r, run, initial)
  BY <1>1, <1>2, <1>4, <1>6 DEF NewRun
<1> QED  BY <1>0, <1>7

(* Editing changes whether the entry is held and, when it is saved, its     *)
(* version.                                                                 *)
Edited(q, m, r, held, version) ==
    /\ r \in Queue /\ r.run = q.run /\ r.initial = q.initial /\ r.started = q.started
    /\ DOMAIN r.messages = DOMAIN q.messages
    /\ \A i \in DOMAIN q.messages :
         /\ q.messages[i].id # m => r.messages[i] = q.messages[i]
         /\ q.messages[i].id = m =>
              /\ r.messages[i].id = m /\ r.messages[i].status = q.messages[i].status
              /\ r.messages[i].mode = q.messages[i].mode
              /\ r.messages[i].held = held /\ r.messages[i].version \in {version, q.messages[i].version}

(* One entry is replaced.                                                   *)
LEMMA EditEffect ==
    ASSUME NEW q \in Queue, NEW m, NEW g \in [DOMAIN q.messages -> Message], NEW held, NEW version,
           \A i \in DOMAIN q.messages : q.messages[i].id = m =>
              /\ g[i].id = m /\ g[i].status = q.messages[i].status /\ g[i].mode = q.messages[i].mode
              /\ g[i].held = held /\ g[i].version \in {version, q.messages[i].version},
           NEW r, r = [q EXCEPT !.messages = [i \in DOMAIN q.messages |-> IF q.messages[i].id = m THEN g[i] ELSE q.messages[i]]]
    PROVE  Edited(q, m, r, held, version)
<1> DEFINE f == [i \in DOMAIN q.messages |-> IF q.messages[i].id = m THEN g[i] ELSE q.messages[i]]
           p == [q EXCEPT !.messages = f]
<1>1. f \in [DOMAIN q.messages -> Message]
  BY QueueFields
<1>2. p \in Queue /\ p.messages = f /\ p.run = q.run /\ p.initial = q.initial /\ p.started = q.started
  BY <1>1, Rewriting
<1>3. \A i \in DOMAIN q.messages : f[i] = IF q.messages[i].id = m THEN g[i] ELSE q.messages[i]
  OBVIOUS
<1>4. r = p
  OBVIOUS
<1> HIDE DEF f, p
<1> QED  BY <1>1, <1>2, <1>3, <1>4 DEF Edited

(* edit: the entry is held by its editor, its text is the same.             *)
LEMMA HoldEffect ==
    ASSUME NEW q \in Queue, NEW m, NEW token \in Editors
    PROVE  Edited(q, m, Edit(q, m, token), TRUE, 0)
<1> DEFINE g == [i \in DOMAIN q.messages |-> [q.messages[i] EXCEPT !.token = token, !.held = TRUE]]
<1>1. ASSUME NEW i \in DOMAIN q.messages
      PROVE  /\ g[i] \in Message /\ g[i].id = q.messages[i].id /\ g[i].status = q.messages[i].status
             /\ g[i].mode = q.messages[i].mode /\ g[i].held = TRUE /\ g[i].version = q.messages[i].version
  <2>1. q.messages[i] \in Message
    BY QueueFields
  <2> QED  BY <2>1 DEF Message
<1>2. g \in [DOMAIN q.messages -> Message]
  BY <1>1
<1>3. Edit(q, m, token) =
        [q EXCEPT !.messages = [i \in DOMAIN q.messages |-> IF q.messages[i].id = m THEN g[i] ELSE q.messages[i]]]
  BY DEF Edit, Set, Update
<1> HIDE DEF g
<1> QED  BY <1>1, <1>2, <1>3, EditEffect

(* An edit that has expired gives its entry back unchanged.                 *)
LEMMA ExpireEffect ==
    ASSUME NEW q \in Queue, NEW m
    PROVE  Edited(q, m, Expire(q, m), FALSE, 0)
<1> DEFINE g == [i \in DOMAIN q.messages |-> [q.messages[i] EXCEPT !.held = FALSE]]
<1>1. ASSUME NEW i \in DOMAIN q.messages
      PROVE  /\ g[i] \in Message /\ g[i].id = q.messages[i].id /\ g[i].status = q.messages[i].status
             /\ g[i].mode = q.messages[i].mode /\ g[i].held = FALSE /\ g[i].version = q.messages[i].version
  <2>1. q.messages[i] \in Message
    BY QueueFields
  <2> QED  BY <2>1 DEF Message
<1>2. g \in [DOMAIN q.messages -> Message]
  BY <1>1
<1>3. Expire(q, m) =
        [q EXCEPT !.messages = [i \in DOMAIN q.messages |-> IF q.messages[i].id = m THEN g[i] ELSE q.messages[i]]]
  BY DEF Expire, Set, Update
<1> HIDE DEF g
<1> QED  BY <1>1, <1>2, <1>3, EditEffect

(* saveEdit and cancelEdit: the entry is given back, with a newer text      *)
(* when it was saved.                                                       *)
LEMMA CloseEffect ==
    ASSUME NEW q \in Queue, NEW saved \in BOOLEAN, NEW k \in DOMAIN q.messages, Distinct(q),
           NEW m, q.messages[k].id = m, saved = TRUE => q.messages[k].version < MaxVersion
    PROVE  Edited(q, m, CloseEdit(q, m, saved), FALSE, q.messages[k].version + 1)
<1> DEFINE Version(i) == IF saved THEN q.messages[i].version + 1 ELSE q.messages[i].version
           h == [i \in DOMAIN q.messages |-> [q.messages[i] EXCEPT !.token = None, !.held = FALSE, !.version = Version(i)]]
           g == [i \in DOMAIN q.messages |-> IF i = k THEN h[i] ELSE q.messages[i]]
           next == q.messages[k].version + 1
<1>1. q.messages[k] \in Message /\ \A i \in DOMAIN q.messages : q.messages[i].id = m => i = k
  BY QueueFields DEF Distinct
<1>2. Version(k) \in 1..MaxVersion /\ Version(k) \in {next, q.messages[k].version}
  BY <1>1, QueueAssumption DEF Message
<1>3. CloseEdit(q, m, saved) =
        [q EXCEPT !.messages = [i \in DOMAIN q.messages |-> IF q.messages[i].id = m THEN h[i] ELSE q.messages[i]]]
  BY DEF CloseEdit, Set, Update
<1> HIDE DEF Version, next
<1>4. /\ h[k] \in Message /\ h[k].id = m /\ h[k].status = q.messages[k].status
      /\ h[k].mode = q.messages[k].mode /\ h[k].held = FALSE
      /\ h[k].version \in {next, q.messages[k].version}
  BY <1>1, <1>2 DEF Message
<1> HIDE DEF h
<1>5. /\ g \in [DOMAIN q.messages -> Message] /\ g[k] = h[k]
      /\ [i \in DOMAIN q.messages |-> IF q.messages[i].id = m THEN h[i] ELSE q.messages[i]]
           = [i \in DOMAIN q.messages |-> IF q.messages[i].id = m THEN g[i] ELSE q.messages[i]]
  BY <1>1, <1>4, QueueFields
<1> HIDE DEF g
<1>6. \A i \in DOMAIN q.messages : q.messages[i].id = m =>
         /\ g[i].id = m /\ g[i].status = q.messages[i].status /\ g[i].mode = q.messages[i].mode
         /\ g[i].held = FALSE /\ g[i].version \in {next, q.messages[i].version}
  BY <1>1, <1>4, <1>5
<1>7. CloseEdit(q, m, saved) =
        [q EXCEPT !.messages = [i \in DOMAIN q.messages |-> IF q.messages[i].id = m THEN g[i] ELSE q.messages[i]]]
  BY <1>3, <1>5
<1>8. \A held, version, r :
         (/\ \A i \in DOMAIN q.messages : q.messages[i].id = m =>
               /\ g[i].id = m /\ g[i].status = q.messages[i].status /\ g[i].mode = q.messages[i].mode
               /\ g[i].held = held /\ g[i].version \in {version, q.messages[i].version}
          /\ r = [q EXCEPT !.messages = [i \in DOMAIN q.messages |-> IF q.messages[i].id = m THEN g[i] ELSE q.messages[i]]])
         => Edited(q, m, r, held, version)
  BY <1>5, EditEffect
<1>9. Edited(q, m, CloseEdit(q, m, saved), FALSE, next)
  BY <1>6, <1>7, <1>8, Zenon
<1> QED  BY <1>9 DEF next

(* submit appends an entry.                                                 *)
Submitted(q, m, r) ==
    /\ r \in Queue /\ Distinct(r) /\ r.run = q.run /\ r.initial = q.initial /\ r.started = q.started
    /\ DOMAIN r.messages = 1..(Len(q.messages) + 1) /\ DOMAIN q.messages = 1..Len(q.messages) /\ Len(q.messages) \in Nat
    /\ \A i \in DOMAIN q.messages : r.messages[i] = q.messages[i] /\ q.messages[i].id # m
    /\ LET x == r.messages[Len(q.messages) + 1] IN x.id = m /\ x.status = "queued" /\ x.held = FALSE

(* What submit leaves behind.                                               *)
LEMMA SubmitEffect ==
    ASSUME NEW q \in Queue, Distinct(q), NEW m \in Messages, m \notin Ids(q), NEW mode \in {"send", "queue"}
    PROVE  Submitted(q, m, Submit(q, m, mode))
<1>0. PICK r : r = Submit(q, m, mode)
  OBVIOUS
<1> DEFINE x == [id |-> m, mode |-> mode, status |-> "queued", run |-> 0, token |-> None, held |-> FALSE, version |-> 1]
<1>1. x \in Message /\ x.id = m /\ x.status = "queued" /\ x.mode = mode /\ x.held = FALSE /\ x.version = 1
  BY QueueAssumption DEF Message, MessageStatus
<1>2. r = [q EXCEPT !.messages = Append(@, x)]
  BY <1>0 DEF Submit
<1> HIDE DEF x
<1>3. q.messages \in Seq(Message) /\ Append(q.messages, x) \in Seq(Message)
  BY <1>1, QueueFields
<1>4. r \in Queue /\ r.messages = Append(q.messages, x) /\ r.run = q.run /\ r.initial = q.initial /\ r.started = q.started
  BY <1>2, <1>3 DEF Queue
<1>5. /\ DOMAIN r.messages = 1..(Len(q.messages) + 1) /\ DOMAIN q.messages = 1..Len(q.messages) /\ Len(q.messages) \in Nat
      /\ \A i \in DOMAIN q.messages : r.messages[i] = q.messages[i]
      /\ r.messages[Len(q.messages) + 1] = x
  BY <1>3, <1>4
<1>6. \A i \in DOMAIN q.messages : q.messages[i].id # m
  BY DEF Ids, Elements
<1>7. Distinct(r)
  <2> SUFFICES ASSUME NEW i \in DOMAIN r.messages, NEW j \in DOMAIN r.messages, r.messages[i].id = r.messages[j].id
               PROVE  i = j
    BY DEF Distinct
  <2>1. \A k \in DOMAIN r.messages : k \in DOMAIN q.messages \/ k = Len(q.messages) + 1
    BY <1>5
  <2>2. CASE i \in DOMAIN q.messages /\ j \in DOMAIN q.messages
    BY <1>5, <2>2 DEF Distinct
  <2>3. CASE i = Len(q.messages) + 1 \/ j = Len(q.messages) + 1
    BY <1>1, <1>5, <1>6, <2>1, <2>3
  <2> QED  BY <2>1, <2>2, <2>3
<1>8. Submitted(q, m, r)
  BY <1>1, <1>4, <1>5, <1>6, <1>7 DEF Submitted
<1> QED  BY <1>0, <1>8

-----------------------------------------------------------------------------
(* Tickets.                                                                 *)

(* A commit that is about no message, and one that is about n.              *)
Ticketless(x) ==
    /\ x.op \notin {"start", "steer", "handOver", "answer"}
    /\ x.op \in {"begin", "park", "reserve"} => x.turn.message = None
Concerns(x, n) ==
    \/ x.op \in {"start", "steer", "handOver", "answer"} /\ x.message = n
    \/ x.op \in {"begin", "park", "reserve"} /\ x.turn.message = n

(* How the tickets of a message change when its entry need not.             *)
Moves(m) ==
    /\ Opened(m)' => Opened(m)
    /\ Steering(m)' => Steering(m)
    /\ Answering(m)' => Answering(m) \/ HandedTo(m) \/ (Steering(m) /\ ~Steering(m)')
    /\ HandedTo(m)' =>
         HandedTo(m) \/ (Steering(m) /\ ~Steering(m)') \/ (Opened(m) /\ ~Opened(m)' /\ queue.started = TRUE)
    /\ Acknowledged(m) => Acknowledged(m)'
    /\ Ran(m)' => Ran(m) \/ Opened(m)
    /\ \A v \in 1..MaxVersion : Carried(m, v)' => Carried(m, v)

(* How an entry changes along with them.                                    *)
Follows(y, x) ==
    /\ y.id = x.id /\ y.held = x.held
    /\ \/ /\ y.status = x.status
          /\ x.id = queue'.initial =>
               /\ x.id = queue.initial
               /\ queue'.started = FALSE => queue.started = FALSE
               /\ queue'.run # 0 => queue.run # 0
       \/ /\ y.status \in {"unknown", "rejected", "cancelled", "delivered"}
          /\ y.status = "delivered" => Acknowledged(x.id)'
          /\ ~Opened(x.id)' /\ y.held = FALSE

(* An entry that follows its tickets stays right about them.                *)
LEMMA EntryFollows ==
    ASSUME NEW x, x.id \in Messages, EntryOk(x), Moves(x.id), NEW y, Follows(y, x), queue.started \in BOOLEAN, queue'.started \in BOOLEAN
    PROVE  EntryOk(y)'
BY DEF EntryOk, Moves, Follows

(* What becomes of the i-th entry: it follows its tickets, or it is looked  *)
(* at on its own.                                                           *)
Kept(i) ==
    \A x, y : (x = queue.messages[i] /\ y = queue'.messages[i]) =>
        /\ y.id = x.id
        /\ y.status \in {"queued", "sending"} => x.status \in {"queued", "sending"}
        /\ \/ Moves(x.id) /\ Follows(y, x) /\ y.mode = x.mode /\ y.version = x.version
           \/ EntryOk(y)' /\ VersionOk(y)' /\ FirstOk(i)'

(* The queue agrees with the tickets after a step that keeps its entries.   *)
LEMMA QueueKept ==
    ASSUME QueueOk, queue \in Queue, queue' \in Queue,
           DOMAIN queue'.messages = DOMAIN queue.messages,
           \A i \in DOMAIN queue.messages : Kept(i),
           \A m \in Messages : m \in Ids(queue) \/ Moves(m),
           queue'.initial = queue.initial \/ queue'.initial \in Ids(queue) \cup {None}
    PROVE  QueueOk'
<1>1. ASSUME NEW i \in DOMAIN queue.messages
      PROVE  /\ queue'.messages[i].id = queue.messages[i].id /\ queue.messages[i].id \in Messages
             /\ queue'.messages[i].status \in {"queued", "sending"} => queue.messages[i].status \in {"queued", "sending"}
             /\ EntryOk(queue.messages[i]) /\ VersionOk(queue.messages[i]) /\ FirstOk(i)
  <2>1. queue.messages[i] \in Message
    BY QueueFields
  <2>2. PICK x, y : x = queue.messages[i] /\ y = queue'.messages[i]
    OBVIOUS
  <2>3. y.id = x.id /\ (y.status \in {"queued", "sending"} => x.status \in {"queued", "sending"})
    BY <2>2 DEF Kept
  <2> QED  BY <2>1, <2>2, <2>3 DEF QueueOk, Message
<1>2. ASSUME NEW m \in Messages, Opened(m)' \/ Steering(m)' \/ Answering(m)' \/ HandedTo(m)'
      PROVE  m \in Ids(queue)
  <2>1. CASE m \in Ids(queue)
    BY <2>1
  <2>2. CASE Moves(m)
    BY <1>2, <2>2 DEF Moves, QueueOk
  <2> QED  BY <2>1, <2>2
<1>3. \A m \in Ids(queue) : m \in Ids(queue')
  <2> SUFFICES ASSUME NEW m \in Ids(queue) PROVE m \in Ids(queue')
    OBVIOUS
  <2>1. PICK i \in DOMAIN queue.messages : queue.messages[i].id = m
    BY IdAt
  <2>2. queue'.messages[i] \in Elements(queue'.messages) /\ queue'.messages[i].id = m
    BY <1>1, <2>1 DEF Elements
  <2> QED  BY <2>2 DEF Ids
<1>4. ASSUME NEW i \in DOMAIN queue.messages
      PROVE  EntryOk(queue.messages[i])' /\ VersionOk(queue.messages[i])' /\ FirstOk(i)'
  <2>1. PICK x, y : x = queue.messages[i] /\ y = queue'.messages[i]
    OBVIOUS
  <2>2. EntryOk(y)' /\ VersionOk(y)' /\ FirstOk(i)'
    <3>1. CASE EntryOk(y)' /\ VersionOk(y)' /\ FirstOk(i)'
      BY <3>1
    <3>2. CASE Moves(x.id) /\ Follows(y, x) /\ y.mode = x.mode /\ y.version = x.version
      <4>1. x.id \in Messages /\ EntryOk(x) /\ VersionOk(x)
        BY <1>1, <2>1
      <4>2. queue.started \in BOOLEAN /\ queue'.started \in BOOLEAN
        BY QueueFields
      <4>3. EntryOk(y)'
        BY <3>2, <4>1, <4>2, EntryFollows
      <4>4. VersionOk(y)'
        BY <3>2, <4>1 DEF VersionOk, Moves, Follows
      <4>5. FirstOk(i)'
        BY <1>1, <2>1, <3>2 DEF FirstOk, Moves
      <4> QED  BY <4>3, <4>4, <4>5
    <3> QED  BY <2>1, <3>1, <3>2 DEF Kept
  <2> QED  BY <2>1, <2>2
<1>5. queue'.initial \in Ids(queue') \cup {None}
  BY <1>3 DEF QueueOk
<1> QED  BY <1>2, <1>4, <1>5, <1>3 DEF QueueOk

(* Steps that give a ticket to no message but n.                            *)
LEMMA Moving ==
    ASSUME NEW n, NEW m \in Messages, m # n,
           \A x \in Todo' : x \in Todo \/ Ticketless(x) \/ Concerns(x, n),
           \A w \in waiting' : w.turn.message = n \/ (w.run = queue'.run => w \in waiting /\ w.run = queue.run),
           \A s \in steers' : s \in steers \/ s.phase = "sent" \/ s.message = n,
           \A e \in DOMAIN execs : e \in DOMAIN execs' /\ Elements(execs[e].journal) \subseteq Elements(execs'[e].journal),
           \A e \in DOMAIN execs' :
              /\ execs'[e].turn.message = m => e \in DOMAIN execs /\ execs[e].turn = execs'[e].turn
              /\ execs'[e].sends[m] # "none" => e \in DOMAIN execs /\ execs[e].sends[m] # "none"
    PROVE  Moves(m)
<1>0. m # None
  BY QueueAssumption
<1>1. Opened(m)' => Opened(m)
  BY <1>0 DEF Opened, Carries, AwaitsSkills, Ticketless, Concerns
<1>2. Steering(m)' => Steering(m)
  BY DEF Steering, Ticketless, Concerns
<1>3. Answering(m)' => Answering(m)
  BY DEF Answering, Ticketless, Concerns
<1>4. HandedTo(m)' => HandedTo(m)
  BY DEF HandedTo, Given
<1>5. Acknowledged(m) => Acknowledged(m)'
  BY DEF Acknowledged, Has
<1>6. Ran(m)' => Ran(m)
  BY DEF Ran
<1>7. ASSUME NEW v \in 1..MaxVersion, Carried(m, v)' PROVE Carried(m, v)
  <2>1. CASE \E y \in Todo' : y.op \in {"begin", "park", "reserve"} /\ y.turn.message = m /\ y.turn.version = v
    BY <1>0, <2>1 DEF Carried, Ticketless, Concerns
  <2>2. CASE \E w \in waiting' : AwaitsSkills(w, m)' /\ w.turn.version = v
    BY <2>2 DEF Carried, AwaitsSkills
  <2>3. CASE \E e \in DOMAIN execs' : execs'[e].turn.message = m /\ execs'[e].turn.version = v
    BY <2>3 DEF Carried
  <2> QED  BY <1>7, <2>1, <2>2, <2>3 DEF Carried
<1> QED  BY <1>1, <1>2, <1>3, <1>4, <1>5, <1>6, <1>7 DEF Moves

(* An entry that keeps its status, or gives up a message with no ticket     *)
(* left that counts.                                                        *)
Calm(i) ==
    \A x, y : (x = queue.messages[i] /\ y = queue'.messages[i]) =>
        /\ Like(y, x)
        /\ \/ y.status = x.status
           \/ /\ y.status \in {"unknown", "rejected", "cancelled", "delivered"} /\ x.held = FALSE
              /\ y.status = "delivered" => Acknowledged(x.id)'
              /\ ~Opened(x.id)'
              /\ handle' = 0 \/ ~Steering(x.id) \/ x.status # "sending"

(* A step after which no message has a new ticket and every entry is calm.  *)
LEMMA Quiet ==
    ASSUME Sound, TypeOK', TodoOk', execs' = execs, waiting' \subseteq waiting, steers' \subseteq steers,
           handle' \in {0, handle}, runs' = runs, task'.status = "none" => task.status = "none",
           view'.exec # 0 => view'.cursor <= Len(execs[view'.exec].journal),
           \A x \in Todo' : x \in Todo \/ Ticketless(x),
           queue'.initial = queue.initial, queue'.started = FALSE => queue.started = FALSE,
           queue'.run \in {0, queue.run},
           DOMAIN queue'.messages = DOMAIN queue.messages,
           \A i \in DOMAIN queue.messages : Calm(i)
    PROVE  Sound'
<1>1. /\ queue \in Queue /\ queue' \in Queue /\ QueueOk /\ SteersOk /\ RunsOk
      /\ waiting \subseteq [run : 1..MaxRuns, turn : Turns]
      /\ steers \subseteq [message : Messages, exec : 1..Len(execs), phase : {"resolving", "sent"}]
  BY DEF Sound, TypeOK
<1>2. \A m \in Messages : Moves(m)
  <2> SUFFICES ASSUME NEW m \in Messages PROVE Moves(m)
    OBVIOUS
  <2>1. m # None
    BY QueueAssumption
  <2>2. \A w \in waiting' : w.run = queue'.run => w \in waiting /\ w.run = queue.run
    BY <1>1
  <2>3. Moves(m)
    BY <2>1, <2>2, Moving
  <2> QED  BY <2>3
<1>3. ASSUME NEW i \in DOMAIN queue.messages PROVE Kept(i)
  <2> SUFFICES ASSUME NEW x, NEW y, x = queue.messages[i], y = queue'.messages[i]
               PROVE  /\ y.id = x.id
                      /\ y.status \in {"queued", "sending"} => x.status \in {"queued", "sending"}
                      /\ Moves(x.id) /\ Follows(y, x) /\ y.mode = x.mode /\ y.version = x.version
    BY DEF Kept
  <2>1. x \in Message /\ x.id \in Messages
    BY <1>1, QueueFields DEF Message
  <2>2. Like(y, x)
    BY DEF Calm
  <2>3. Moves(x.id)
    BY <1>2, <2>1
  <2>4. CASE y.status = x.status
    BY <2>2, <2>3, <2>4 DEF Like, Follows
  <2>5. CASE /\ y.status \in {"unknown", "rejected", "cancelled", "delivered"} /\ x.held = FALSE
             /\ y.status = "delivered" => Acknowledged(x.id)'
             /\ ~Opened(x.id)'
    BY <2>2, <2>3, <2>5 DEF Like, Follows
  <2> QED  BY <2>4, <2>5 DEF Calm
<1>4. QueueOk'
  BY <1>1, <1>2, <1>3, QueueKept
<1>5. SteersOk'
  <2>1. \A s \in steers' : s.phase = "sent" => execs'[s.exec].sends[s.message] # "none"
    BY <1>1 DEF SteersOk
  <2>2. \A s, t \in steers' : s.phase = "resolving" /\ t.phase = "resolving" /\ s.message = t.message => s = t
    BY <1>1 DEF SteersOk
  <2>3. ASSUME NEW s \in steers', s.phase = "resolving", s.exec = handle'
        PROVE  StatusIs(s.message, {"sending"})'
    <3>1. s \in steers /\ s.exec # 0 /\ handle' = handle /\ s.message \in Messages /\ handle' # 0
      BY <1>1, <2>3
    <3>2. PICK i \in DOMAIN queue.messages : queue.messages[i].id = s.message /\ queue.messages[i].status = "sending"
      BY <1>1, <2>3, <3>1 DEF SteersOk, StatusIs
    <3>3. Steering(s.message)
      BY <2>3, <3>1 DEF Steering
    <3>4. PICK x, y : x = queue.messages[i] /\ y = queue'.messages[i]
      OBVIOUS
    <3>5. y.status = "sending" /\ y.id = s.message
      BY <3>1, <3>2, <3>3, <3>4 DEF Calm, Like
    <3> QED  BY <3>4, <3>5 DEF StatusIs
  <2> QED  BY <2>1, <2>2, <2>3 DEF SteersOk
<1>6. RunsOk'
  <2>1. queue.run \in Nat /\ runs \in Nat
    BY <1>1, QueueFields, TurnsAssumption DEF Sound, TypeOK
  <2> QED  BY <1>1, <2>1 DEF RunsOk
<1>7. \A e \in DOMAIN execs' : ExecOk(e)'
  BY DEF Sound, ExecOk, Has, Given
<1>8. \A m \in Messages : GivenOnce(m)'
  BY DEF Sound, GivenOnce, Given
<1> QED  BY <1>4, <1>5, <1>6, <1>7, <1>8 DEF Sound

(* What is left of the agenda remains right when its head is made.          *)
LEMMA TodoAdvances ==
    ASSUME TodoOk, NEW S, Made(S), web' = "up", \A x \in S : TodoStepOk(x)',
           handle' \in {0, handle} \/ Now.op = "reserve",
           Now.op \in {"reset", "run"} => queue'.started = queue.started,
           Now.op = "arm" => queue'.started = TRUE,
           Now.op \in {"reset", "run", "arm"} => queue'.run = queue.run /\ waiting' = waiting,
           \A m \in Messages : Acknowledged(m) => Acknowledged(m)'
    PROVE  TodoOk'
<1>1. ASSUME NEW x \in Rest PROVE TodoStepOk(x)'
  <2>1. x \in Todo /\ x \in AgendaSteps /\ Behind(Now.op, x.op) /\ TodoStepOk(x)
    BY DEF Made, TodoOk
  <2>2. CASE x.op = "answer"
    <3>1. x.message \in Messages
      BY <2>1, <2>2, StepFields
    <3> QED  BY <2>1, <2>2, <3>1 DEF TodoStepOk
  <2>3. CASE x.op = "reserve"
    <3>1. CASE Now.op = "arm"
      BY <2>1, <2>3, <3>1 DEF TodoStepOk
    <3>2. CASE Now.op \in {"reset", "run"}
      <4>1. ASSUME NEW y \in Todo, y.op = "arm" PROVE y \in Todo'
        BY <3>2, <4>1 DEF Made
      <4> QED  BY <2>1, <2>3, <3>2, <4>1 DEF TodoStepOk
    <3> QED  BY <2>1, <2>3, <3>1, <3>2 DEF Behind
  <2>4. CASE x.op \in {"stopWaiting", "reject", "finishFailed"}
    <3>1. Now.op # "reserve"
      BY <2>1, <2>4 DEF Behind
    <3> QED  BY <2>1, <2>4, <3>1 DEF TodoStepOk
  <2>5. CASE x.op \in {"run", "arm"}
    <3>1. Now.op \in {"reset", "run"}
      BY <2>1, <2>5 DEF Behind
    <3> QED  BY <2>1, <2>5, <3>1 DEF TodoStepOk
  <2>6. CASE x.op \in {"stopping", "interrupt", "cancelled", "cleanup", "interruptSteered"}
    BY <2>6 DEF TodoStepOk
  <2> QED  BY <2>1, <2>2, <2>3, <2>4, <2>5, <2>6 DEF Behind
<1> QED  BY <1>1 DEF TodoOk, Made

(* The agenda of a request that begins.                                     *)
LEMMA TodoBegins ==
    ASSUME web' = "up", agenda' \in Seq(AgendaSteps), Ordered(agenda'), \A x \in Todo' : TodoStepOk(x)'
    PROVE  TodoOk'
BY DEF TodoOk

(* Commits that carry nothing.                                              *)
LEMMA Plain1 ==
    ASSUME NEW op \in Plainly
    PROVE  Do(op) \in AgendaSteps /\ Do(op).op = op /\ Ticketless(Do(op))
BY DEF Do, AgendaSteps, Plainly, Ticketless

(* Entries are calm when none of them changes.                              *)
LEMMA Unmoved ==
    ASSUME queue'.messages = queue.messages, NEW i
    PROVE  Calm(i)
BY DEF Calm, Like

-----------------------------------------------------------------------------
(* Commits that leave the tickets alone.                                    *)

(* Every commit keeps what it does not mention.                             *)
Still == UNCHANGED <<execs, runs, web, updating, handle, waiting, steers, crashes, scenario>> /\ faults' \in 0..MaxFaults

(* A commit that leaves the entries alone.                                  *)
LEMMA PlainCommit ==
    ASSUME Sound, Still, web = "up", queue' = queue,
           task' \in [status : Status, pending : BOOLEAN, rawSeq : Nat, worktree : BOOLEAN],
           task'.status = "none" => task.status = "none",
           shown' \in Seq(Nat \X Nat), control' \in [stopping : BOOLEAN, steer : BOOLEAN, restart : BOOLEAN],
           view' \in [exec : 0..Len(execs), cursor : Nat, baseline : Nat, listening : BOOLEAN],
           view'.exec = view.exec, view'.cursor = view.cursor,
           NEW S, Made(S), Now.op # "arm", \A x \in S : Ticketless(x) /\ TodoStepOk(x)'
    PROVE  Sound'
<1>1. TypeOK'
  BY DEF Sound, TypeOK, Still
<1>2. \A m \in Messages : Acknowledged(m) => Acknowledged(m)'
  BY DEF Acknowledged, Has, Still
<1>3. TodoOk'
  <2>1. /\ web' = "up" /\ handle' = handle /\ queue'.started = queue.started /\ queue'.run = queue.run
        /\ waiting' = waiting /\ TodoOk
    BY DEF Still, Sound
  <2> QED  BY <1>2, <2>1, TodoAdvances
<1>4. \A x \in Todo' : x \in Todo \/ Ticketless(x)
  BY DEF Made
<1>5. /\ execs' = execs /\ waiting' \subseteq waiting /\ steers' \subseteq steers /\ handle' \in {0, handle} /\ runs' = runs
      /\ view'.exec # 0 => view'.cursor <= Len(execs[view'.exec].journal)
      /\ queue'.initial = queue.initial /\ (queue'.started = FALSE => queue.started = FALSE) /\ queue'.run \in {0, queue.run}
      /\ DOMAIN queue'.messages = DOMAIN queue.messages
  BY DEF Still, Sound, RunsOk
<1>6. \A i \in DOMAIN queue.messages : Calm(i)
  BY Unmoved
<1> QED  BY <1>1, <1>3, <1>4, <1>5, <1>6, Quiet

(* Commits to the row of the task.                                          *)
LEMMA TaskCommitted ==
    ASSUME Sound, NEW op, op \notin {"arm", "reserve"}, NEW row, NEW steps, CommitTask(op, row, steps),
           row \in [status : Status, pending : BOOLEAN, rawSeq : Nat, worktree : BOOLEAN],
           row.status = "none" => task.status = "none",
           NEW S, Made(S), \A x \in S : Ticketless(x) /\ TodoStepOk(x)'
    PROVE  Sound'
<1>1. /\ Still /\ web = "up" /\ Now.op = op /\ queue' = queue /\ task' = row
      /\ UNCHANGED <<shown, control, view>>
  BY DEF CommitTask, Skip, Still, bounds, Doing, Sound, TypeOK
<1>2. /\ shown' \in Seq(Nat \X Nat) /\ control' \in [stopping : BOOLEAN, steer : BOOLEAN, restart : BOOLEAN]
      /\ view' \in [exec : 0..Len(execs), cursor : Nat, baseline : Nat, listening : BOOLEAN]
      /\ view'.exec = view.exec /\ view'.cursor = view.cursor
  BY <1>1 DEF Sound, TypeOK
<1> QED  BY <1>1, <1>2, PlainCommit

(* The rows that are written.                                               *)
LEMMA TaskRows ==
    ASSUME TypeOK
    PROVE  /\ \A status \in Status \ {"none"} :
                /\ Transition(status) \in [status : Status, pending : BOOLEAN, rawSeq : Nat, worktree : BOOLEAN]
                /\ Transition(status).status # "none"
           /\ \A n \in Nat :
                /\ [task EXCEPT !.rawSeq = n] \in [status : Status, pending : BOOLEAN, rawSeq : Nat, worktree : BOOLEAN]
                /\ [task EXCEPT !.rawSeq = n].status = task.status
           /\ [task EXCEPT !.worktree = FALSE] \in [status : Status, pending : BOOLEAN, rawSeq : Nat, worktree : BOOLEAN]
           /\ [task EXCEPT !.worktree = FALSE].status = task.status
           /\ [task EXCEPT !.pending = FALSE] \in [status : Status, pending : BOOLEAN, rawSeq : Nat, worktree : BOOLEAN]
           /\ [task EXCEPT !.pending = FALSE].status = task.status
BY DEF TypeOK, Transition

(* Commits that write only the row of the task.                             *)
LEMMA TaskCommitsKeep ==
    ASSUME Sound, SetRunning \/ SetFailed \/ Dequeue \/ SetArchived \/ Cleanup
    PROVE  Sound'
<1>1. TodoOk /\ TypeOK
  BY DEF Sound
<1>2. ASSUME NEW op, op \notin {"arm", "reserve"}, NEW row, CommitTask(op, row, <<>>),
             row \in [status : Status, pending : BOOLEAN, rawSeq : Nat, worktree : BOOLEAN],
             row.status = "none" => task.status = "none"
      PROVE  Sound'
  <2>1. agenda # <<>> /\ Then(<<>>)
    BY <1>2 DEF CommitTask, Doing
  <2>2. Made({})
    BY <1>1, <2>1, MadeNone
  <2> QED  BY <1>2, <2>2, TaskCommitted
<1>3. CASE SetRunning
  <2>1. "running" \in Status \ {"none"}
    BY DEF Status
  <2> QED  BY <1>1, <1>2, <1>3, <2>1, TaskRows DEF SetRunning
<1>4. CASE SetFailed
  <2>1. "failed" \in Status \ {"none"}
    BY DEF Status
  <2> QED  BY <1>1, <1>2, <1>4, <2>1, TaskRows DEF SetFailed
<1>5. CASE Dequeue
  <2>1. "idle" \in Status \ {"none"}
    BY DEF Status
  <2> QED  BY <1>1, <1>2, <1>5, <2>1, TaskRows DEF Dequeue
<1>6. CASE SetArchived
  <2>1. "archived" \in Status \ {"none"}
    BY DEF Status
  <2> QED  BY <1>1, <1>2, <1>6, <2>1, TaskRows DEF SetArchived
<1>7. CASE Cleanup
  BY <1>1, <1>2, <1>7, TaskRows DEF Cleanup
<1> QED  BY <1>3, <1>4, <1>5, <1>6, <1>7

(* What is known of the commit that is made.                                *)
LEMMA Doings ==
    ASSUME TodoOk, NEW op, Doing(op)
    PROVE  /\ agenda # <<>> /\ web = "up" /\ Now.op = op /\ Now \in Todo /\ Now \in AgendaSteps /\ TodoStepOk(Now)
<1>1. agenda \in Seq(AgendaSteps) /\ agenda # <<>> /\ web = "up" /\ Now.op = op
  BY DEF TodoOk, Doing
<1>2. 1 \in DOMAIN agenda /\ Now = agenda[1] /\ Now \in AgendaSteps
  BY <1>1 DEF Now
<1>3. Now \in Todo
  BY <1>2 DEF Todo, Elements
<1> QED  BY <1>1, <1>2, <1>3 DEF TodoOk

(* cancel of a task: interrupt, end a compaction that waits, or clean up.   *)
LEMMA SetCancelledKeeps ==
    ASSUME Sound, SetCancelled
    PROVE  Sound'
<1>1. TodoOk /\ TypeOK /\ Doing("cancelled") /\ handle' = handle
  BY DEF Sound, SetCancelled, CommitTask
<1>2. agenda # <<>> /\ Now.op = "cancelled" /\ \A b : ~Behind(Now.op, b)
  BY <1>1, Doings DEF Behind, BeforeAnswers
<1>3. /\ Transition("cancelled") \in [status : Status, pending : BOOLEAN, rawSeq : Nat, worktree : BOOLEAN]
      /\ Transition("cancelled").status # "none"
  BY <1>1, TaskRows DEF Status
<1>4. /\ Do("interrupt") \in AgendaSteps /\ Do("cleanup") \in AgendaSteps /\ Do("stopWaiting") \in AgendaSteps
      /\ Do("interrupt").op = "interrupt" /\ Do("cleanup").op = "cleanup" /\ Do("stopWaiting").op = "stopWaiting"
      /\ Ticketless(Do("interrupt")) /\ Ticketless(Do("cleanup")) /\ Ticketless(Do("stopWaiting"))
  BY Plain1 DEF Plainly
<1>5. CASE handle # 0
  <2>1. CommitTask("cancelled", Transition("cancelled"), <<Do("interrupt")>>)
    BY <1>5 DEF SetCancelled
  <2>2. Made({Do("interrupt")})
    BY <1>1, <1>2, <1>4, <2>1, MadeOne DEF CommitTask
  <2>3. TodoStepOk(Do("interrupt"))'
    BY <1>4 DEF TodoStepOk
  <2> QED  BY <1>3, <1>4, <2>1, <2>2, <2>3, TaskCommitted
<1>6. CASE handle = 0 /\ Compacting(queue)
  <2>1. CommitTask("cancelled", Transition("cancelled"), <<Do("stopWaiting"), Do("cleanup")>>)
    BY <1>6 DEF SetCancelled
  <2>2. Behind(Do("stopWaiting").op, Do("cleanup").op)
    BY <1>4 DEF Behind
  <2>3. Made({Do("stopWaiting"), Do("cleanup")})
    BY <1>1, <1>2, <1>4, <2>1, <2>2, MadeTwo DEF CommitTask
  <2>4. TodoStepOk(Do("stopWaiting"))' /\ TodoStepOk(Do("cleanup"))'
    BY <1>1, <1>4, <1>6 DEF TodoStepOk
  <2> QED  BY <1>3, <1>4, <2>1, <2>3, <2>4, TaskCommitted
<1>7. CASE handle = 0 /\ ~Compacting(queue)
  <2>1. CommitTask("cancelled", Transition("cancelled"), <<Do("cleanup")>>)
    BY <1>7 DEF SetCancelled
  <2>2. Made({Do("cleanup")})
    BY <1>1, <1>2, <1>4, <2>1, MadeOne DEF CommitTask
  <2>3. TodoStepOk(Do("cleanup"))'
    BY <1>4 DEF TodoStepOk
  <2> QED  BY <1>3, <1>4, <2>1, <2>2, <2>3, TaskCommitted
<1> QED  BY <1>5, <1>6, <1>7

(* A turn that was stopped settles as idle.                                 *)
LEMMA SettleStoppedKeeps ==
    ASSUME Sound, SettleStopped
    PROVE  Sound'
<1>1. /\ TodoOk /\ TypeOK /\ Doing("settle") /\ handle' = handle
      /\ CommitTask("settle", Transition("idle"), <<Do("finishFailed")>>)
  BY DEF Sound, SettleStopped, CommitTask
<1>2. agenda # <<>> /\ Now.op = "settle" /\ TodoStepOk(Now)
  BY <1>1, Doings
<1>3. /\ Transition("idle") \in [status : Status, pending : BOOLEAN, rawSeq : Nat, worktree : BOOLEAN]
      /\ Transition("idle").status # "none"
  BY <1>1, TaskRows DEF Status
<1>4. Do("finishFailed") \in AgendaSteps /\ Do("finishFailed").op = "finishFailed" /\ Ticketless(Do("finishFailed"))
  BY Plain1 DEF Plainly
<1>5. \A b : Behind(Now.op, b) => Behind(Do("finishFailed").op, b)
  BY <1>2, <1>4 DEF Behind, BeforeAnswers
<1>6. Made({Do("finishFailed")})
  BY <1>1, <1>2, <1>4, <1>5, MadeOne DEF CommitTask
<1>7. TodoStepOk(Do("finishFailed"))'
  BY <1>1, <1>2, <1>4 DEF TodoStepOk
<1> QED  BY <1>1, <1>3, <1>4, <1>6, <1>7, TaskCommitted

(* Commits to the control row.                                              *)
LEMMA ControlCommitted ==
    ASSUME Sound, Doing("stopping") \/ Doing("dropSteer") \/ Doing("restart") \/ Doing("interruptSteered")
                    \/ Doing("control") \/ Doing("chain"),
           Skip, UNCHANGED <<product, execs, runs, handle, view>>,
           control' \in [stopping : BOOLEAN, steer : BOOLEAN, restart : BOOLEAN],
           NEW S, Made(S), \A x \in S : Ticketless(x) /\ TodoStepOk(x)'
    PROVE  Sound'
<1>1. Still /\ web = "up" /\ Now.op # "arm" /\ queue' = queue /\ UNCHANGED <<task, shown, view>>
  BY DEF Skip, Still, bounds, Doing, Sound, TypeOK, product
<1>2. /\ shown' \in Seq(Nat \X Nat) /\ task' \in [status : Status, pending : BOOLEAN, rawSeq : Nat, worktree : BOOLEAN]
      /\ view' \in [exec : 0..Len(execs), cursor : Nat, baseline : Nat, listening : BOOLEAN]
      /\ view'.exec = view.exec /\ view'.cursor = view.cursor /\ task'.status = task.status
  BY <1>1 DEF Sound, TypeOK
<1> QED  BY <1>1, <1>2, PlainCommit

(* Commits that write only the control flags of the turn.                   *)
LEMMA ControlCommitsKeep ==
    ASSUME Sound, SetStopping \/ DropSteer \/ SetRestart \/ InterruptSteered
    PROVE  Sound'
<1>1. /\ Doing("stopping") \/ Doing("dropSteer") \/ Doing("restart") \/ Doing("interruptSteered")
      /\ Then(<<>>) /\ Skip /\ UNCHANGED <<product, execs, runs, handle, view>> /\ TodoOk /\ agenda # <<>>
  BY DEF Sound, SetStopping, DropSteer, SetRestart, InterruptSteered, CommitControl, Doing
<1>2. control' \in [stopping : BOOLEAN, steer : BOOLEAN, restart : BOOLEAN]
  BY DEF Sound, TypeOK, SetStopping, DropSteer, SetRestart, InterruptSteered, CommitControl
<1>3. Made({})
  BY <1>1, MadeNone
<1> QED  BY <1>1, <1>2, <1>3, ControlCommitted

(* finishTurn reads and clears the control row.                             *)
LEMMA ClearControlKeeps ==
    ASSUME Sound, ClearControl
    PROVE  Sound'
<1>0. PICK a : a = [Now EXCEPT !.op = "settle"]
  OBVIOUS
<1>1. /\ Doing("control") /\ Then(<<a>>) /\ Skip /\ UNCHANGED <<product, execs, runs, handle, view>> /\ TodoOk
      /\ control' \in [stopping : BOOLEAN, steer : BOOLEAN, restart : BOOLEAN]
  BY <1>0 DEF Sound, TypeOK, ClearControl
<1>2. agenda # <<>> /\ Now.op = "control" /\ TodoStepOk(Now) /\ Now \in AgendaSteps
  BY <1>1, Doings
<1>3. Now \in [op : Ends, stopped : BOOLEAN, restarted : BOOLEAN, outcome : Outcomes \cup {"none"}]
  BY <1>2, StepFields DEF Ends
<1>4. a \in AgendaSteps /\ a.op = "settle"
  BY <1>0, <1>3 DEF AgendaSteps, Ends
<1>5. \A b : Behind(Now.op, b) => Behind(a.op, b)
  BY <1>2, <1>4 DEF Behind, BeforeAnswers
<1>6. Made({a})
  BY <1>1, <1>2, <1>4, <1>5, MadeOne
<1>7. handle' = 0 /\ Ticketless(a)
  BY <1>1, <1>2, <1>4 DEF TodoStepOk, Ticketless
<1>8. TodoStepOk(a)'
  BY <1>4, <1>7 DEF TodoStepOk
<1> QED  BY <1>1, <1>6, <1>7, <1>8, ControlCommitted

(* A turn without a message.                                                *)
LEMMA PlainBegins ==
    ASSUME NEW skills \in BOOLEAN, NEW request \in Compactions \cup {None}, NEW a,
           a = [op |-> "begin", turn |-> Turn(None, 1, request), skills |-> skills]
    PROVE  a \in AgendaSteps /\ a.op = "begin" /\ Ticketless(a)
BY QueueAssumption DEF AgendaSteps, Turns, Turn, Ticketless

(* The steer that was kept starts the next turn.                            *)
LEMMA ChainKeeps ==
    ASSUME Sound, Chain
    PROVE  Sound'
<1>0. PICK a : a = [op |-> "begin", turn |-> Turn(None, 1, None), skills |-> FALSE]
  OBVIOUS
<1>1. /\ Doing("chain") /\ Then(<<a>>) /\ Skip /\ UNCHANGED <<product, execs, runs, handle, view>> /\ TodoOk
      /\ control' \in [stopping : BOOLEAN, steer : BOOLEAN, restart : BOOLEAN]
  BY <1>0 DEF Sound, TypeOK, Chain, Plain
<1>2. agenda # <<>> /\ Now.op = "chain" /\ TodoStepOk(Now) /\ Now \in AgendaSteps
  BY <1>1, Doings
<1>3. a \in AgendaSteps /\ a.op = "begin" /\ Ticketless(a)
  BY <1>0, PlainBegins
<1>4. \A b : Behind(Now.op, b) => Behind(a.op, b)
  BY <1>2, <1>3 DEF Behind, BeforeAnswers
<1>5. Made({a})
  BY <1>1, <1>2, <1>3, <1>4, MadeOne
<1>6. TodoStepOk(a)'
  BY <1>1, <1>2, <1>3 DEF TodoStepOk, product
<1> QED  BY <1>1, <1>3, <1>5, <1>6, ControlCommitted

(* The cursor of a new turn, and the entry of the product log.              *)
LEMMA ResetCursorKeeps ==
    ASSUME Sound, ResetCursor
    PROVE  Sound'
<1>1. TypeOK /\ TodoOk /\ Doing("reset") /\ Then(<<>>) /\ agenda # <<>>
  BY DEF Sound, ResetCursor, Doing
<1>2. Made({})
  BY <1>1, MadeNone
<1>3. /\ Still /\ web = "up" /\ Now.op = "reset" /\ queue' = queue /\ shown' = shown /\ control' = control
      /\ task' = [task EXCEPT !.rawSeq = 0] /\ view' = [view EXCEPT !.baseline = 0]
  BY DEF ResetCursor, Doing, Skip, Still, bounds, Sound, TypeOK
<1>4. /\ task' \in [status : Status, pending : BOOLEAN, rawSeq : Nat, worktree : BOOLEAN] /\ task'.status = task.status
      /\ view' \in [exec : 0..Len(execs), cursor : Nat, baseline : Nat, listening : BOOLEAN]
      /\ view'.exec = view.exec /\ view'.cursor = view.cursor
      /\ shown' \in Seq(Nat \X Nat) /\ control' \in [stopping : BOOLEAN, steer : BOOLEAN, restart : BOOLEAN]
  BY <1>1, <1>3 DEF TypeOK
<1> QED  BY <1>2, <1>3, <1>4, PlainCommit

(* An event of the journal is appended to the conversation.                 *)
LEMMA AppendEventKeeps ==
    ASSUME Sound, AppendEvent
    PROVE  Sound'
<1>1. TypeOK /\ TodoOk /\ Doing("append") /\ Then(<<>>) /\ agenda # <<>>
  BY DEF Sound, AppendEvent, Doing
<1>2. Made({})
  BY <1>1, MadeNone
<1>3. /\ Still /\ web = "up" /\ Now.op = "append" /\ queue' = queue /\ view' = view /\ control' = control
      /\ task' = [task EXCEPT !.rawSeq = Now.seq] /\ shown' = Append(shown, <<Now.exec, Now.seq>>)
  BY DEF AppendEvent, Doing, Skip, Still, bounds, Sound, TypeOK
<1>4. Now.exec \in Nat /\ Now.seq \in Nat
  BY <1>1, Doings, StepFields
<1>5. /\ task' \in [status : Status, pending : BOOLEAN, rawSeq : Nat, worktree : BOOLEAN] /\ task'.status = task.status
      /\ view' \in [exec : 0..Len(execs), cursor : Nat, baseline : Nat, listening : BOOLEAN]
      /\ view'.exec = view.exec /\ view'.cursor = view.cursor
      /\ control' \in [stopping : BOOLEAN, steer : BOOLEAN, restart : BOOLEAN]
  BY <1>1, <1>3, <1>4 DEF TypeOK
<1>6. shown' \in Seq(Nat \X Nat)
  <2>1. <<Now.exec, Now.seq>> \in Nat \X Nat /\ shown \in Seq(Nat \X Nat)
    BY <1>1, <1>4 DEF TypeOK
  <2> QED  BY <1>3, <2>1
<1> QED  BY <1>2, <1>3, <1>5, <1>6, PlainCommit

-----------------------------------------------------------------------------
(* Commits to the queue that give no ticket away.                           *)

(* The same ids in the same places.                                         *)
LEMMA StillDistinct ==
    ASSUME NEW q, NEW r, Distinct(q), DOMAIN r.messages = DOMAIN q.messages,
           \A i \in DOMAIN q.messages : r.messages[i].id = q.messages[i].id
    PROVE  Distinct(r)
BY DEF Distinct

(* A commit that moves no message and issues no ticket keeps the tickets.   *)
LEMMA CalmCommit ==
    ASSUME Sound, Still, web = "up", UNCHANGED <<shown, control, view>>,
           task' \in [status : Status, pending : BOOLEAN, rawSeq : Nat, worktree : BOOLEAN],
           task'.status = "none" => task.status = "none",
           queue' \in Queue, queue'.initial = queue.initial, queue'.run \in {0, queue.run},
           queue'.started = queue.started \/ queue'.started = TRUE,
           DOMAIN queue'.messages = DOMAIN queue.messages,
           \A i \in DOMAIN queue.messages : Calm(i),
           NEW S, Made(S), Now.op = "arm" => queue'.started = TRUE,
           Now.op \in {"reset", "run"} => queue'.started = queue.started,
           Now.op \in {"reset", "run", "arm"} => queue'.run = queue.run,
           \A x \in S : Ticketless(x) /\ TodoStepOk(x)'
    PROVE  Sound'
<1>1. Distinct(queue')
  <2>1. \A i \in DOMAIN queue.messages : queue'.messages[i].id = queue.messages[i].id
    BY DEF Calm, Like
  <2>2. Distinct(queue)
    BY DEF Sound, TypeOK, Distinct
  <2> QED  BY <2>1, <2>2, StillDistinct
<1>2. TypeOK'
  BY <1>1 DEF Sound, TypeOK, Still, Distinct
<1>3. \A m \in Messages : Acknowledged(m) => Acknowledged(m)'
  BY DEF Acknowledged, Has, Still
<1>4. TodoOk'
  <2>1. web' = "up" /\ handle' = handle /\ waiting' = waiting /\ TodoOk
    BY DEF Still, Sound
  <2> QED  BY <1>3, <2>1, TodoAdvances
<1>5. \A x \in Todo' : x \in Todo \/ Ticketless(x)
  BY DEF Made
<1>6. /\ execs' = execs /\ waiting' \subseteq waiting /\ steers' \subseteq steers /\ handle' \in {0, handle} /\ runs' = runs
      /\ view'.exec # 0 => view'.cursor <= Len(execs[view'.exec].journal)
      /\ queue'.started = FALSE => queue.started = FALSE
  BY DEF Still, Sound, RunsOk
<1> QED  BY <1>2, <1>4, <1>5, <1>6, Quiet

(* The entry of a message that is sent is not held.                         *)
LEMMA EntryFacts ==
    ASSUME Sound, NEW i \in DOMAIN queue.messages, NEW x, x = queue.messages[i]
    PROVE  /\ x \in Message /\ x.id \in Messages /\ EntryOk(x) /\ x.held \in BOOLEAN
           /\ x.status # "queued" => x.held = FALSE
<1>1. queue \in Queue /\ QueueOk
  BY DEF Sound, TypeOK
<1>2. x \in Message /\ EntryOk(x)
  BY <1>1, QueueFields DEF QueueOk
<1> QED  BY <1>2 DEF Message, EntryOk

(* No turn is being opened once the run is over.                            *)
LEMMA NothingOpened ==
    ASSUME Sound, waiting' \subseteq waiting, queue'.run = 0,
           \A x \in Todo' : x.op \notin {"start", "begin", "park", "reserve"} \/ Ticketless(x), NEW m \in Messages
    PROVE  ~Opened(m)'
<1>1. m # None
  BY QueueAssumption
<1>2. \A w \in waiting' : w.run # 0
  BY DEF Sound, TypeOK
<1> QED  BY <1>1, <1>2 DEF Opened, Carries, AwaitsSkills, Ticketless

(* finish, at the end of a turn.                                            *)
LEMMA FinishKeeps ==
    ASSUME Sound, Still, web = "up", UNCHANGED <<shown, control, view>>, handle = 0,
           task' \in [status : Status, pending : BOOLEAN, rawSeq : Nat, worktree : BOOLEAN],
           task'.status = "none" => task.status = "none",
           NEW failed \in BOOLEAN, queue' = Finish(queue, failed),
           NEW S, Made(S), Now.op \in {"settle", "finishFailed"},
           \A x \in S : Ticketless(x) /\ TodoStepOk(x)'
    PROVE  Sound'
<1>1. queue \in Queue
  BY DEF Sound, TypeOK
<1>2. /\ queue' \in Queue /\ queue'.run = 0 /\ queue'.initial = queue.initial /\ queue'.started = queue.started
      /\ DOMAIN queue'.messages = DOMAIN queue.messages
      /\ \A i \in DOMAIN queue.messages :
           /\ Like(queue'.messages[i], queue.messages[i])
           /\ queue'.messages[i].status =
                IF queue.messages[i].status = "sending" THEN "unknown" ELSE queue.messages[i].status
  BY <1>1, FinishEffect
<1>3. \A x \in Todo' : x.op \notin {"start", "begin", "park", "reserve"} \/ Ticketless(x)
  BY DEF Made, Behind, BeforeAnswers
<1>4. \A m \in Messages : ~Opened(m)'
  BY <1>2, <1>3, NothingOpened DEF Still
<1>5. ASSUME NEW i \in DOMAIN queue.messages PROVE Calm(i)
  <2> SUFFICES ASSUME NEW x, NEW y, x = queue.messages[i], y = queue'.messages[i]
               PROVE  /\ Like(y, x)
                      /\ \/ y.status = x.status
                         \/ /\ y.status = "unknown" /\ x.held = FALSE /\ ~Opened(x.id)' /\ handle' = 0
    BY DEF Calm
  <2>1. Like(y, x) /\ y.status = IF x.status = "sending" THEN "unknown" ELSE x.status
    BY <1>2
  <2>2. x.id \in Messages /\ (x.status # "queued" => x.held = FALSE)
    BY EntryFacts
  <2> QED  BY <1>4, <2>1, <2>2 DEF Still
<1> QED  BY <1>2, <1>5, CalmCommit

(* The end of a turn that could not be opened.                              *)
LEMMA FinishFailedKeeps ==
    ASSUME Sound, FinishFailed
    PROVE  Sound'
<1>1. /\ TodoOk /\ TypeOK /\ Doing("finishFailed") /\ Then(<<>>) /\ queue' = Finish(queue, TRUE)
      /\ UNCHANGED <<task, shown, control, view>> /\ Still
  BY DEF Sound, FinishFailed, CommitQueue, Skip, Still, bounds, TypeOK
<1>2. agenda # <<>> /\ web = "up" /\ Now.op = "finishFailed" /\ handle = 0
  BY <1>1, Doings DEF TodoStepOk
<1>3. Made({})
  BY <1>1, <1>2, MadeNone
<1>4. task' \in [status : Status, pending : BOOLEAN, rawSeq : Nat, worktree : BOOLEAN] /\ task'.status = task.status
  BY <1>1 DEF TypeOK
<1> QED  BY <1>1, <1>2, <1>3, <1>4, FinishKeeps

(* The settlement of a turn whose task was cancelled.                       *)
LEMMA SettleCancelledKeeps ==
    ASSUME Sound, SettleCancelled
    PROVE  Sound'
<1>1. /\ TodoOk /\ TypeOK /\ Doing("settle") /\ Then(<<Do("cleanup")>>)
      /\ queue' = IF Compacting(queue) THEN Finish(queue, TRUE) ELSE queue
      /\ UNCHANGED <<task, shown, control, view>> /\ Still
  BY DEF Sound, SettleCancelled, Skip, Still, bounds, TypeOK
<1>2. agenda # <<>> /\ web = "up" /\ Now.op = "settle" /\ handle = 0
  BY <1>1, Doings DEF TodoStepOk
<1>3. Do("cleanup") \in AgendaSteps /\ Do("cleanup").op = "cleanup" /\ Ticketless(Do("cleanup"))
  BY Plain1 DEF Plainly
<1>4. \A b : Behind(Now.op, b) => Behind(Do("cleanup").op, b)
  BY <1>2, <1>3 DEF Behind, BeforeAnswers
<1>5. Made({Do("cleanup")})
  BY <1>1, <1>2, <1>3, <1>4, MadeOne
<1>6. TodoStepOk(Do("cleanup"))'
  BY <1>3 DEF TodoStepOk
<1>7. task' \in [status : Status, pending : BOOLEAN, rawSeq : Nat, worktree : BOOLEAN] /\ task'.status = task.status
  BY <1>1 DEF TypeOK
<1>8. CASE Compacting(queue)
  BY <1>1, <1>2, <1>3, <1>5, <1>6, <1>7, <1>8, FinishKeeps
<1>9. CASE ~Compacting(queue)
  <2>1. /\ queue' = queue /\ view'.exec = view.exec /\ view'.cursor = view.cursor
        /\ shown' \in Seq(Nat \X Nat) /\ control' \in [stopping : BOOLEAN, steer : BOOLEAN, restart : BOOLEAN]
        /\ view' \in [exec : 0..Len(execs), cursor : Nat, baseline : Nat, listening : BOOLEAN]
    BY <1>1, <1>9 DEF TypeOK
  <2> QED  BY <1>1, <1>2, <1>3, <1>5, <1>6, <1>7, <2>1, PlainCommit
<1> QED  BY <1>8, <1>9

(* finishTurn, with what comes next.                                        *)
LEMMA SettleKeeps ==
    ASSUME Sound, Settle
    PROVE  Sound'
<1>1. /\ TodoOk /\ TypeOK /\ Doing("settle") /\ UNCHANGED <<shown, control, view>> /\ Still /\ runs' = runs
  BY DEF Sound, Settle, Skip, Still, bounds, TypeOK
<1>2. agenda # <<>> /\ web = "up" /\ Now.op = "settle" /\ handle = 0
  BY <1>1, Doings DEF TodoStepOk
<1>3. PICK failed \in BOOLEAN :
         /\ task' = Transition(IF failed THEN "failed" ELSE "idle")
         /\ queue' = Finish(queue, failed)
         /\ Then(IF failed THEN <<>> ELSE IF control.steer /\ Budget THEN <<Do("chain")>> ELSE <<Do("pump")>>)
  BY DEF Settle, TurnFailed
<1>4. task' \in [status : Status, pending : BOOLEAN, rawSeq : Nat, worktree : BOOLEAN] /\ task'.status # "none"
  BY <1>1, <1>3, TaskRows DEF Status
<1>5. /\ Do("chain") \in AgendaSteps /\ Do("chain").op = "chain" /\ Ticketless(Do("chain"))
      /\ Do("pump") \in AgendaSteps /\ Do("pump").op = "pump" /\ Ticketless(Do("pump"))
  BY Plain1 DEF Plainly
<1>6. CASE failed
  <2>1. Made({})
    BY <1>1, <1>2, <1>3, <1>6, MadeNone
  <2> QED  BY <1>1, <1>2, <1>3, <1>4, <2>1, FinishKeeps
<1>7. CASE ~failed /\ control.steer /\ Budget
  <2>1. \A b : Behind(Now.op, b) => Behind(Do("chain").op, b)
    BY <1>2, <1>5 DEF Behind, BeforeAnswers
  <2>2. Made({Do("chain")})
    BY <1>1, <1>2, <1>3, <1>5, <1>7, <2>1, MadeOne
  <2>3. TodoStepOk(Do("chain"))'
    BY <1>1, <1>4, <1>5, <1>7 DEF TodoStepOk, Budget
  <2> QED  BY <1>1, <1>2, <1>3, <1>4, <1>5, <2>2, <2>3, FinishKeeps
<1>8. CASE ~failed /\ ~(control.steer /\ Budget)
  <2>1. \A b : Behind(Now.op, b) => Behind(Do("pump").op, b)
    BY <1>2, <1>5 DEF Behind, BeforeAnswers
  <2>2. Made({Do("pump")})
    BY <1>1, <1>2, <1>3, <1>5, <1>8, <2>1, MadeOne
  <2>3. TodoStepOk(Do("pump"))'
    BY <1>5 DEF TodoStepOk
  <2> QED  BY <1>1, <1>2, <1>3, <1>4, <1>5, <2>2, <2>3, FinishKeeps
<1> QED  BY <1>6, <1>7, <1>8

(* rejectBeforeStart: the skills of a new turn could not be resolved.       *)
LEMMA RejectKeeps ==
    ASSUME Sound, Reject
    PROVE  Sound'
<1>1. /\ TodoOk /\ TypeOK /\ Doing("reject") /\ Then(<<>>) /\ queue' = RejectBeforeStart(queue) /\ queue \in Queue
      /\ UNCHANGED <<task, shown, control, view>> /\ Still
  BY DEF Sound, Reject, CommitQueue, Skip, Still, bounds, TypeOK
<1>2. agenda # <<>> /\ web = "up" /\ Now.op = "reject" /\ handle = 0
  BY <1>1, Doings DEF TodoStepOk
<1>3. Made({})
  BY <1>1, <1>2, MadeNone
<1>4. /\ task' \in [status : Status, pending : BOOLEAN, rawSeq : Nat, worktree : BOOLEAN] /\ task'.status = task.status
      /\ shown' \in Seq(Nat \X Nat) /\ control' \in [stopping : BOOLEAN, steer : BOOLEAN, restart : BOOLEAN]
      /\ view' \in [exec : 0..Len(execs), cursor : Nat, baseline : Nat, listening : BOOLEAN]
      /\ view'.exec = view.exec /\ view'.cursor = view.cursor
  BY <1>1 DEF TypeOK
<1>5. CASE queue.started = TRUE
  <2>1. queue' = queue
    BY <1>1, <1>5 DEF RejectBeforeStart
  <2> QED  BY <1>1, <1>2, <1>3, <1>4, <2>1, PlainCommit
<1>6. CASE queue.started = FALSE
  <2>1. /\ queue' \in Queue /\ queue'.run = 0 /\ queue'.initial = queue.initial /\ queue'.started = queue.started
        /\ DOMAIN queue'.messages = DOMAIN queue.messages
        /\ \A i \in DOMAIN queue.messages :
             /\ Like(queue'.messages[i], queue.messages[i])
             /\ queue'.messages[i].status =
                  IF queue.messages[i].status = "sending" THEN "rejected" ELSE queue.messages[i].status
    BY <1>1, <1>6, RejectEffect
  <2>2. \A x \in Todo' : x.op \notin {"start", "begin", "park", "reserve"} \/ Ticketless(x)
    BY <1>2, <1>3 DEF Made, Behind, BeforeAnswers
  <2>3. \A m \in Messages : ~Opened(m)'
    BY <1>1, <2>1, <2>2, NothingOpened DEF Still
  <2>4. ASSUME NEW i \in DOMAIN queue.messages PROVE Calm(i)
    <3> SUFFICES ASSUME NEW x, NEW y, x = queue.messages[i], y = queue'.messages[i]
                 PROVE  /\ Like(y, x)
                        /\ \/ y.status = x.status
                           \/ /\ y.status = "rejected" /\ x.held = FALSE /\ ~Opened(x.id)' /\ handle' = 0
      BY DEF Calm
    <3>1. Like(y, x) /\ y.status = IF x.status = "sending" THEN "rejected" ELSE x.status
      BY <2>1
    <3>2. x.id \in Messages /\ (x.status # "queued" => x.held = FALSE)
      BY EntryFacts
    <3> QED  BY <1>1, <1>2, <2>3, <3>1, <3>2 DEF Still
  <2> QED  BY <1>1, <1>2, <1>3, <1>4, <2>1, <2>4, CalmCommit
<1>7. queue.started \in BOOLEAN
  BY <1>1, QueueFields
<1> QED  BY <1>5, <1>6, <1>7

(* An entry that waits, of a message without a ticket.                      *)
LEMMA Waits ==
    ASSUME NEW i, NEW y, y = queue'.messages[i], y.status = "queued",
           ~Opened(y.id)', ~Steering(y.id)', ~Answering(y.id)', ~HandedTo(y.id)',
           y.id # queue'.initial \/ queue'.run = 0
    PROVE  EntryOk(y)' /\ VersionOk(y)' /\ FirstOk(i)'
<1>1. EntryOk(y)'
  BY DEF EntryOk
<1>2. ~Ran(y.id)'
  BY DEF HandedTo, Given, Ran
<1>3. VersionOk(y)'
  <2>1. \A v : ~Carried(y.id, v)'
    BY <1>2 DEF Carried, Opened, Carries, Ran
  <2> QED  BY <2>1 DEF VersionOk
<1>4. FirstOk(i)'
  BY <1>2 DEF FirstOk
<1> QED  BY <1>1, <1>3, <1>4

(* Steps that leave the executions alone.                                   *)
LEMMA Assembled ==
    ASSUME Sound, TypeOK', TodoOk', QueueOk', SteersOk', RunsOk', execs' = execs
    PROVE  Sound'
<1>1. \A e \in DOMAIN execs' : ExecOk(e)'
  BY DEF Sound, ExecOk, Has, Given
<1>2. \A m \in Messages : GivenOnce(m)'
  BY DEF Sound, GivenOnce, Given
<1> QED  BY <1>1, <1>2 DEF Sound

(* Nothing steers once the handle is gone.                                  *)
LEMMA SteersDropped ==
    ASSUME Sound, TypeOK', execs' = execs, steers' \subseteq steers, handle' = 0
    PROVE  SteersOk'
<1>1. steers \subseteq [message : Messages, exec : 1..Len(execs), phase : {"resolving", "sent"}]
  BY DEF Sound, TypeOK
<1>2. \A s \in steers' : s.exec # 0
  BY <1>1
<1> QED  BY <1>2 DEF Sound, SteersOk

(* stopWaiting: the message of a turn that has not left goes back.          *)
LEMMA StopParkedKeeps ==
    ASSUME Sound, StopParked
    PROVE  Sound'
<1>1. /\ TodoOk /\ TypeOK /\ Doing("stopWaiting") /\ Then(<<>>) /\ queue' = StopWaiting(queue) /\ queue \in Queue
      /\ UNCHANGED <<task, shown, control, view>> /\ Still /\ QueueOk
  BY DEF Sound, StopParked, CommitQueue, Skip, Still, bounds, TypeOK
<1>2. agenda # <<>> /\ web = "up" /\ Now.op = "stopWaiting" /\ handle = 0
  BY <1>1, Doings DEF TodoStepOk
<1>3. Made({})
  BY <1>1, <1>2, MadeNone
<1>4. /\ queue' \in Queue /\ queue'.run = 0 /\ queue'.initial = queue.initial /\ queue'.started = queue.started
      /\ DOMAIN queue'.messages = DOMAIN queue.messages
      /\ \A i \in DOMAIN queue.messages :
           /\ Like(queue'.messages[i], queue.messages[i])
           /\ queue'.messages[i].status =
                IF ~queue.started /\ queue.messages[i].id = queue.initial /\ queue.messages[i].status = "sending"
                THEN "queued" ELSE queue.messages[i].status
  BY <1>1, StopEffect
<1>5. \A x \in Todo' : x \in Todo /\ x.op = "cleanup" /\ Ticketless(x)
  BY <1>2, <1>3 DEF Made, Behind, BeforeAnswers, Ticketless
<1>6. \A m \in Messages : ~Opened(m)'
  BY <1>1, <1>4, <1>5, NothingOpened DEF Still
<1>7. \A m \in Messages : Moves(m)
  <2> SUFFICES ASSUME NEW m \in Messages PROVE Moves(m)
    OBVIOUS
  <2>1. m # None /\ \A w \in waiting' : w.run = queue'.run => w \in waiting /\ w.run = queue.run
    BY <1>1, <1>4, QueueAssumption DEF Still, TypeOK
  <2> QED  BY <1>1, <1>5, <2>1, Moving DEF Still
<1>8. ASSUME NEW i \in DOMAIN queue.messages PROVE Kept(i)
  <2> SUFFICES ASSUME NEW x, NEW y, x = queue.messages[i], y = queue'.messages[i]
               PROVE  /\ y.id = x.id
                      /\ y.status \in {"queued", "sending"} => x.status \in {"queued", "sending"}
                      /\ \/ Moves(x.id) /\ Follows(y, x) /\ y.mode = x.mode /\ y.version = x.version
                         \/ EntryOk(y)' /\ VersionOk(y)' /\ FirstOk(i)'
    BY DEF Kept
  <2>1. /\ Like(y, x)
        /\ y.status = IF ~queue.started /\ x.id = queue.initial /\ x.status = "sending" THEN "queued" ELSE x.status
    BY <1>4
  <2>2. x.id \in Messages /\ EntryOk(x)
    BY EntryFacts
  <2>3. CASE ~queue.started /\ x.id = queue.initial /\ x.status = "sending"
    <3>1. ~Steering(x.id) /\ ~HandedTo(x.id)
      BY <2>2, <2>3 DEF EntryOk
    <3>2. ~Opened(x.id)' /\ ~Steering(x.id)' /\ ~HandedTo(x.id)'
      <4>1. queue.started \in BOOLEAN /\ Moves(x.id) /\ ~Opened(x.id)'
        BY <1>1, <1>6, <1>7, <2>2, QueueFields
      <4> QED  BY <2>3, <3>1, <4>1 DEF Moves
    <3>3. ~Answering(x.id)'
      BY <1>5 DEF Answering
    <3>4. y.status = "queued" /\ y.id = x.id
      BY <2>1, <2>3 DEF Like
    <3>5. EntryOk(y)' /\ VersionOk(y)' /\ FirstOk(i)'
      BY <1>4, <3>2, <3>3, <3>4, Waits
    <3> QED  BY <2>3, <3>4, <3>5
  <2>4. CASE ~(~queue.started /\ x.id = queue.initial /\ x.status = "sending")
    <3>1. y.status = x.status /\ y.id = x.id /\ y.held = x.held /\ y.mode = x.mode /\ y.version = x.version
      BY <2>1, <2>4 DEF Like
    <3>2. Follows(y, x)
      BY <1>4, <3>1 DEF Follows
    <3> QED  BY <1>7, <2>2, <3>1, <3>2
  <2> QED  BY <2>3, <2>4
<1>9. QueueOk'
  BY <1>1, <1>4, <1>7, <1>8, QueueKept
<1>10. TypeOK'
  <2>1. Distinct(queue) /\ \A i \in DOMAIN queue.messages : queue'.messages[i].id = queue.messages[i].id
    BY <1>1, <1>4 DEF TypeOK, Distinct, Like
  <2>2. Distinct(queue')
    BY <1>4, <2>1, StillDistinct
  <2> QED  BY <1>1, <1>4, <2>2 DEF TypeOK, Still, Distinct
<1>11. TodoOk'
  <2>1. web' = "up" /\ handle' = handle /\ \A m \in Messages : Acknowledged(m) => Acknowledged(m)'
    BY <1>1, <1>2 DEF Still, Acknowledged, Has
  <2> QED  BY <1>1, <1>2, <1>3, <2>1, TodoAdvances
<1>12. SteersOk'
  BY <1>1, <1>2, <1>10, SteersDropped DEF Still
<1>13. RunsOk'
  <2>1. runs \in Nat
    BY <1>1, TurnsAssumption DEF TypeOK
  <2> QED  BY <1>1, <1>4, <2>1 DEF Still, Sound, RunsOk
<1> QED  BY <1>1, <1>9, <1>10, <1>11, <1>12, <1>13, Assembled DEF Still

(* A turn that is being opened was so before.                               *)
LEMMA NotReopened ==
    ASSUME waiting' \subseteq waiting, queue'.run = queue.run, \A x \in Todo' : x \in Todo \/ Ticketless(x),
           NEW m \in Messages, Opened(m)'
    PROVE  Opened(m)
<1>1. m # None
  BY QueueAssumption
<1> QED  BY <1>1 DEF Opened, Carries, AwaitsSkills, Ticketless

(* The agent's answer to a message that was sent into a turn.               *)
LEMMA AnsweredKeeps ==
    ASSUME Sound, Answered
    PROVE  Sound'
<1>0. PICK m, result : m = Now.message /\ result = Now.result
  OBVIOUS
<1>1. /\ TodoOk /\ TypeOK /\ Doing("answer") /\ Then(<<>>) /\ queue' = SteerAnswered(queue, m, result) /\ queue \in Queue
      /\ UNCHANGED <<task, shown, control, view>> /\ Still /\ QueueOk
  BY <1>0 DEF Sound, Answered, CommitQueue, Skip, Still, bounds, TypeOK
<1>2. agenda # <<>> /\ web = "up" /\ Now.op = "answer" /\ Now \in Todo /\ Now \in AgendaSteps /\ TodoStepOk(Now)
  BY <1>1, Doings
<1>3. m \in Messages /\ result \in Results /\ (result = "delivered" => Acknowledged(m))
  BY <1>0, <1>2, StepFields DEF TodoStepOk
<1>4. Made({})
  BY <1>1, <1>2, MadeNone
<1>5. Answering(m) /\ m \in Ids(queue) /\ Distinct(queue)
  BY <1>0, <1>1, <1>2, <1>3 DEF Answering, QueueOk, TypeOK, Distinct
<1>6. /\ queue' \in Queue /\ queue'.run = queue.run /\ queue'.initial = queue.initial /\ queue'.started = queue.started
      /\ DOMAIN queue'.messages = DOMAIN queue.messages
      /\ \A i \in DOMAIN queue.messages :
           /\ Like(queue'.messages[i], queue.messages[i])
           /\ queue'.messages[i].status =
                IF queue.messages[i].id = m /\ queue.messages[i].status # "delivered" THEN result
                ELSE queue.messages[i].status
  BY <1>1, <1>3, <1>5, AnswerEffect
<1>7. task' \in [status : Status, pending : BOOLEAN, rawSeq : Nat, worktree : BOOLEAN] /\ task'.status = task.status
  BY <1>1 DEF TypeOK
<1>8. Opened(m)' => Opened(m)
  BY <1>1, <1>3, <1>4, <1>6, NotReopened DEF Still, Made
<1>9. result = "delivered" => Acknowledged(m)'
  BY <1>1, <1>3 DEF Acknowledged, Has, Still
<1>10. ASSUME NEW i \in DOMAIN queue.messages PROVE Calm(i)
  <2> SUFFICES ASSUME NEW x, NEW y, x = queue.messages[i], y = queue'.messages[i]
               PROVE  /\ Like(y, x)
                      /\ \/ y.status = x.status
                         \/ /\ y.status \in {"unknown", "rejected", "cancelled", "delivered"} /\ x.held = FALSE
                            /\ y.status = "delivered" => Acknowledged(x.id)'
                            /\ ~Opened(x.id)'
                            /\ handle' = 0 \/ ~Steering(x.id)
    BY DEF Calm
  <2>1. Like(y, x) /\ y.status = IF x.id = m /\ x.status # "delivered" THEN result ELSE x.status
    BY <1>6
  <2>2. CASE x.id = m /\ x.status # "delivered"
    <3>1. EntryOk(x) /\ (x.status # "queued" => x.held = FALSE)
      BY EntryFacts
    <3>2. x.held = FALSE /\ ~Opened(x.id) /\ ~Steering(x.id)
      BY <1>5, <2>2, <3>1 DEF EntryOk
    <3> QED  BY <1>3, <1>8, <1>9, <2>1, <2>2, <3>2 DEF Results
  <2>3. CASE ~(x.id = m /\ x.status # "delivered")
    BY <2>1, <2>3
  <2> QED  BY <2>2, <2>3
<1> QED  BY <1>1, <1>2, <1>4, <1>6, <1>7, <1>10, CalmCommit

(* host.start throws before there is a run.                                 *)
LEMMA StartThrowsKeeps ==
    ASSUME Sound, StartThrows
    PROVE  Sound'
<1>0. PICK m : m = Now.message
  OBVIOUS
<1>1. /\ TodoOk /\ TypeOK /\ Doing("start") /\ Then(<<>>) /\ queue' = StartRefused(queue, m) /\ queue \in Queue
      /\ UNCHANGED <<task, shown, control, view>> /\ QueueOk
  BY <1>0 DEF Sound, StartThrows, TypeOK
<1>2. Still
  <2>1. MaxFaults \in Nat /\ faults \in 0..MaxFaults /\ faults < MaxFaults /\ faults' = faults + 1
    BY TurnsAssumption DEF Sound, TypeOK, StartThrows, Fault
  <2> QED  BY <2>1 DEF Still, StartThrows
<1>3. agenda # <<>> /\ web = "up" /\ Now.op = "start" /\ Now \in Todo /\ Now \in AgendaSteps /\ TodoStepOk(Now)
  BY <1>1, Doings
<1>4. m \in Messages /\ queue.run = 0 /\ Opened(m)
  BY <1>0, <1>3, StepFields DEF Sends, TodoStepOk, Opened, Carries
<1>5. Made({})
  BY <1>1, <1>3, MadeNone
<1>6. /\ queue' \in Queue /\ queue'.run = queue.run /\ queue'.initial = queue.initial /\ queue'.started = queue.started
      /\ DOMAIN queue'.messages = DOMAIN queue.messages
      /\ \A i \in DOMAIN queue.messages :
           /\ Like(queue'.messages[i], queue.messages[i])
           /\ queue'.messages[i].status = IF queue.messages[i].id = m THEN "rejected" ELSE queue.messages[i].status
  BY <1>1, RefusedEffect
<1>7. task' \in [status : Status, pending : BOOLEAN, rawSeq : Nat, worktree : BOOLEAN] /\ task'.status = task.status
  BY <1>1 DEF TypeOK
<1>8. ~Opened(m)'
  <2>1. \A x \in Todo' : x.op \notin {"start", "begin", "park", "reserve"} \/ Ticketless(x)
    BY <1>3, <1>5 DEF Made, Behind, BeforeAnswers
  <2> QED  BY <1>2, <1>4, <1>6, <2>1, NothingOpened DEF Still
<1>9. ASSUME NEW i \in DOMAIN queue.messages PROVE Calm(i)
  <2> SUFFICES ASSUME NEW x, NEW y, x = queue.messages[i], y = queue'.messages[i]
               PROVE  /\ Like(y, x)
                      /\ \/ y.status = x.status
                         \/ /\ y.status = "rejected" /\ x.held = FALSE /\ ~Opened(x.id)' /\ ~Steering(x.id)
    BY DEF Calm
  <2>1. Like(y, x) /\ y.status = IF x.id = m THEN "rejected" ELSE x.status
    BY <1>6
  <2>2. CASE x.id = m
    <3>1. EntryOk(x) /\ (x.status # "queued" => x.held = FALSE)
      BY EntryFacts
    <3>2. x.held = FALSE /\ ~Steering(x.id)
      BY <1>4, <2>2, <3>1 DEF EntryOk
    <3> QED  BY <1>8, <2>1, <2>2, <3>2
  <2>3. CASE x.id # m
    BY <2>1, <2>3
  <2> QED  BY <2>2, <2>3
<1> QED  BY <1>1, <1>2, <1>3, <1>5, <1>6, <1>7, <1>9, CalmCommit

(* startingRuntime.                                                         *)
LEMMA ArmRuntimeKeeps ==
    ASSUME Sound, ArmRuntime
    PROVE  Sound'
<1>1. /\ TodoOk /\ TypeOK /\ Doing("arm") /\ Then(<<>>) /\ queue' = [queue EXCEPT !.started = TRUE] /\ queue \in Queue
      /\ UNCHANGED <<task, shown, control, view>> /\ Still
  BY DEF Sound, ArmRuntime, StartingRuntime, CommitQueue, Skip, Still, bounds, TypeOK
<1>2. agenda # <<>> /\ web = "up" /\ Now.op = "arm"
  BY <1>1, Doings
<1>3. Made({})
  BY <1>1, <1>2, MadeNone
<1>4. /\ queue' \in Queue /\ queue'.run = queue.run /\ queue'.initial = queue.initial /\ queue'.started = TRUE
      /\ queue'.messages = queue.messages
  BY <1>1 DEF Queue
<1>5. task' \in [status : Status, pending : BOOLEAN, rawSeq : Nat, worktree : BOOLEAN] /\ task'.status = task.status
  BY <1>1 DEF TypeOK
<1>6. \A i \in DOMAIN queue.messages : Calm(i)
  BY <1>4, Unmoved
<1> QED  BY <1>1, <1>2, <1>3, <1>4, <1>5, <1>6, CalmCommit

-----------------------------------------------------------------------------
(* A message that waits is claimed: for a new turn, or for the running one. *)

Claims(q, r, k, n) ==
    /\ q.messages[k].id = n /\ q.messages[k].status = "queued" /\ q.messages[k].held = FALSE
    /\ r.run = q.run /\ r.initial = q.initial /\ r.started = q.started /\ DOMAIN r.messages = DOMAIN q.messages
    /\ \A i \in DOMAIN q.messages : i # k => r.messages[i] = q.messages[i]
    /\ r.messages[k].id = n /\ r.messages[k].status = "sending" /\ r.messages[k].held = FALSE
    /\ r.messages[k].mode = "queue" =>
         \A j \in DOMAIN q.messages : j < k => q.messages[j].status \notin {"queued", "sending"}

(* Claiming a queued message and putting its start or steer on the agenda   *)
(* issues its only ticket.                                                  *)
LEMMA ClaimKeeps ==
    ASSUME Sound, Still, web = "up", UNCHANGED <<task, shown, control, view>>, queue' \in Queue,
           NEW n \in Messages, NEW k \in DOMAIN queue.messages, Claims(queue, queue', k, n),
           NEW a \in AgendaSteps, a.message = n,
           (a.op = "start" /\ queue.run = 0 /\ runs < MaxRuns /\ task.status # "none") \/ (a.op = "steer" /\ queue.run # 0),
           \A x \in Todo' : x = a \/ x \in Todo
    PROVE  TodoStepOk(a)' /\ (TodoOk' => Sound')
<1>1. queue \in Queue /\ QueueOk /\ Distinct(queue) /\ SteersOk /\ RunsOk /\ TypeOK
  BY DEF Sound, TypeOK, Distinct
<1>2. PICK z : z = queue.messages[k]
  OBVIOUS
<1>3. /\ EntryOk(z) /\ z.id = n /\ z.status = "queued"
      /\ ~Opened(n) /\ ~Steering(n) /\ ~Answering(n) /\ ~HandedTo(n)
      /\ n = queue.initial => queue.run = 0
  BY <1>2, EntryFacts DEF EntryOk, Claims
<1>4. \A m \in Messages : m # n => Moves(m)
  <2> SUFFICES ASSUME NEW m \in Messages, m # n PROVE Moves(m)
    OBVIOUS
  <2>1. \A x \in Todo' : x \in Todo \/ Ticketless(x) \/ Concerns(x, n)
    BY DEF Concerns
  <2> QED  BY <2>1, Moving DEF Still, Claims
<1>5. ~Answering(n)' /\ ~HandedTo(n)' /\ (a.op = "start" => ~Steering(n)') /\ (a.op = "steer" => ~Opened(n)')
  <2>1. ~Answering(n)'
    BY <1>3 DEF Answering
  <2>2. ~HandedTo(n)'
    BY <1>3 DEF HandedTo, Given, Still
  <2>3. a.op = "start" => ~Steering(n)'
    BY <1>3 DEF Steering, Still
  <2>4. a.op = "steer" => ~Opened(n)'
    BY <1>3 DEF Opened, Carries, AwaitsSkills, Still, Claims
  <2> QED  BY <2>1, <2>2, <2>3, <2>4
<1>6. PICK y : y = queue'.messages[k]
  OBVIOUS
<1>7. y.id = n /\ y.status = "sending" /\ y.held = FALSE
  BY <1>6 DEF Claims
<1>8. EntryOk(y)'
  BY <1>3, <1>5, <1>7 DEF EntryOk, Claims
<1>9. VersionOk(y)'
  <2>1. \A v : ~Carried(n, v)'
    <3>1. \A x \in Todo' : x.op \in {"begin", "park", "reserve"} => x.turn.message # n
      BY <1>3 DEF Opened, Carries
    <3>2. \A w \in waiting' : ~AwaitsSkills(w, n)'
      BY <1>3 DEF Opened, AwaitsSkills, Still, Claims
    <3>3. \A e \in DOMAIN execs' : execs'[e].turn.message # n
      BY <1>5 DEF HandedTo, Given
    <3> QED  BY <3>1, <3>2, <3>3 DEF Carried
  <2> QED  BY <1>7, <2>1 DEF VersionOk
<1>10. FirstOk(k)'
  <2>1. k \in Nat /\ DOMAIN queue.messages \subseteq Nat
    BY <1>1, QueueFields
  <2>2. \A j \in DOMAIN queue.messages : j < k => queue'.messages[j] = queue.messages[j]
    BY <2>1 DEF Claims
  <2> QED  BY <2>2 DEF FirstOk, Claims
<1>11. \A i \in DOMAIN queue.messages : i # k => queue.messages[i].id # n /\ queue'.messages[i] = queue.messages[i]
  BY <1>1 DEF Claims, Distinct
<1>12. ASSUME NEW i \in DOMAIN queue.messages PROVE Kept(i)
  <2> SUFFICES ASSUME NEW x, NEW u, x = queue.messages[i], u = queue'.messages[i]
               PROVE  /\ u.id = x.id
                      /\ u.status \in {"queued", "sending"} => x.status \in {"queued", "sending"}
                      /\ \/ Moves(x.id) /\ Follows(u, x) /\ u.mode = x.mode /\ u.version = x.version
                         \/ EntryOk(u)' /\ VersionOk(u)' /\ FirstOk(i)'
    BY DEF Kept
  <2>1. CASE i = k
    <3>1. u = y /\ x = z
      BY <1>2, <1>6, <2>1
    <3> QED  BY <1>3, <1>7, <1>8, <1>9, <1>10, <2>1, <3>1
  <2>2. CASE i # k
    <3>1. u = x /\ x.id # n /\ x.id \in Messages
      BY <1>11, <2>2, EntryFacts
    <3>2. Moves(x.id) /\ Follows(u, x)
      BY <1>4, <3>1 DEF Follows, Claims
    <3> QED  BY <3>1, <3>2
  <2> QED  BY <2>1, <2>2
<1>13. QueueOk'
  <2>1. n \in Ids(queue)
    BY DEF Claims, Ids, Elements
  <2> QED  BY <1>1, <1>4, <1>12, <2>1, QueueKept DEF Claims
<1>14. TypeOK'
  <2>1. \A i \in DOMAIN queue.messages : queue'.messages[i].id = queue.messages[i].id
    BY <1>11 DEF Claims
  <2>2. Distinct(queue')
    BY <1>1, <2>1, StillDistinct DEF Claims
  <2> QED  BY <1>1, <2>2 DEF TypeOK, Still, Distinct
<1>15. SteersOk'
  <2>1. ASSUME NEW m, StatusIs(m, {"sending"}) PROVE StatusIs(m, {"sending"})'
    <3>1. PICK i \in DOMAIN queue.messages : queue.messages[i].id = m /\ queue.messages[i].status = "sending"
      BY <2>1 DEF StatusIs
    <3>2. i # k
      BY <3>1 DEF Claims
    <3> QED  BY <1>11, <3>1, <3>2 DEF StatusIs, Claims
  <2> QED  BY <1>1, <2>1 DEF SteersOk, Still
<1>16. RunsOk'
  BY <1>1 DEF RunsOk, Still, Claims
<1>17. TodoStepOk(a)'
  <2>1. StatusIs(n, {"sending"})'
    BY <1>6, <1>7 DEF StatusIs, Claims
  <2>2. \A s \in steers' : s.phase = "resolving" => s.message # n
    BY <1>3 DEF Steering, Still
  <2> QED  BY <2>1, <2>2 DEF TodoStepOk, Still, Claims
<1> QED  BY <1>13, <1>14, <1>15, <1>16, <1>17, Assembled DEF Still

(* A set of numbers has a least one.                                        *)
LEMMA Least ==
    ASSUME NEW S, S \subseteq Nat, S # {}
    PROVE  \E i \in S : \A j \in S : i <= j
<1>1. PICK R : R = OpToRel(<, Nat)
  BY Zenon
<1>2. \A x, y \in Nat : x < y => <<x, y>> \in R
  BY <1>1, Zenon DEF OpToRel
<1>3. IsWellFoundedOn(R, Nat)
  BY <1>1, NatLessThanWellFounded, Zenon
<1>4. PICK x \in S : \A y \in S : ~(<<y, x>> \in R)
  BY <1>3, WFMin, Zenon
<1>5. \A y \in S : ~(y < x)
  BY <1>2, <1>4, Zenon
<1> QED  BY <1>5

(* pump takes the oldest entry that waits.                                  *)
LEMMA PumpKeeps ==
    ASSUME Sound, Pump
    PROVE  Sound'
<1>1. TodoOk /\ TypeOK /\ Doing("pump") /\ UNCHANGED <<task, shown, control, view>> /\ Still /\ queue \in Queue
  BY DEF Sound, Pump, CommitQueue, Skip, Still, bounds, TypeOK
<1>2. agenda # <<>> /\ web = "up" /\ Now.op = "pump"
  BY <1>1, Doings
<1>3. CASE CanPump(queue, CanStart)
  <2>1. PICK k : k = Oldest(queue)
    OBVIOUS
  <2>2. /\ k \in DOMAIN queue.messages /\ queue.messages[k].status = "queued"
        /\ \A j \in DOMAIN queue.messages : queue.messages[j].status = "queued" => k <= j
    <3>1. Waiting(queue) # {} /\ Waiting(queue) \subseteq Nat
      BY <1>1, <1>3, QueueFields DEF CanPump, Waiting
    <3>2. \E i \in Waiting(queue) : \A j \in Waiting(queue) : i <= j
      BY <3>1, Least
    <3>3. k \in Waiting(queue) /\ \A j \in Waiting(queue) : k <= j
      BY <2>1, <3>2 DEF Oldest
    <3> QED  BY <3>3 DEF Waiting
  <2>3. PICK n \in Messages : n = queue.messages[k].id
    BY <2>2, EntryFacts
  <2>4. PICK a : a = [op |-> "start", message |-> n]
    OBVIOUS
  <2>5. queue' = Take(queue, n) /\ Then(<<a>>)
    <3>1. NextQueued(queue) = n
      BY <2>1, <2>3 DEF NextQueued
    <3> QED  BY <1>3, <2>4, <3>1 DEF Pump, CommitQueue
  <2>6. a \in AgendaSteps /\ a.op = "start" /\ a.message = n
    BY <2>4 DEF AgendaSteps, Sends
  <2>7. \A b : Behind(Now.op, b) => Behind(a.op, b)
    BY <1>2, <2>6 DEF Behind, BeforeAnswers
  <2>8. Made({a})
    BY <1>1, <1>2, <2>5, <2>6, <2>7, MadeOne
  <2>9. /\ queue' \in Queue /\ queue'.run = queue.run /\ queue'.initial = queue.initial /\ queue'.started = queue.started
        /\ DOMAIN queue'.messages = DOMAIN queue.messages
        /\ \A i \in DOMAIN queue.messages :
             /\ Like(queue'.messages[i], queue.messages[i])
             /\ queue'.messages[i].status = IF queue.messages[i].id = n THEN "sending" ELSE queue.messages[i].status
    BY <1>1, <2>5, TakeEffect
  <2>10. queue.run = 0 /\ runs < MaxRuns /\ task.status # "none" /\ queue.messages[k].held = FALSE
    <3>1. ~queue.messages[k].held /\ queue.run = 0 /\ CanStart
      BY <1>3, <2>1 DEF CanPump
    <3>2. queue.messages[k].held \in BOOLEAN
      BY <2>2, EntryFacts
    <3> QED  BY <3>1, <3>2 DEF CanStart, Budget
  <2>11. \A i \in DOMAIN queue.messages : queue'.messages[i] =
            IF queue.messages[i].id = n THEN [queue.messages[i] EXCEPT !.status = "sending"] ELSE queue.messages[i]
    BY <2>5 DEF Take, Set, Update
  <2>12. Claims(queue, queue', k, n)
    <3>1. Distinct(queue)
      BY <1>1 DEF TypeOK, Distinct
    <3>2. \A i \in DOMAIN queue.messages : i # k => queue'.messages[i] = queue.messages[i]
      BY <2>2, <2>3, <2>11, <3>1 DEF Distinct
    <3>3. queue'.messages[k].id = n /\ queue'.messages[k].status = "sending" /\ queue'.messages[k].held = FALSE
      BY <2>2, <2>3, <2>9, <2>10 DEF Like
    <3>4. \A j \in DOMAIN queue.messages : queue.messages[j].status # "sending"
      BY <1>3 DEF CanPump, Some, Elements
    <3>5. \A j \in DOMAIN queue.messages : j < k => queue.messages[j].status \notin {"queued", "sending"}
      <4>1. k \in Nat /\ DOMAIN queue.messages \subseteq Nat
        BY <1>1, <2>2, QueueFields
      <4> QED  BY <2>2, <3>4, <4>1
    <3> QED  BY <2>2, <2>3, <2>9, <2>10, <3>2, <3>3, <3>5 DEF Claims
  <2>13. \A x \in Todo' : x = a \/ x \in Todo
    BY <2>8 DEF Made
  <2>14. TodoStepOk(a)' /\ (TodoOk' => Sound')
    BY <1>1, <1>2, <2>2, <2>6, <2>9, <2>10, <2>12, <2>13, ClaimKeeps
  <2>15. TodoOk'
    <3>1. web' = "up" /\ handle' = handle /\ \A m \in Messages : Acknowledged(m) => Acknowledged(m)'
      BY <1>1, <1>2 DEF Still, Acknowledged, Has
    <3> QED  BY <1>1, <1>2, <2>8, <2>14, <3>1, TodoAdvances
  <2> QED  BY <2>14, <2>15
<1>4. CASE ~CanPump(queue, CanStart)
  <2>1. Then(<<>>) /\ queue' = queue
    BY <1>4 DEF Pump, CommitQueue
  <2>2. Made({})
    BY <1>1, <1>2, <2>1, MadeNone
  <2>3. /\ task' \in [status : Status, pending : BOOLEAN, rawSeq : Nat, worktree : BOOLEAN] /\ task'.status = task.status
        /\ shown' \in Seq(Nat \X Nat) /\ control' \in [stopping : BOOLEAN, steer : BOOLEAN, restart : BOOLEAN]
        /\ view' \in [exec : 0..Len(execs), cursor : Nat, baseline : Nat, listening : BOOLEAN]
        /\ view'.exec = view.exec /\ view'.cursor = view.cursor
    BY <1>1 DEF TypeOK
  <2> QED  BY <1>1, <1>2, <2>1, <2>2, <2>3, PlainCommit
<1> QED  BY <1>3, <1>4

(* sendNow claims an entry that waits and nobody edits.                     *)
LEMMA SendClaims ==
    ASSUME Sound, NEW n \in Messages, NEW k \in DOMAIN queue.messages, queue.messages[k].id = n,
           queue.messages[k].status = "queued", queue.messages[k].held = FALSE, queue' = SendNow(queue, n)
    PROVE  queue' \in Queue /\ Claims(queue, queue', k, n)
<1>1. queue \in Queue /\ Distinct(queue)
  BY DEF Sound, TypeOK, Distinct
<1>2. /\ queue' \in Queue /\ queue'.run = queue.run /\ queue'.initial = queue.initial /\ queue'.started = queue.started
      /\ DOMAIN queue'.messages = DOMAIN queue.messages
      /\ \A i \in DOMAIN queue.messages :
           /\ queue.messages[i].id # n => queue'.messages[i] = queue.messages[i]
           /\ queue.messages[i].id = n =>
                /\ queue'.messages[i].id = n /\ queue'.messages[i].status = "sending" /\ queue'.messages[i].mode = "send"
                /\ queue'.messages[i].held = queue.messages[i].held
                /\ queue'.messages[i].version = queue.messages[i].version
  BY <1>1, SendEffect
<1>3. \A i \in DOMAIN queue.messages : i # k => queue'.messages[i] = queue.messages[i]
  BY <1>1, <1>2 DEF Distinct
<1> QED  BY <1>2, <1>3 DEF Claims

(* sendNow, as the last commit of a message sent at once.                   *)
LEMMA SendMessageNowKeeps ==
    ASSUME Sound, SendMessageNow
    PROVE  Sound'
<1>1. PICK n : n = Now.message
  OBVIOUS
<1>2. PICK a : a = [op |-> IF queue.run = 0 THEN "start" ELSE "steer", message |-> n]
  OBVIOUS
<1>3. /\ TodoOk /\ TypeOK /\ Doing("sendNow") /\ UNCHANGED <<task, shown, control, view>> /\ Still
      /\ queue' = SendNow(queue, n) /\ Then(<<a>>) /\ queue \in Queue
  BY <1>1, <1>2 DEF Sound, SendMessageNow, CommitQueue, Skip, Still, bounds, TypeOK
<1>4. agenda # <<>> /\ web = "up" /\ Now.op = "sendNow" /\ Now \in AgendaSteps /\ TodoStepOk(Now)
  BY <1>3, Doings
<1>5. n \in Messages
  BY <1>1, <1>4, StepFields DEF Sends
<1>6. a \in AgendaSteps /\ a.message = n /\ a.op = IF queue.run = 0 THEN "start" ELSE "steer"
  BY <1>2, <1>5 DEF AgendaSteps, Sends
<1>7. \A b : ~Behind(Now.op, b)
  BY <1>4 DEF Behind, BeforeAnswers
<1>8. Made({a})
  BY <1>3, <1>4, <1>6, <1>7, MadeOne
<1>9. PICK k \in DOMAIN queue.messages :
         queue.messages[k].id = n /\ queue.messages[k].status = "queued" /\ ~queue.messages[k].held
  BY <1>1, <1>4 DEF TodoStepOk
<1>10. queue.messages[k].held = FALSE
  BY <1>9, EntryFacts
<1>11. queue' \in Queue /\ Claims(queue, queue', k, n)
  BY <1>3, <1>5, <1>9, <1>10, SendClaims
<1>12. queue.run = 0 => runs < MaxRuns /\ task.status # "none"
  BY <1>4 DEF TodoStepOk
<1>13. (a.op = "start" /\ queue.run = 0 /\ runs < MaxRuns /\ task.status # "none") \/ (a.op = "steer" /\ queue.run # 0)
  BY <1>6, <1>12
<1>14. \A x \in Todo' : x = a \/ x \in Todo
  BY <1>8 DEF Made
<1>15. TodoStepOk(a)' /\ (TodoOk' => Sound')
  BY <1>3, <1>4, <1>5, <1>6, <1>11, <1>13, <1>14, ClaimKeeps
<1>16. TodoOk'
  <2>1. web' = "up" /\ handle' = handle /\ \A m \in Messages : Acknowledged(m) => Acknowledged(m)'
    BY <1>3, <1>4 DEF Still, Acknowledged, Has
  <2> QED  BY <1>3, <1>4, <1>8, <1>15, <2>1, TodoAdvances
<1> QED  BY <1>15, <1>16

(* promote: a queued message is sent at once.                               *)
LEMMA PromoteKeeps ==
    ASSUME Sound, NEW n \in Messages, Promote(n)
    PROVE  Sound'
<1>1. PICK a : a = [op |-> IF queue.run = 0 THEN "start" ELSE "steer", message |-> n]
  OBVIOUS
<1>2. /\ TypeOK /\ Idle /\ UNCHANGED <<task, shown, control, view>> /\ Still
      /\ queue' = SendNow(queue, n) /\ agenda' = <<a>> /\ CanPromote(queue, n) /\ CanSendNow(queue, CanStart)
  BY <1>1 DEF Sound, Promote, Request, Still, bounds, TypeOK
<1>3. a \in AgendaSteps /\ a.message = n /\ a.op = IF queue.run = 0 THEN "start" ELSE "steer"
  BY <1>1 DEF AgendaSteps, Sends
<1>4. agenda = <<>> /\ web = "up" /\ agenda' \in Seq(AgendaSteps) /\ Ordered(agenda') /\ Todo' = {a}
  BY <1>2, <1>3, Begun DEF Idle
<1>5. PICK k \in DOMAIN queue.messages :
         queue.messages[k].id = n /\ queue.messages[k].status = "queued" /\ queue.messages[k].held = FALSE
  <2>1. n \in Ids(queue)
    BY <1>2 DEF CanPromote, StatusOf
  <2>2. PICK k \in DOMAIN queue.messages : queue.messages[k].id = n
    BY <2>1, IdAt
  <2>3. Distinct(queue)
    BY <1>2 DEF TypeOK, Distinct
  <2>4. Entry(queue, n) = queue.messages[k] /\ StatusOf(queue, n) = queue.messages[k].status
    BY <2>2, <2>3, EntryAt
  <2>5. queue.messages[k].status = "queued" /\ ~queue.messages[k].held
    BY <1>2, <2>4 DEF CanPromote
  <2>6. queue.messages[k].held \in BOOLEAN
    BY EntryFacts
  <2> QED  BY <2>2, <2>5, <2>6
<1>6. queue' \in Queue /\ Claims(queue, queue', k, n)
  BY <1>2, <1>5, SendClaims
<1>7. (a.op = "start" /\ queue.run = 0 /\ runs < MaxRuns /\ task.status # "none") \/ (a.op = "steer" /\ queue.run # 0)
  BY <1>2, <1>3 DEF CanSendNow, CanStart, Budget
<1>8. TodoStepOk(a)' /\ (TodoOk' => Sound')
  BY <1>2, <1>3, <1>4, <1>6, <1>7, ClaimKeeps
<1>9. TodoOk'
  BY <1>2, <1>4, <1>8, TodoBegins DEF Still
<1> QED  BY <1>8, <1>9

-----------------------------------------------------------------------------
(* A request that moves no message and puts no ticket on the agenda keeps   *)
(* the tickets.                                                             *)
LEMMA CalmRequest ==
    ASSUME Sound, Idle, Still, UNCHANGED <<shown, view>>,
           task' \in [status : Status, pending : BOOLEAN, rawSeq : Nat, worktree : BOOLEAN],
           task'.status = "none" => task.status = "none",
           control' \in [stopping : BOOLEAN, steer : BOOLEAN, restart : BOOLEAN],
           queue' \in Queue, queue'.initial = queue.initial, queue'.run = queue.run, queue'.started = queue.started,
           DOMAIN queue'.messages = DOMAIN queue.messages,
           \A i \in DOMAIN queue.messages : Calm(i),
           agenda' \in Seq(AgendaSteps), Ordered(agenda'),
           \A x \in Todo' : Ticketless(x) /\ TodoStepOk(x)'
    PROVE  Sound'
<1>1. Distinct(queue')
  <2>1. \A i \in DOMAIN queue.messages : queue'.messages[i].id = queue.messages[i].id
    BY DEF Calm, Like
  <2>2. Distinct(queue)
    BY DEF Sound, TypeOK, Distinct
  <2> QED  BY <2>1, <2>2, StillDistinct
<1>2. TypeOK'
  BY <1>1 DEF Sound, TypeOK, Still, Distinct
<1>3. TodoOk'
  BY TodoBegins DEF Still, Idle
<1>4. /\ execs' = execs /\ waiting' \subseteq waiting /\ steers' \subseteq steers /\ handle' \in {0, handle} /\ runs' = runs
      /\ view'.exec # 0 => view'.cursor <= Len(execs[view'.exec].journal)
  BY DEF Still, Sound, RunsOk
<1> QED  BY <1>2, <1>3, <1>4, Quiet

(* The queue is paused at most.                                             *)
LEMMA PausedEffect ==
    ASSUME Sound, NEW paused \in BOOLEAN, queue' = queue \/ queue' = [queue EXCEPT !.paused = paused]
    PROVE  /\ queue' \in Queue /\ queue'.initial = queue.initial /\ queue'.run = queue.run
           /\ queue'.started = queue.started /\ DOMAIN queue'.messages = DOMAIN queue.messages
           /\ \A i \in DOMAIN queue.messages : Calm(i)
<1>1. queue \in Queue
  BY DEF Sound, TypeOK
<1>2. queue' \in Queue /\ queue'.messages = queue.messages
  BY <1>1 DEF Queue
<1>3. queue'.initial = queue.initial /\ queue'.run = queue.run /\ queue'.started = queue.started
  BY <1>1 DEF Queue
<1>4. \A i \in DOMAIN queue.messages : Calm(i)
  BY <1>2, Unmoved
<1> QED  BY <1>2, <1>3, <1>4

(* Three commits in order.                                                  *)
LEMMA BegunThree ==
    ASSUME NEW a \in AgendaSteps, NEW b \in AgendaSteps, NEW c \in AgendaSteps, agenda' = <<a, b, c>>,
           Behind(a.op, b.op), Behind(a.op, c.op), Behind(b.op, c.op)
    PROVE  agenda' \in Seq(AgendaSteps) /\ Ordered(agenda') /\ Todo' = {a, b, c}
BY FewElements DEF Ordered, Todo

(* stop, cancel and archive pause the queue first.                          *)
LEMMA PausingKeeps ==
    ASSUME Sound, Stop \/ Cancel \/ Archive
    PROVE  Sound'
<1>1. /\ Idle /\ agenda = <<>> /\ Still /\ UNCHANGED <<task, shown, view, control>> /\ queue' = [queue EXCEPT !.paused = TRUE]
      /\ handle' = handle /\ TypeOK
  BY DEF Sound, TypeOK, Stop, Cancel, Archive, Request, Still, bounds, Idle, Paused
<1>2. /\ task' \in [status : Status, pending : BOOLEAN, rawSeq : Nat, worktree : BOOLEAN] /\ task'.status = task.status
      /\ control' \in [stopping : BOOLEAN, steer : BOOLEAN, restart : BOOLEAN]
  BY <1>1 DEF TypeOK
<1>3. /\ queue' \in Queue /\ queue'.initial = queue.initial /\ queue'.run = queue.run
      /\ queue'.started = queue.started /\ DOMAIN queue'.messages = DOMAIN queue.messages
      /\ \A i \in DOMAIN queue.messages : Calm(i)
  BY <1>1, PausedEffect
<1>4. ASSUME agenda' \in Seq(AgendaSteps), Ordered(agenda'), \A x \in Todo' : Ticketless(x) /\ TodoStepOk(x)'
      PROVE  Sound'
  BY <1>1, <1>2, <1>3, <1>4, CalmRequest
<1>5. ASSUME NEW op \in {"dropSteer", "stopping", "interrupt", "dequeue", "stopWaiting", "cancelled", "archived", "cleanup"}
      PROVE  Do(op) \in AgendaSteps /\ Do(op).op = op /\ Ticketless(Do(op))
  BY <1>5, Plain1 DEF Plainly
<1>6. CASE Stop /\ handle # 0
  <2>1. agenda' = <<Do("dropSteer"), Do("stopping"), Do("interrupt")>>
    BY <1>6 DEF Stop, Request
  <2>2. Behind("dropSteer", "stopping") /\ Behind("dropSteer", "interrupt") /\ Behind("stopping", "interrupt")
    BY DEF Behind
  <2>3. /\ agenda' \in Seq(AgendaSteps) /\ Ordered(agenda')
        /\ Todo' = {Do("dropSteer"), Do("stopping"), Do("interrupt")}
    BY <1>5, <2>1, <2>2, BegunThree
  <2>4. TodoStepOk(Do("dropSteer"))' /\ TodoStepOk(Do("stopping"))' /\ TodoStepOk(Do("interrupt"))'
    BY <1>5 DEF TodoStepOk
  <2> QED  BY <1>4, <1>5, <2>3, <2>4
<1>7. CASE Stop /\ handle = 0 /\ task.status = "queued"
  <2>1. agenda' = <<Do("dequeue"), Do("stopWaiting")>>
    BY <1>7 DEF Stop, Request
  <2>2. Behind("dequeue", "stopWaiting")
    BY DEF Behind
  <2>3. agenda' \in Seq(AgendaSteps) /\ Ordered(agenda') /\ Todo' = {Do("dequeue"), Do("stopWaiting")}
    BY <1>1, <1>5, <2>1, <2>2, Begun
  <2>4. TodoStepOk(Do("dequeue"))' /\ TodoStepOk(Do("stopWaiting"))'
    BY <1>1, <1>5, <1>7 DEF TodoStepOk
  <2> QED  BY <1>4, <1>5, <2>3, <2>4
<1>8. CASE Stop /\ handle = 0 /\ task.status # "queued"
  <2>1. agenda' = <<>>
    BY <1>8 DEF Stop, Request
  <2>2. agenda' \in Seq(AgendaSteps) /\ Ordered(agenda') /\ Todo' = {}
    BY <1>1, <2>1, Begun
  <2> QED  BY <1>4, <2>2
<1>9. CASE Cancel
  <2>1. agenda' = <<Do("dropSteer"), Do("cancelled")>>
    BY <1>9 DEF Cancel, Request
  <2>2. Behind("dropSteer", "cancelled")
    BY DEF Behind
  <2>3. agenda' \in Seq(AgendaSteps) /\ Ordered(agenda') /\ Todo' = {Do("dropSteer"), Do("cancelled")}
    BY <1>1, <1>5, <2>1, <2>2, Begun
  <2>4. TodoStepOk(Do("dropSteer"))' /\ TodoStepOk(Do("cancelled"))'
    BY <1>5 DEF TodoStepOk
  <2> QED  BY <1>4, <1>5, <2>3, <2>4
<1>10. CASE Archive
  <2>1. agenda' = <<Do("archived"), Do("cleanup")>>
    BY <1>10 DEF Archive, Request
  <2>2. Behind("archived", "cleanup")
    BY DEF Behind
  <2>3. agenda' \in Seq(AgendaSteps) /\ Ordered(agenda') /\ Todo' = {Do("archived"), Do("cleanup")}
    BY <1>1, <1>5, <2>1, <2>2, Begun
  <2>4. TodoStepOk(Do("archived"))' /\ TodoStepOk(Do("cleanup"))'
    BY <1>5 DEF TodoStepOk
  <2> QED  BY <1>4, <1>5, <2>3, <2>4
<1> QED  BY <1>6, <1>7, <1>8, <1>9, <1>10

(* A turn without a message, and the timer.                                 *)
LEMMA TurnRequestsKeep ==
    ASSUME Sound,
           \/ \E skills \in BOOLEAN : CreateTask(skills /\ Asked("skills"))
           \/ Followup \/ Timer
           \/ \E request \in Compactions : Compact(request)
    PROVE  Sound'
<1>1. /\ Idle /\ agenda = <<>> /\ Still /\ UNCHANGED <<queue, shown, view, control>> /\ TypeOK /\ runs' = runs /\ RunsOk
  BY DEF Sound, TypeOK, CreateTask, Followup, Timer, Compact, Request, Still, bounds, product, Idle
<1>2. /\ task' \in [status : Status, pending : BOOLEAN, rawSeq : Nat, worktree : BOOLEAN]
      /\ task'.status = "none" => task.status = "none"
      /\ control' \in [stopping : BOOLEAN, steer : BOOLEAN, restart : BOOLEAN]
  BY <1>1 DEF TypeOK, CreateTask, Followup, Timer, Compact, product, Status
<1>3. /\ queue' \in Queue /\ queue'.initial = queue.initial /\ queue'.run = queue.run
      /\ queue'.started = queue.started /\ DOMAIN queue'.messages = DOMAIN queue.messages
      /\ \A i \in DOMAIN queue.messages : Calm(i)
  BY <1>1, PausedEffect
<1>4. ASSUME agenda' \in Seq(AgendaSteps), Ordered(agenda'), \A x \in Todo' : Ticketless(x) /\ TodoStepOk(x)'
      PROVE  Sound'
  BY <1>1, <1>2, <1>3, <1>4, CalmRequest
<1>5. ASSUME NEW skills \in BOOLEAN, NEW request \in Compactions \cup {None}, runs < MaxRuns, task'.status # "none",
             agenda' = <<[op |-> "begin", turn |-> Turn(None, 1, request), skills |-> skills]>>
      PROVE  Sound'
  <2>1. PICK a : a = [op |-> "begin", turn |-> Turn(None, 1, request), skills |-> skills]
    OBVIOUS
  <2>2. a \in AgendaSteps /\ a.op = "begin" /\ Ticketless(a)
    BY <2>1, PlainBegins
  <2>3. agenda' \in Seq(AgendaSteps) /\ Ordered(agenda') /\ Todo' = {a}
    BY <1>1, <1>5, <2>1, <2>2, Begun
  <2>4. TodoStepOk(a)'
    BY <1>1, <1>5, <2>2 DEF TodoStepOk
  <2> QED  BY <1>4, <2>2, <2>3, <2>4
<1>6. CASE \E skills \in BOOLEAN : CreateTask(skills /\ Asked("skills"))
  <2>1. PICK skills \in BOOLEAN : CreateTask(skills)
    <3>1. PICK s \in BOOLEAN : CreateTask(s /\ Asked("skills"))
      BY <1>6
    <3>2. (s /\ Asked("skills")) \in BOOLEAN
      OBVIOUS
    <3> QED  BY <3>1, <3>2, Zenon
  <2>2. agenda' = <<[op |-> "begin", turn |-> Turn(None, 1, None), skills |-> skills]>>
    BY <2>1 DEF CreateTask, Request, Plain
  <2>3. runs < MaxRuns
    BY <1>1, <2>1, TurnsAssumption DEF CreateTask, Exists, RunsOk
  <2>4. task'.status = "queued"
    BY <1>1, <2>1 DEF CreateTask, TypeOK
  <2> QED  BY <1>5, <2>2, <2>3, <2>4
<1>7. CASE Followup
  <2>1. agenda' = <<[op |-> "begin", turn |-> Turn(None, 1, None), skills |-> FALSE]>> /\ runs < MaxRuns /\ task'.status # "none"
    BY <1>7 DEF Followup, Request, Plain, CanStart, Budget, product
  <2> QED  BY <1>5, <2>1
<1>8. CASE \E request \in Compactions : Compact(request)
  <2>1. PICK request \in Compactions : Compact(request)
    BY <1>8
  <2>2. agenda' = <<[op |-> "begin", turn |-> Turn(None, 1, request), skills |-> FALSE]>> /\ runs < MaxRuns /\ task'.status # "none"
    BY <2>1 DEF Compact, Request, CanStart, Budget, product
  <2> QED  BY <1>5, <2>2
<1>9. CASE Timer
  <2>1. agenda' = <<Do("pump")>>
    BY <1>9 DEF Timer, Request
  <2>2. Do("pump") \in AgendaSteps /\ Do("pump").op = "pump" /\ Ticketless(Do("pump"))
    BY Plain1 DEF Plainly
  <2>3. agenda' \in Seq(AgendaSteps) /\ Ordered(agenda') /\ Todo' = {Do("pump")}
    BY <1>1, <2>1, <2>2, Begun
  <2>4. TodoStepOk(Do("pump"))'
    BY <2>2 DEF TodoStepOk
  <2> QED  BY <1>4, <2>2, <2>3, <2>4
<1> QED  BY <1>6, <1>7, <1>8, <1>9

(* A steer of an earlier client.                                            *)
LEMMA LegacySteerKeeps ==
    ASSUME Sound, NEW restart \in BOOLEAN, LegacySteer(restart)
    PROVE  Sound'
<1>1. /\ Idle /\ agenda = <<>> /\ Still /\ UNCHANGED <<task, queue, shown, view>> /\ TypeOK
      /\ control' = [control EXCEPT !.steer = TRUE]
  BY DEF Sound, TypeOK, LegacySteer, Request, Still, bounds, product, Idle
<1>2. /\ task' \in [status : Status, pending : BOOLEAN, rawSeq : Nat, worktree : BOOLEAN] /\ task'.status = task.status
      /\ control' \in [stopping : BOOLEAN, steer : BOOLEAN, restart : BOOLEAN]
  BY <1>1 DEF TypeOK
<1>3. /\ queue' \in Queue /\ queue'.initial = queue.initial /\ queue'.run = queue.run
      /\ queue'.started = queue.started /\ DOMAIN queue'.messages = DOMAIN queue.messages
      /\ \A i \in DOMAIN queue.messages : Calm(i)
  BY <1>1, PausedEffect
<1>4. /\ agenda' \in Seq(AgendaSteps) /\ Ordered(agenda')
      /\ \A x \in Todo' : Ticketless(x) /\ x.op \in {"restart", "interruptSteered"}
  <2>1. /\ Do("restart") \in AgendaSteps /\ Do("restart").op = "restart" /\ Ticketless(Do("restart"))
        /\ Do("interruptSteered") \in AgendaSteps /\ Do("interruptSteered").op = "interruptSteered"
        /\ Ticketless(Do("interruptSteered"))
    BY Plain1 DEF Plainly
  <2>2. Behind("restart", "interruptSteered")
    BY DEF Behind
  <2>3. CASE restart
    <3>1. agenda' = <<Do("restart"), Do("interruptSteered")>>
      BY <2>3 DEF LegacySteer, Request
    <3>2. agenda' \in Seq(AgendaSteps) /\ Ordered(agenda') /\ Todo' = {Do("restart"), Do("interruptSteered")}
      BY <1>1, <2>1, <2>2, <3>1, Begun
    <3> QED  BY <2>1, <3>2
  <2>4. CASE ~restart
    <3>1. agenda' = <<>>
      BY <2>4 DEF LegacySteer, Request
    <3> QED  BY <1>1, <3>1, Begun
  <2> QED  BY <2>3, <2>4
<1>5. \A x \in Todo' : TodoStepOk(x)'
  BY <1>4 DEF TodoStepOk
<1> QED  BY <1>1, <1>2, <1>3, <1>4, <1>5, CalmRequest

(* Changes of the queue end in a pump.                                      *)
LEMMA Changed ==
    ASSUME Sound, NEW kind, NEW q, Change(kind, q)
    PROVE  /\ Idle /\ agenda = <<>> /\ Still /\ UNCHANGED <<task, shown, view, control>> /\ queue' = q
           /\ task' \in [status : Status, pending : BOOLEAN, rawSeq : Nat, worktree : BOOLEAN]
           /\ control' \in [stopping : BOOLEAN, steer : BOOLEAN, restart : BOOLEAN]
           /\ agenda' \in Seq(AgendaSteps) /\ Ordered(agenda')
           /\ \A x \in Todo' : Ticketless(x) /\ TodoStepOk(x)'
<1>1. /\ Idle /\ agenda = <<>> /\ Still /\ UNCHANGED <<task, shown, view, control>> /\ queue' = q
      /\ agenda' = <<Do("pump")>>
  BY DEF Sound, TypeOK, Change, Request, Still, bounds, Idle
<1>2. Do("pump") \in AgendaSteps /\ Do("pump").op = "pump" /\ Ticketless(Do("pump"))
  BY Plain1 DEF Plainly
<1>3. agenda' \in Seq(AgendaSteps) /\ Ordered(agenda') /\ Todo' = {Do("pump")}
  BY <1>1, <1>2, Begun
<1>4. TodoStepOk(Do("pump"))'
  BY <1>2 DEF TodoStepOk
<1> QED  BY <1>1, <1>2, <1>3, <1>4 DEF Sound, TypeOK

(* resume: the queue is no longer paused.                                   *)
LEMMA ResumeKeeps ==
    ASSUME Sound, Resume
    PROVE  Sound'
<1>1. Change("resume", [queue EXCEPT !.paused = FALSE])
  BY DEF Resume
<1>2. /\ queue' \in Queue /\ queue'.initial = queue.initial /\ queue'.run = queue.run
      /\ queue'.started = queue.started /\ DOMAIN queue'.messages = DOMAIN queue.messages
      /\ \A i \in DOMAIN queue.messages : Calm(i)
  BY <1>1, Changed, PausedEffect
<1> QED  BY <1>1, <1>2, Changed, CalmRequest

(* A message that is removed has nowhere to go any more.                    *)
LEMMA DeleteKeeps ==
    ASSUME Sound, NEW m \in Messages, DeleteMessage(m)
    PROVE  Sound'
<1>1. Change("delete", Delete(queue, m)) /\ CanDelete(queue, m) /\ queue \in Queue /\ Distinct(queue)
  BY DEF DeleteMessage, Sound, TypeOK, Distinct
<1>2. /\ Idle /\ agenda = <<>> /\ Still /\ UNCHANGED <<task, shown, view, control>> /\ queue' = Delete(queue, m)
      /\ task' \in [status : Status, pending : BOOLEAN, rawSeq : Nat, worktree : BOOLEAN]
      /\ control' \in [stopping : BOOLEAN, steer : BOOLEAN, restart : BOOLEAN]
      /\ agenda' \in Seq(AgendaSteps) /\ Ordered(agenda')
      /\ \A x \in Todo' : Ticketless(x) /\ TodoStepOk(x)'
  BY <1>1, Changed
<1>3. /\ queue' \in Queue /\ queue'.run = queue.run /\ queue'.initial = queue.initial /\ queue'.started = queue.started
      /\ DOMAIN queue'.messages = DOMAIN queue.messages
      /\ \A i \in DOMAIN queue.messages :
           /\ Like(queue'.messages[i], queue.messages[i])
           /\ queue'.messages[i].status = IF queue.messages[i].id = m THEN "cancelled" ELSE queue.messages[i].status
  BY <1>1, <1>2, DeleteEffect
<1>4. Opened(m)' => Opened(m)
  BY <1>2, <1>3, NotReopened DEF Still
<1>5. ASSUME NEW i \in DOMAIN queue.messages PROVE Calm(i)
  <2> SUFFICES ASSUME NEW x, NEW y, x = queue.messages[i], y = queue'.messages[i]
               PROVE  /\ Like(y, x)
                      /\ \/ y.status = x.status
                         \/ /\ y.status = "cancelled" /\ x.held = FALSE /\ ~Opened(x.id)' /\ x.status # "sending"
    BY DEF Calm
  <2>1. Like(y, x) /\ y.status = IF x.id = m THEN "cancelled" ELSE x.status
    BY <1>3
  <2>2. CASE x.id = m
    <3>1. EntryOk(x) /\ x.held \in BOOLEAN
      BY EntryFacts
    <3>2. Entry(queue, m) = x /\ StatusOf(queue, m) = x.status
      BY <1>1, <2>2, EntryAt
    <3>3. x.held = FALSE /\ x.status # "sending"
      BY <1>1, <3>1, <3>2 DEF CanDelete
    <3>4. ~Opened(x.id)
      BY <3>1, <3>3 DEF EntryOk
    <3> QED  BY <1>4, <2>1, <2>2, <3>3, <3>4
  <2>3. CASE x.id # m
    BY <2>1, <2>3
  <2> QED  BY <2>2, <2>3
<1> QED  BY <1>2, <1>3, <1>5, CalmRequest

(* An entry that waits is edited.                                           *)
LEMMA EditKeeps ==
    ASSUME Sound, Idle, Still, UNCHANGED <<task, shown, view, control>>,
           agenda' \in Seq(AgendaSteps), Ordered(agenda'), \A x \in Todo' : Ticketless(x) /\ TodoStepOk(x)',
           NEW m \in Messages, NEW k \in DOMAIN queue.messages, queue.messages[k].id = m, queue.messages[k].status = "queued",
           NEW held, NEW version, Edited(queue, m, queue', held, version)
    PROVE  Sound'
<1>1. queue \in Queue /\ queue' \in Queue /\ QueueOk /\ Distinct(queue) /\ SteersOk /\ RunsOk /\ TypeOK
  BY DEF Sound, TypeOK, Distinct, Edited
<1>2. /\ queue'.run = queue.run /\ queue'.initial = queue.initial /\ queue'.started = queue.started
      /\ DOMAIN queue'.messages = DOMAIN queue.messages
      /\ \A i \in DOMAIN queue.messages :
           /\ i # k => queue'.messages[i] = queue.messages[i]
           /\ queue'.messages[i].id = queue.messages[i].id /\ queue'.messages[i].status = queue.messages[i].status
  BY <1>1 DEF Edited, Distinct
<1>3. TypeOK'
  <2>1. Distinct(queue')
    BY <1>1, <1>2, StillDistinct
  <2> QED  BY <1>1, <2>1 DEF TypeOK, Still, Distinct
<1>4. TodoOk'
  BY TodoBegins DEF Still, Idle
<1>5. \A n \in Messages : Moves(n)
  <2> SUFFICES ASSUME NEW n \in Messages PROVE Moves(n)
    OBVIOUS
  <2>1. n # None
    BY QueueAssumption
  <2> QED  BY <1>2, <2>1, Moving DEF Still
<1>6. ASSUME NEW i \in DOMAIN queue.messages PROVE Kept(i)
  <2> SUFFICES ASSUME NEW x, NEW y, x = queue.messages[i], y = queue'.messages[i]
               PROVE  /\ y.id = x.id
                      /\ y.status \in {"queued", "sending"} => x.status \in {"queued", "sending"}
                      /\ \/ Moves(x.id) /\ Follows(y, x) /\ y.mode = x.mode /\ y.version = x.version
                         \/ EntryOk(y)' /\ VersionOk(y)' /\ FirstOk(i)'
    BY DEF Kept
  <2>1. EntryOk(x) /\ x.id \in Messages /\ y.id = x.id /\ y.status = x.status
    BY <1>2, EntryFacts
  <2>2. CASE i = k
    <3>1. /\ x.status = "queued" /\ ~Opened(x.id) /\ ~Steering(x.id) /\ ~Answering(x.id) /\ ~HandedTo(x.id)
          /\ x.id # queue.initial \/ queue.run = 0
      BY <2>1, <2>2 DEF EntryOk
    <3>2. ~Opened(x.id)' /\ ~Steering(x.id)' /\ ~Answering(x.id)' /\ ~HandedTo(x.id)'
      BY <1>5, <2>1, <3>1 DEF Moves
    <3>3. EntryOk(y)' /\ VersionOk(y)' /\ FirstOk(i)'
      BY <1>2, <2>1, <3>1, <3>2, Waits
    <3> QED  BY <2>1, <3>3
  <2>3. CASE i # k
    <3>1. y = x
      BY <1>2, <2>3
    <3>2. Follows(y, x)
      BY <1>2, <3>1 DEF Follows
    <3> QED  BY <1>5, <2>1, <3>1, <3>2
  <2> QED  BY <2>2, <2>3
<1>7. QueueOk'
  BY <1>1, <1>2, <1>5, <1>6, QueueKept
<1>8. SteersOk'
  <2>1. ASSUME NEW n, StatusIs(n, {"sending"}) PROVE StatusIs(n, {"sending"})'
    BY <1>2, <2>1 DEF StatusIs
  <2> QED  BY <1>1, <2>1 DEF SteersOk, Still
<1>9. RunsOk'
  BY <1>1, <1>2 DEF RunsOk, Still
<1> QED  BY <1>3, <1>4, <1>7, <1>8, <1>9, Assembled DEF Still

(* edit, save, cancel and the expiry of a hold.                             *)
LEMMA EditsKeep ==
    ASSUME Sound, NEW m \in Messages,
           \/ HoldLapses(m)
           \/ \E token \in Editors : EditMessage(m, token) \/ SaveMessage(m, token) \/ ReleaseMessage(m, token)
    PROVE  Sound'
<1>1. queue \in Queue /\ Distinct(queue)
  BY DEF Sound, TypeOK, Distinct
<1>2. ASSUME m \in Ids(queue), StatusOf(queue, m) = "queued"
      PROVE  \E k \in DOMAIN queue.messages :
                queue.messages[k].id = m /\ queue.messages[k].status = "queued" /\ Entry(queue, m) = queue.messages[k]
  <2>1. PICK k \in DOMAIN queue.messages : queue.messages[k].id = m
    BY <1>2, IdAt
  <2>2. Entry(queue, m) = queue.messages[k] /\ StatusOf(queue, m) = queue.messages[k].status
    BY <1>1, <2>1, EntryAt
  <2> QED  BY <1>2, <2>1, <2>2
<1>3. CASE HoldLapses(m)
  <2>1. /\ Idle /\ agenda = <<>> /\ Still /\ UNCHANGED <<task, shown, view, control>> /\ queue' = Expire(queue, m)
        /\ agenda' = <<>> /\ m \in Ids(queue) /\ Entry(queue, m).held
    BY <1>3 DEF Sound, TypeOK, HoldLapses, Request, Still, bounds, Idle
  <2>2. PICK k \in DOMAIN queue.messages : queue.messages[k].id = m
    BY <2>1, IdAt
  <2>3. queue.messages[k].held /\ EntryOk(queue.messages[k])
    BY <1>1, <2>1, <2>2, EntryAt, EntryFacts
  <2>4. queue.messages[k].status = "queued"
    BY <2>3 DEF EntryOk
  <2>5. Edited(queue, m, queue', FALSE, 0)
    BY <1>1, <2>1, ExpireEffect
  <2>6. agenda' \in Seq(AgendaSteps) /\ Ordered(agenda') /\ Todo' = {}
    BY <2>1, Begun
  <2> QED  BY <2>1, <2>2, <2>4, <2>5, <2>6, EditKeeps
<1>4. ASSUME NEW token \in Editors, EditMessage(m, token) \/ SaveMessage(m, token) \/ ReleaseMessage(m, token)
      PROVE  Sound'
  <2>1. StatusOf(queue, m) = "queued"
    BY <1>4 DEF EditMessage, SaveMessage, ReleaseMessage, CanEdit, CanClose
  <2>2. m \in Ids(queue)
    BY <2>1 DEF StatusOf
  <2>3. PICK k \in DOMAIN queue.messages :
           queue.messages[k].id = m /\ queue.messages[k].status = "queued" /\ Entry(queue, m) = queue.messages[k]
    BY <1>2, <2>1, <2>2
  <2>4. ASSUME NEW q, Change("edit", q), NEW held, NEW version, Edited(queue, m, q, held, version) PROVE Sound'
    <3>1. /\ Idle /\ Still /\ UNCHANGED <<task, shown, view, control>> /\ queue' = q
          /\ agenda' \in Seq(AgendaSteps) /\ Ordered(agenda') /\ \A x \in Todo' : Ticketless(x) /\ TodoStepOk(x)'
      BY <2>4, Changed
    <3>2. Edited(queue, m, queue', held, version)
      BY <2>4, <3>1
    <3> QED  BY <2>3, <3>1, <3>2, EditKeeps
  <2>5. CASE EditMessage(m, token)
    <3>1. PICK q : q = Edit(queue, m, token)
      OBVIOUS
    <3>2. Change("edit", q) /\ Edited(queue, m, q, TRUE, 0)
      BY <1>1, <2>5, <3>1, HoldEffect DEF EditMessage
    <3> QED  BY <2>4, <3>2
  <2>6. CASE SaveMessage(m, token)
    <3>1. PICK q, version : q = CloseEdit(queue, m, TRUE) /\ version = queue.messages[k].version + 1
      OBVIOUS
    <3>2. queue.messages[k].version < MaxVersion /\ Change("edit", q)
      BY <2>3, <2>6, <3>1 DEF SaveMessage
    <3>3. Edited(queue, m, q, FALSE, version)
      BY <1>1, <2>3, <3>1, <3>2, CloseEffect
    <3> QED  BY <2>4, <3>2, <3>3
  <2>7. CASE ReleaseMessage(m, token)
    <3>1. PICK q, version : q = CloseEdit(queue, m, FALSE) /\ version = queue.messages[k].version + 1
      OBVIOUS
    <3>2. Change("edit", q)
      BY <2>7, <3>1 DEF ReleaseMessage
    <3>3. Edited(queue, m, q, FALSE, version)
      BY <1>1, <2>3, <3>1, CloseEffect
    <3> QED  BY <2>4, <3>2, <3>3
  <2> QED  BY <1>4, <2>5, <2>6, <2>7
<1> QED  BY <1>3, <1>4

(* submit appends an entry of a message that has no ticket.                 *)
LEMMA SubmitKeeps ==
    ASSUME Sound, NEW m \in Messages, NEW mode \in {"send", "queue"}, SubmitMessage(m, mode)
    PROVE  Sound'
<1>1. /\ Idle /\ agenda = <<>> /\ Still /\ UNCHANGED <<task, shown, view, control>> /\ queue' = Submit(queue, m, mode)
      /\ m \notin Ids(queue) /\ CanSubmit(queue, mode, CanStart) /\ TypeOK /\ queue \in Queue /\ Distinct(queue)
      /\ QueueOk /\ SteersOk /\ RunsOk
      /\ agenda' = IF mode = "send" THEN <<[op |-> "sendNow", message |-> m]>> ELSE <<Do("pump")>>
  BY DEF Sound, TypeOK, SubmitMessage, Request, Still, bounds, Idle, Distinct
<1>2. PICK n \in Nat : n = Len(queue.messages) + 1
  BY <1>1, QueueFields
<1>3. /\ queue' \in Queue /\ Distinct(queue') /\ queue'.run = queue.run /\ queue'.initial = queue.initial
      /\ queue'.started = queue.started
      /\ DOMAIN queue'.messages = 1..n /\ DOMAIN queue.messages = 1..(n - 1)
      /\ \A i \in DOMAIN queue.messages : queue'.messages[i] = queue.messages[i] /\ queue.messages[i].id # m
      /\ queue'.messages[n].id = m /\ queue'.messages[n].status = "queued" /\ queue'.messages[n].held = FALSE
  <2>1. PICK r : r = Submit(queue, m, mode)
    OBVIOUS
  <2>2. Submitted(queue, m, r)
    BY <1>1, <2>1, SubmitEffect
  <2>3. queue' = r /\ Len(queue.messages) = n - 1
    BY <1>1, <1>2, <2>1, <2>2 DEF Submitted
  <2> QED  BY <1>2, <2>2, <2>3 DEF Submitted
<1>4. PICK a : a = IF mode = "send" THEN [op |-> "sendNow", message |-> m] ELSE Do("pump")
  OBVIOUS
<1>5. /\ a \in AgendaSteps /\ Ticketless(a) /\ a.op = IF mode = "send" THEN "sendNow" ELSE "pump"
      /\ a.op = "sendNow" => a.message = m
  BY <1>4 DEF AgendaSteps, Sends, Plainly, Do, Ticketless
<1>6. agenda' \in Seq(AgendaSteps) /\ Ordered(agenda') /\ Todo' = {a}
  <2>1. agenda' = <<a>>
    BY <1>1, <1>4
  <2> QED  BY <1>1, <1>5, <2>1, Begun
<1>7. \A p \in Messages : Moves(p)
  <2> SUFFICES ASSUME NEW p \in Messages PROVE Moves(p)
    OBVIOUS
  <2>1. p # None
    BY QueueAssumption
  <2> QED  BY <1>1, <1>3, <1>5, <1>6, <2>1, Moving DEF Still
<1>8. ~Opened(m)' /\ ~Steering(m)' /\ ~Answering(m)' /\ ~HandedTo(m)'
  BY <1>1, <1>7 DEF Moves, QueueOk
<1>9. Ids(queue) \subseteq Ids(queue') /\ m \in Ids(queue')
  <2>1. \A i \in DOMAIN queue.messages : i \in DOMAIN queue'.messages
    BY <1>3
  <2> QED  BY <1>2, <1>3, <2>1 DEF Ids, Elements
<1>10. ASSUME NEW i \in DOMAIN queue'.messages
       PROVE  EntryOk(queue.messages[i])' /\ VersionOk(queue.messages[i])' /\ FirstOk(i)'
  <2>1. PICK y : y = queue'.messages[i]
    OBVIOUS
  <2>2. EntryOk(y)' /\ VersionOk(y)' /\ FirstOk(i)'
    <3>1. CASE i = n
      <4>1. queue.initial # m
        BY <1>1, QueueAssumption DEF QueueOk
      <4> QED  BY <1>3, <1>8, <2>1, <3>1, <4>1, Waits
    <3>2. CASE i # n
      <4>1. i \in DOMAIN queue.messages /\ y = queue.messages[i]
        BY <1>2, <1>3, <2>1, <3>2
      <4>2. EntryOk(y) /\ VersionOk(y) /\ FirstOk(i) /\ y.id \in Messages
        BY <1>1, <4>1, EntryFacts DEF QueueOk
      <4>3. Moves(y.id) /\ queue.started \in BOOLEAN /\ queue'.started \in BOOLEAN
        BY <1>1, <1>3, <1>7, <4>2, QueueFields
      <4>4. Follows(y, y)
        BY <1>3 DEF Follows
      <4>5. EntryOk(y)'
        BY <4>2, <4>3, <4>4, EntryFollows
      <4>6. VersionOk(y)'
        BY <4>2, <4>3 DEF VersionOk, Moves
      <4>7. FirstOk(i)'
        <5>1. \A j \in DOMAIN queue'.messages : j < i => j \in DOMAIN queue.messages /\ queue'.messages[j] = queue.messages[j]
          BY <1>2, <1>3, <4>1
        <5> QED  BY <2>1, <4>1, <4>2, <4>3, <5>1 DEF FirstOk, Moves
      <4> QED  BY <4>5, <4>6, <4>7
    <3> QED  BY <3>1, <3>2
  <2> QED  BY <2>1, <2>2
<1>11. QueueOk'
  <2>1. ASSUME NEW p \in Messages, Opened(p)' \/ Steering(p)' \/ Answering(p)' \/ HandedTo(p)' PROVE p \in Ids(queue')
    BY <1>1, <1>7, <1>9, <2>1 DEF Moves, QueueOk
  <2>2. queue'.initial \in Ids(queue') \cup {None}
    BY <1>1, <1>3, <1>9 DEF QueueOk
  <2> QED  BY <1>10, <2>1, <2>2 DEF QueueOk
<1>12. TypeOK'
  BY <1>1, <1>3 DEF TypeOK, Still, Distinct
<1>13. TodoStepOk(a)'
  <2>1. CASE mode = "queue"
    BY <1>5, <2>1 DEF TodoStepOk
  <2>2. CASE mode = "send"
    <3>1. queue'.run = 0 => runs' < MaxRuns /\ task'.status # "none"
      BY <1>1, <1>3, <2>2 DEF CanSubmit, CanStart, Budget, Still
    <3>2. n \in DOMAIN queue'.messages /\ ~queue'.messages[n].held
      BY <1>2, <1>3
    <3> QED  BY <1>3, <1>5, <2>2, <3>1, <3>2 DEF TodoStepOk
  <2> QED  BY <2>1, <2>2
<1>14. TodoOk'
  BY <1>1, <1>6, <1>13, TodoBegins DEF Still, Idle
<1>15. SteersOk'
  <2>1. ASSUME NEW p, StatusIs(p, {"sending"}) PROVE StatusIs(p, {"sending"})'
    <3>1. PICK i \in DOMAIN queue.messages : queue.messages[i].id = p /\ queue.messages[i].status = "sending"
      BY <2>1 DEF StatusIs
    <3>2. i \in DOMAIN queue'.messages /\ queue'.messages[i] = queue.messages[i]
      BY <1>3
    <3> QED  BY <3>1, <3>2 DEF StatusIs
  <2> QED  BY <1>1, <2>1 DEF SteersOk, Still
<1>16. RunsOk'
  BY <1>1, <1>3 DEF RunsOk, Still
<1> QED  BY <1>1, <1>11, <1>12, <1>14, <1>15, <1>16, Assembled DEF Still

-----------------------------------------------------------------------------
(* A turn is opened.                                                        *)

(* Steps that leave the queue alone and concern no message but n.           *)
LEMMA QueueSame ==
    ASSUME QueueOk, queue \in Queue, queue' = queue, NEW n, n \in Messages => n \in Ids(queue),
           \A m \in Messages : m # n => Moves(m),
           \A i \in DOMAIN queue.messages : \A y : (y = queue.messages[i] /\ y.id = n) =>
              EntryOk(y)' /\ VersionOk(y)' /\ FirstOk(i)'
    PROVE  QueueOk'
<1>1. ASSUME NEW i \in DOMAIN queue.messages PROVE Kept(i)
  <2> SUFFICES ASSUME NEW x, NEW y, x = queue.messages[i], y = queue'.messages[i]
               PROVE  /\ y.id = x.id
                      /\ y.status \in {"queued", "sending"} => x.status \in {"queued", "sending"}
                      /\ \/ Moves(x.id) /\ Follows(y, x) /\ y.mode = x.mode /\ y.version = x.version
                         \/ EntryOk(y)' /\ VersionOk(y)' /\ FirstOk(i)'
    BY DEF Kept
  <2>1. x.id \in Messages /\ y = x
    BY QueueFields DEF Message
  <2>2. CASE x.id = n
    BY <2>1, <2>2
  <2>3. CASE x.id # n
    <3>1. Moves(x.id) /\ Follows(y, x)
      BY <2>1, <2>3 DEF Follows
    <3> QED  BY <2>1, <3>1
  <2> QED  BY <2>2, <2>3
<1>2. \A m \in Messages : m \in Ids(queue) \/ Moves(m)
  OBVIOUS
<1> QED  BY <1>1, <1>2, QueueKept

(* host.start captures the text of the message.                             *)
LEMMA StartKeeps ==
    ASSUME Sound, Start
    PROVE  Sound'
<1>0. PICK n : n = Now.message
  OBVIOUS
<1>1. /\ TodoOk /\ TypeOK /\ Doing("start") /\ queue \in Queue /\ Distinct(queue) /\ QueueOk /\ SteersOk /\ RunsOk
      /\ UNCHANGED <<task, queue, shown, control, execs, runs, handle, view, web, updating, waiting, steers, crashes, faults, scenario>>
  BY DEF Sound, Start, Skip, bounds, product, TypeOK, Distinct
<1>2. agenda # <<>> /\ web = "up" /\ Now.op = "start" /\ Now \in Todo /\ Now \in AgendaSteps /\ TodoStepOk(Now)
  BY <1>1, Doings
<1>3. n \in Messages /\ Opened(n) /\ runs < MaxRuns /\ task.status # "none"
  BY <1>0, <1>2, StepFields DEF Sends, Opened, Carries, TodoStepOk
<1>4. n \in Ids(queue)
  BY <1>1, <1>3 DEF QueueOk
<1>5. PICK k \in DOMAIN queue.messages : queue.messages[k].id = n
  BY <1>4, IdAt
<1>6. PICK y : y = queue.messages[k]
  OBVIOUS
<1>7. y.id = n /\ y.version \in 1..MaxVersion /\ Entry(queue, n) = y /\ EntryOk(y) /\ VersionOk(y) /\ FirstOk(k)
  <2>1. Entry(queue, n) = y
    BY <1>1, <1>5, <1>6, EntryAt
  <2>2. y \in Message
    BY <1>6, EntryFacts
  <2> QED  BY <1>1, <1>5, <1>6, <2>1, <2>2 DEF Message, QueueOk
<1>8. PICK a : a = [op |-> "begin", turn |-> Turn(n, y.version, None), skills |-> n \in WithSkills]
  OBVIOUS
<1>9. a \in AgendaSteps /\ a.op = "begin" /\ a.turn.message = n /\ a.turn.version = y.version
  BY <1>3, <1>7, <1>8 DEF AgendaSteps, Turn, Turns
<1>10. Then(<<a>>)
  BY <1>0, <1>7, <1>8 DEF Start
<1>11. \A b : Behind(Now.op, b) => Behind(a.op, b)
  BY <1>2, <1>9 DEF Behind, BeforeAnswers
<1>12. Made({a})
  BY <1>1, <1>2, <1>9, <1>10, <1>11, MadeOne
<1>13. Todo' = {a} \cup Rest /\ Todo = {Now} \cup Rest /\ \A x \in Rest : x.op = "answer"
  BY <1>2, <1>12 DEF Made, Behind
<1>14. \A m \in Messages : m # n => Moves(m)
  <2> SUFFICES ASSUME NEW m \in Messages, m # n PROVE Moves(m)
    OBVIOUS
  <2>1. \A x \in Todo' : x \in Todo \/ Ticketless(x) \/ Concerns(x, n)
    BY <1>9, <1>13 DEF Concerns
  <2> QED  BY <1>1, <2>1, Moving
<1>15. /\ Steering(n)' => Steering(n)
       /\ Answering(n)' => Answering(n)
       /\ HandedTo(n)' => HandedTo(n)
  <2>1. Steering(n)' => Steering(n)
    BY <1>1, <1>9, <1>13 DEF Steering
  <2>2. Answering(n)' => Answering(n)
    BY <1>9, <1>13 DEF Answering
  <2> QED  BY <1>1, <2>1, <2>2 DEF HandedTo, Given
<1>16. EntryOk(y)'
  BY <1>1, <1>3, <1>7, <1>15 DEF EntryOk
<1>17. VersionOk(y)'
  <2> SUFFICES ASSUME NEW v \in 1..MaxVersion, Carried(n, v)' PROVE v = y.version
    BY <1>7 DEF VersionOk
  <2>1. CASE Carried(n, v)
    BY <1>7, <2>1 DEF VersionOk
  <2>2. CASE ~Carried(n, v)
    BY <1>1, <1>9, <1>13, <2>2 DEF Carried, AwaitsSkills
  <2> QED  BY <2>1, <2>2
<1>18. FirstOk(k)'
  BY <1>1, <1>3, <1>6, <1>7 DEF FirstOk
<1>19. QueueOk'
  <2>1. \A i \in DOMAIN queue.messages : queue.messages[i].id = n => i = k
    BY <1>1, <1>5 DEF Distinct
  <2> QED  BY <1>1, <1>4, <1>6, <1>14, <1>16, <1>17, <1>18, <2>1, QueueSame
<1>20. TodoOk'
  <2>1. TodoStepOk(a)'
    BY <1>1, <1>3, <1>9 DEF TodoStepOk
  <2>2. \A m \in Messages : Acknowledged(m) => Acknowledged(m)'
    BY <1>1 DEF Acknowledged, Has
  <2> QED  BY <1>1, <1>2, <1>12, <2>1, <2>2, TodoAdvances
<1>21. TypeOK' /\ SteersOk' /\ RunsOk'
  BY <1>1 DEF TypeOK, SteersOk, StatusIs, RunsOk
<1> QED  BY <1>1, <1>19, <1>20, <1>21, Assembled

(* beginRun: a run of its own for the turn.                                 *)
LEMMA BeginKeeps ==
    ASSUME Sound, Begin
    PROVE  Sound'
<1>0. PICK turn, n, run, skills : turn = Now.turn /\ n = Now.turn.message /\ run = runs + 1 /\ skills = Now.skills
  OBVIOUS
<1>1. /\ TodoOk /\ TypeOK /\ Doing("begin") /\ queue \in Queue /\ Distinct(queue) /\ QueueOk /\ SteersOk /\ RunsOk
      /\ queue' = BeginRun(queue, run, n, turn.request) /\ runs' = run
      /\ Then(IF skills THEN <<[op |-> "park", turn |-> turn]>> ELSE Opening(turn))
      /\ UNCHANGED <<task, shown, control, execs, handle, view, web, updating, waiting, steers, crashes, faults, scenario>>
  BY <1>0 DEF Sound, Begin, Skip, bounds, TypeOK, Distinct
<1>2. agenda # <<>> /\ web = "up" /\ Now.op = "begin" /\ Now \in Todo /\ Now \in AgendaSteps /\ TodoStepOk(Now)
  BY <1>1, Doings
<1>3. turn \in Turns /\ turn.message = n /\ n \in Messages \cup {None} /\ turn.request \in Compactions \cup {None}
  BY <1>0, <1>2, StepFields DEF Turns
<1>4. n \in Messages => Opened(n) /\ n \in Ids(queue)
  BY <1>0, <1>1, <1>2 DEF Opened, Carries, QueueOk
<1>5. runs \in Nat /\ MaxRuns \in Nat /\ run = runs + 1 /\ run \in 1..MaxRuns /\ task.status # "none"
  BY <1>0, <1>1, <1>2, TurnsAssumption DEF TypeOK, TodoStepOk
<1>6. /\ queue' \in Queue /\ queue'.run = run /\ queue'.initial = n /\ queue'.started = FALSE
      /\ DOMAIN queue'.messages = DOMAIN queue.messages
      /\ \A i \in DOMAIN queue.messages :
           Like(queue'.messages[i], queue.messages[i]) /\ queue'.messages[i].status = queue.messages[i].status
  <2>1. run \in Nat /\ queue \in Queue /\ n \in Messages \cup {None} /\ turn.request \in Compactions \cup {None}
    BY <1>1, <1>3, <1>5
  <2>2. PICK q : q = BeginRun(queue, run, n, turn.request)
    OBVIOUS
  <2>3. NewRun(queue, q, run, n)
    BY <2>1, <2>2, BeginEffect
  <2>4. queue' = q
    BY <1>1, <2>2
  <2> QED  BY <2>3, <2>4 DEF NewRun
<1>7. \A w \in waiting' : w.run # queue'.run
  <2>1. \A w \in waiting : w.run \in Nat /\ w.run <= runs
    BY <1>1, TurnsAssumption DEF TypeOK, RunsOk
  <2> QED  BY <1>1, <1>5, <1>6, <2>1
<1>8. PICK S : /\ Made(S) /\ \A x \in S : x.op \in {"park", "reset", "run", "arm", "reserve"} /\ x.turn = turn
               /\ \A x \in S : TodoStepOk(x)'
               /\ n \in Messages => \E x \in S : x.op \in {"park", "reserve"}
  <2>1. CASE skills
    <3>1. PICK a : a = [op |-> "park", turn |-> turn]
      OBVIOUS
    <3>2. a \in AgendaSteps /\ a.op = "park" /\ a.turn = turn /\ Then(<<a>>)
      BY <1>1, <1>3, <2>1, <3>1 DEF AgendaSteps, Opens
    <3>3. \A b : Behind(Now.op, b) => Behind(a.op, b)
      BY <1>2, <3>2 DEF Behind, BeforeAnswers
    <3>4. Made({a})
      BY <1>1, <1>2, <3>2, <3>3, MadeOne
    <3>5. TodoStepOk(a)'
      BY <1>5, <1>6, <1>7, <3>2 DEF TodoStepOk
    <3> QED  BY <3>2, <3>4, <3>5
  <2>2. CASE ~skills
    <3>1. Then(Opening(turn))
      BY <1>1, <2>2
    <3>2. Made(OpeningSet(turn))
      BY <1>1, <1>2, <1>3, <3>1, MadeOpening
    <3>3. \A x \in OpeningSet(turn) : x.op \in {"reset", "run", "arm", "reserve"} /\ x.turn = turn
      BY <1>3, OpeningSteps
    <3>4. \E y \in Todo' : y.op = "arm"
      <4>1. Open("arm", turn) \in OpeningSet(turn) /\ Open("arm", turn).op = "arm"
        BY DEF OpeningSet, Open
      <4>2. OpeningSet(turn) \subseteq Todo'
        BY <3>2 DEF Made
      <4> QED  BY <4>1, <4>2
    <3>5. \A x \in OpeningSet(turn) : TodoStepOk(x)'
      BY <1>7, <3>3, <3>4 DEF TodoStepOk
    <3>6. \E x \in OpeningSet(turn) : x.op = "reserve"
      BY DEF OpeningSet, Open
    <3> QED  BY <3>2, <3>3, <3>5, <3>6
  <2> QED  BY <2>1, <2>2
<1>9. Todo' = S \cup Rest /\ Todo = {Now} \cup Rest /\ \A x \in Rest : x.op = "answer"
  BY <1>2, <1>8 DEF Made, Behind
<1>10. \A m \in Messages : m # n => Moves(m)
  <2> SUFFICES ASSUME NEW m \in Messages, m # n PROVE Moves(m)
    OBVIOUS
  <2>1. \A x \in Todo' : x \in Todo \/ Ticketless(x) \/ Concerns(x, n)
    <3>1. \A x \in S : Ticketless(x) \/ Concerns(x, n)
      BY <1>3, <1>8 DEF Ticketless, Concerns
    <3> QED  BY <1>9, <3>1
  <2> QED  BY <1>1, <1>7, <2>1, Moving
<1>11. ASSUME NEW i \in DOMAIN queue.messages, NEW x, NEW y, x = queue.messages[i], y = queue'.messages[i], x.id = n
       PROVE  EntryOk(y)' /\ VersionOk(y)' /\ FirstOk(i)'
  <2>1. /\ EntryOk(x) /\ VersionOk(x) /\ FirstOk(i) /\ n \in Messages /\ x.status = y.status /\ Like(y, x)
    BY <1>1, <1>6, <1>11, EntryFacts DEF QueueOk
  <2>2. Opened(n) /\ x.status = "sending" /\ ~Steering(n) /\ ~Answering(n) /\ ~HandedTo(n)
    BY <1>4, <1>11, <2>1 DEF EntryOk
  <2>3. ~Steering(n)'
    BY <1>1, <1>8, <1>9, <2>2 DEF Steering
  <2>4. ~Answering(n)'
    BY <1>8, <1>9, <2>2 DEF Answering
  <2>5. ~HandedTo(n)'
    BY <1>1, <2>2 DEF HandedTo, Given
  <2>6. EntryOk(y)'
    BY <1>11, <2>1, <2>2, <2>3, <2>4, <2>5 DEF EntryOk, Like
  <2>7. VersionOk(y)'
    <3> SUFFICES ASSUME NEW v \in 1..MaxVersion, Carried(n, v)' PROVE v = x.version
      BY <1>11, <2>1 DEF VersionOk, Like
    <3>1. Carried(n, v)
      <4>1. CASE \E z \in Todo' : z.op \in {"begin", "park", "reserve"} /\ z.turn.message = n /\ z.turn.version = v
        BY <1>0, <1>2, <1>8, <1>9, <4>1 DEF Carried
      <4>2. CASE \E w \in waiting' : AwaitsSkills(w, n)' /\ w.turn.version = v
        BY <1>7, <4>2 DEF AwaitsSkills
      <4>3. CASE \E e \in DOMAIN execs' : execs'[e].turn.message = n /\ execs'[e].turn.version = v
        BY <1>1, <4>3 DEF Carried
      <4> QED  BY <4>1, <4>2, <4>3 DEF Carried
    <3> QED  BY <1>11, <2>1, <3>1 DEF VersionOk
  <2>8. FirstOk(i)'
    BY <1>6, <1>11, <2>1, <2>2 DEF FirstOk, Like
  <2> QED  BY <2>6, <2>7, <2>8
<1>12. ASSUME NEW i \in DOMAIN queue.messages PROVE Kept(i)
  <2> SUFFICES ASSUME NEW x, NEW y, x = queue.messages[i], y = queue'.messages[i]
               PROVE  /\ y.id = x.id
                      /\ y.status \in {"queued", "sending"} => x.status \in {"queued", "sending"}
                      /\ \/ Moves(x.id) /\ Follows(y, x) /\ y.mode = x.mode /\ y.version = x.version
                         \/ EntryOk(y)' /\ VersionOk(y)' /\ FirstOk(i)'
    BY DEF Kept
  <2>1. Like(y, x) /\ y.status = x.status /\ x.id \in Messages
    BY <1>6, EntryFacts
  <2>2. CASE x.id = n
    BY <1>11, <2>1, <2>2 DEF Like
  <2>3. CASE x.id # n
    <3>1. Moves(x.id) /\ Follows(y, x)
      BY <1>6, <1>10, <2>1, <2>3 DEF Follows, Like
    <3> QED  BY <2>1, <3>1 DEF Like
  <2> QED  BY <2>2, <2>3
<1>13. QueueOk'
  BY <1>1, <1>3, <1>4, <1>6, <1>10, <1>12, QueueKept
<1>14. TypeOK'
  <2>1. Distinct(queue')
    BY <1>1, <1>6, StillDistinct DEF Like
  <2> QED  BY <1>1, <1>5, <1>6, <2>1 DEF TypeOK, Distinct
<1>15. TodoOk'
  <2>1. \A m \in Messages : Acknowledged(m) => Acknowledged(m)'
    BY <1>1 DEF Acknowledged, Has
  <2> QED  BY <1>1, <1>2, <1>8, <2>1, TodoAdvances
<1>16. SteersOk'
  <2>1. ASSUME NEW m, StatusIs(m, {"sending"}) PROVE StatusIs(m, {"sending"})'
    BY <1>6, <2>1 DEF StatusIs, Like
  <2> QED  BY <1>1, <2>1 DEF SteersOk
<1>17. RunsOk'
  <2>1. \A w \in waiting : w.run \in Nat /\ w.run <= runs
    BY <1>1, TurnsAssumption DEF TypeOK, RunsOk
  <2> QED  BY <1>1, <1>5, <1>6, <2>1 DEF RunsOk
<1> QED  BY <1>1, <1>13, <1>14, <1>15, <1>16, <1>17, Assembled

(* The await of runTurn: the turn waits for its skills under its run id.    *)
LEMMA ParkKeeps ==
    ASSUME Sound, Park
    PROVE  Sound'
<1>0. PICK turn, n, w : turn = Now.turn /\ n = Now.turn.message /\ w = [run |-> queue.run, turn |-> Now.turn]
  OBVIOUS
<1>1. /\ TodoOk /\ TypeOK /\ Doing("park") /\ queue \in Queue /\ Distinct(queue) /\ QueueOk /\ SteersOk /\ RunsOk
      /\ task' = Transition("queued") /\ waiting' = waiting \cup {w} /\ Then(<<>>)
      /\ UNCHANGED <<queue, shown, control, execs, runs, handle, view, web, updating, steers, crashes, faults, scenario>>
  BY <1>0 DEF Sound, Park, Skip, bounds, TypeOK, Distinct
<1>2. agenda # <<>> /\ web = "up" /\ Now.op = "park" /\ Now \in Todo /\ Now \in AgendaSteps /\ TodoStepOk(Now)
  BY <1>1, Doings
<1>3. turn \in Turns /\ turn.message = n /\ n \in Messages \cup {None} /\ queue.run # 0
  BY <1>0, <1>2, StepFields DEF Turns, Opens, TodoStepOk
<1>4. n \in Messages => Opened(n) /\ n \in Ids(queue)
  BY <1>0, <1>1, <1>2 DEF Opened, Carries, QueueOk
<1>5. w.run = queue.run /\ w.turn = turn /\ w.run <= runs /\ w \in [run : 1..MaxRuns, turn : Turns]
  <2>1. queue.run \in Nat /\ runs \in 0..MaxRuns /\ MaxRuns \in Nat /\ queue.run <= runs
    BY <1>1, QueueFields, TurnsAssumption DEF TypeOK, RunsOk
  <2>2. queue.run \in 1..MaxRuns
    BY <1>3, <2>1
  <2> QED  BY <1>0, <1>3, <2>1, <2>2
<1>6. Made({})
  BY <1>1, <1>2, MadeNone
<1>7. Todo' = Rest /\ Todo = {Now} \cup Rest /\ \A x \in Rest : x.op = "answer"
  BY <1>2, <1>6 DEF Made, Behind
<1>8. \A m \in Messages : m # n => Moves(m)
  <2> SUFFICES ASSUME NEW m \in Messages, m # n PROVE Moves(m)
    OBVIOUS
  <2>1. \A v \in waiting' : v.turn.message = n \/ (v.run = queue'.run => v \in waiting /\ v.run = queue.run)
    BY <1>1, <1>3, <1>5
  <2> QED  BY <1>1, <1>7, <2>1, Moving
<1>9. ASSUME NEW i \in DOMAIN queue.messages, NEW y, y = queue.messages[i], y.id = n
      PROVE  EntryOk(y)' /\ VersionOk(y)' /\ FirstOk(i)'
  <2>1. EntryOk(y) /\ VersionOk(y) /\ FirstOk(i) /\ n \in Messages
    BY <1>1, <1>9, EntryFacts DEF QueueOk
  <2>2. Opened(n) /\ y.status = "sending" /\ ~Steering(n) /\ ~Answering(n) /\ ~HandedTo(n)
    BY <1>4, <1>9, <2>1 DEF EntryOk
  <2>3. ~Steering(n)'
    BY <1>1, <1>7, <2>2 DEF Steering
  <2>4. ~Answering(n)'
    BY <1>7, <2>2 DEF Answering
  <2>5. ~HandedTo(n)'
    BY <1>1, <2>2 DEF HandedTo, Given
  <2>6. EntryOk(y)'
    BY <1>1, <1>9, <2>1, <2>2, <2>3, <2>4, <2>5 DEF EntryOk
  <2>7. VersionOk(y)'
    <3> SUFFICES ASSUME NEW v \in 1..MaxVersion, Carried(n, v)' PROVE v = y.version
      BY <1>9 DEF VersionOk
    <3>1. Carried(n, v)
      <4>1. CASE \E z \in Todo' : z.op \in {"begin", "park", "reserve"} /\ z.turn.message = n /\ z.turn.version = v
        BY <1>7, <4>1 DEF Carried
      <4>2. CASE \E z \in waiting' : AwaitsSkills(z, n)' /\ z.turn.version = v
        <5>1. PICK z \in waiting' : AwaitsSkills(z, n)' /\ z.turn.version = v
          BY <4>2
        <5>2. CASE z = w
          BY <1>0, <1>2, <1>5, <5>1, <5>2 DEF Carried, AwaitsSkills
        <5>3. CASE z # w
          BY <1>1, <5>1, <5>3 DEF Carried, AwaitsSkills
        <5> QED  BY <5>2, <5>3
      <4>3. CASE \E e \in DOMAIN execs' : execs'[e].turn.message = n /\ execs'[e].turn.version = v
        BY <1>1, <4>3 DEF Carried
      <4> QED  BY <4>1, <4>2, <4>3 DEF Carried
    <3> QED  BY <1>9, <2>1, <3>1 DEF VersionOk
  <2>8. FirstOk(i)'
    BY <1>1, <1>9, <2>1, <2>2 DEF FirstOk
  <2> QED  BY <2>6, <2>7, <2>8
<1>10. QueueOk'
  BY <1>1, <1>3, <1>4, <1>8, <1>9, QueueSame
<1>11. task' \in [status : Status, pending : BOOLEAN, rawSeq : Nat, worktree : BOOLEAN] /\ task'.status # "none"
  BY <1>1, TaskRows DEF Status
<1>12. TypeOK'
  BY <1>1, <1>5, <1>11 DEF TypeOK
<1>13. TodoOk'
  <2>1. \A m \in Messages : Acknowledged(m) => Acknowledged(m)'
    BY <1>1 DEF Acknowledged, Has
  <2> QED  BY <1>1, <1>2, <1>6, <2>1, TodoAdvances
<1>14. SteersOk'
  BY <1>1 DEF SteersOk, StatusIs
<1>15. RunsOk'
  <2>1. \A v \in waiting : v.run # w.run
    BY <1>2, <1>5 DEF TodoStepOk
  <2> QED  BY <1>1, <1>5, <1>11, <2>1 DEF RunsOk
<1> QED  BY <1>1, <1>10, <1>12, <1>13, <1>14, <1>15, Assembled

(* The execution that is reserved.                                          *)
LEMMA Appended ==
    ASSUME TypeOK, NEW turn \in Turns, execs' = Append(execs, NewExec(turn))
    PROVE  /\ execs' \in Seq(Exec) /\ Len(execs) \in Nat /\ Len(execs') = Len(execs) + 1
           /\ DOMAIN execs = 1..Len(execs) /\ DOMAIN execs' = 1..(Len(execs) + 1)
           /\ \A e \in DOMAIN execs : e \in DOMAIN execs' /\ execs'[e] = execs[e]
           /\ execs'[Len(execs) + 1].turn = turn /\ execs'[Len(execs) + 1].state = "queued"
           /\ \A m \in Messages : execs'[Len(execs) + 1].sends[m] = "none"
           /\ Len(execs'[Len(execs) + 1].journal) = 1
           /\ Elements(execs'[Len(execs) + 1].journal) = {Event("queued", None)}
<1>1. PICK x : x = NewExec(turn)
  OBVIOUS
<1>2. /\ x \in Exec /\ x.turn = turn /\ x.state = "queued" /\ x.journal = <<Event("queued", None)>>
      /\ \A m \in Messages : x.sends[m] = "none"
  <2>1. [m \in Messages |-> "none"] \in [Messages -> Receipt]
    BY DEF Receipt
  <2>2. <<Event("queued", None)>> \in
          Seq([kind : {"queued", "started", "delivered", "question", "resolved"}, message : Messages \cup {None}])
    BY DEF Event
  <2> QED  BY <1>1, <2>1, <2>2 DEF NewExec, Exec
<1>3. execs \in Seq(Exec) /\ execs' = Append(execs, x)
  BY <1>1 DEF TypeOK
<1>4. Elements(x.journal) = {Event("queued", None)} /\ Len(x.journal) = 1
  BY <1>2, FewElements
<1>5. /\ execs' \in Seq(Exec) /\ Len(execs) \in Nat /\ Len(execs') = Len(execs) + 1
      /\ DOMAIN execs = 1..Len(execs) /\ DOMAIN execs' = 1..(Len(execs) + 1)
      /\ execs'[Len(execs) + 1] = x
  BY <1>2, <1>3
<1>6. \A e \in DOMAIN execs : e \in DOMAIN execs' /\ execs'[e] = execs[e]
  BY <1>2, <1>3, <1>5
<1> QED  BY <1>2, <1>4, <1>5, <1>6

(* The message of the turn is handed to a new execution, once.              *)
LEMMA ReservedKeeps ==
    ASSUME Sound, Doing("reserve"), NEW turn, turn = Now.turn, execs' = Append(execs, NewExec(turn)),
           UNCHANGED <<task, queue, shown, control, runs, web, updating, waiting, steers, crashes, scenario>>,
           faults' \in 0..MaxFaults, handle' \in {0, Len(execs) + 1},
           NEW listening \in BOOLEAN,
           view' = [exec |-> Len(execs) + 1, cursor |-> 0, baseline |-> 0, listening |-> listening],
           NEW S, Made(S), \A x \in S : Ticketless(x) /\ x.op \notin Opens \cup {"begin"} /\ TodoStepOk(x)'
    PROVE  Sound'
<1>0. PICK n, last : n = turn.message /\ last = Len(execs) + 1
  OBVIOUS
<1>1. TodoOk /\ TypeOK /\ queue \in Queue /\ Distinct(queue) /\ QueueOk /\ SteersOk /\ RunsOk
  BY DEF Sound, TypeOK, Distinct
<1>2. agenda # <<>> /\ web = "up" /\ Now.op = "reserve" /\ Now \in Todo /\ Now \in AgendaSteps /\ TodoStepOk(Now)
  BY <1>1, Doings
<1>3. turn \in Turns /\ n \in Messages \cup {None}
  BY <1>0, <1>2, StepFields DEF Turns, Opens
<1>4. /\ execs' \in Seq(Exec) /\ Len(execs) \in Nat /\ Len(execs') = last
      /\ DOMAIN execs = 1..Len(execs) /\ DOMAIN execs' = 1..last
      /\ \A e \in DOMAIN execs : e \in DOMAIN execs' /\ execs'[e] = execs[e]
      /\ execs'[last].turn = turn /\ execs'[last].state = "queued"
      /\ \A m \in Messages : execs'[last].sends[m] = "none"
      /\ Len(execs'[last].journal) = 1
      /\ Elements(execs'[last].journal) = {Event("queued", None)}
  BY <1>0, <1>1, <1>3, Appended
<1>5. \A e \in DOMAIN execs' : e \in DOMAIN execs \/ e = last
  BY <1>0, <1>4
<1>6. Todo' = S \cup Rest /\ Todo = {Now} \cup Rest /\ \A x \in Rest : x.op = "answer"
  BY <1>2 DEF Made, Behind
<1>7. queue.started = TRUE
  <2>1. queue.started # FALSE
    BY <1>2, <1>6 DEF TodoStepOk
  <2> QED  BY <1>1, <2>1, QueueFields
<1>8. \A m \in Messages : ~Opened(m)'
  <2> SUFFICES ASSUME NEW m \in Messages PROVE ~Opened(m)'
    OBVIOUS
  <2>1. m # None
    BY QueueAssumption
  <2>2. \A x \in Todo' : ~Carries(x, m)
    BY <1>6, <2>1 DEF Carries, Ticketless
  <2>3. \A w \in waiting' : w.run # queue'.run
    BY <1>2 DEF TodoStepOk
  <2> QED  BY <2>2, <2>3 DEF Opened, AwaitsSkills
<1>9. \A m \in Messages : Acknowledged(m) => Acknowledged(m)'
  BY <1>4 DEF Acknowledged, Has
<1>10. ASSUME n \in Messages
       PROVE  Opened(n) /\ n \in Ids(queue) /\ ~Steering(n) /\ ~Answering(n) /\ ~HandedTo(n)
  <2>1. Opened(n)
    BY <1>0, <1>2 DEF Opened, Carries
  <2>2. n \in Ids(queue)
    BY <1>1, <1>10, <2>1 DEF QueueOk
  <2>3. PICK k \in DOMAIN queue.messages : queue.messages[k].id = n
    BY <2>2, IdAt
  <2>4. PICK y : y = queue.messages[k]
    OBVIOUS
  <2>5. EntryOk(y) /\ y.id = n
    BY <2>3, <2>4, EntryFacts
  <2> QED  BY <2>1, <2>2, <2>5 DEF EntryOk
<1>11. ASSUME NEW m \in Messages PROVE Moves(m)
  <2>1. CASE m # n
    <3>1. \A x \in Todo' : x \in Todo \/ Ticketless(x) \/ Concerns(x, n)
      BY <1>6
    <3>2. \A e \in DOMAIN execs' :
             /\ execs'[e].turn.message = m => e \in DOMAIN execs /\ execs[e].turn = execs'[e].turn
             /\ execs'[e].sends[m] # "none" => e \in DOMAIN execs /\ execs[e].sends[m] # "none"
      BY <1>0, <1>4, <1>5, <2>1
    <3>3. \A e \in DOMAIN execs : e \in DOMAIN execs' /\ Elements(execs[e].journal) \subseteq Elements(execs'[e].journal)
      BY <1>4
    <3> QED  BY <2>1, <3>1, <3>2, <3>3, Moving
  <2>2. CASE m = n
    <3>1. Opened(n) /\ ~Opened(n)'
      BY <1>8, <1>10, <2>2
    <3>2. Steering(n)' => Steering(n)
      BY <1>6 DEF Steering, Ticketless
    <3>3. Answering(n)' => Answering(n)
      BY <1>6 DEF Answering, Ticketless
    <3>4. ASSUME NEW v \in 1..MaxVersion, Carried(n, v)' PROVE Carried(n, v)
      <4>1. CASE \E z \in Todo' : z.op \in {"begin", "park", "reserve"} /\ z.turn.message = n /\ z.turn.version = v
        BY <1>6, <4>1 DEF Opens
      <4>2. CASE \E z \in waiting' : AwaitsSkills(z, n)' /\ z.turn.version = v
        BY <3>1, <4>2 DEF Opened
      <4>3. CASE \E e \in DOMAIN execs' : execs'[e].turn.message = n /\ execs'[e].turn.version = v
        <5>1. PICK e \in DOMAIN execs' : execs'[e].turn.message = n /\ execs'[e].turn.version = v
          BY <4>3
        <5>2. CASE e \in DOMAIN execs
          BY <1>4, <5>1, <5>2 DEF Carried
        <5>3. CASE e = last
          BY <1>0, <1>2, <1>4, <5>1, <5>3 DEF Carried
        <5> QED  BY <1>5, <5>2, <5>3
      <4> QED  BY <3>4, <4>1, <4>2, <4>3 DEF Carried
    <3> QED  BY <1>7, <1>9, <2>2, <3>1, <3>2, <3>3, <3>4 DEF Moves
  <2> QED  BY <2>1, <2>2
<1>12. QueueOk'
  <2>1. None \notin Messages /\ \A i \in DOMAIN queue.messages : queue.messages[i].id \in Messages
    BY EntryFacts, QueueAssumption
  <2> QED  BY <1>1, <1>11, <2>1, QueueSame
<1>13. TypeOK'
  <2>1. handle' \in 0..Len(execs') /\ steers' \subseteq [message : Messages, exec : 1..Len(execs'), phase : {"resolving", "sent"}]
    BY <1>0, <1>1, <1>4 DEF TypeOK
  <2>2. view' \in [exec : 0..Len(execs'), cursor : Nat, baseline : Nat, listening : BOOLEAN]
    BY <1>0, <1>4
  <2> QED  BY <1>1, <1>4, <2>1, <2>2 DEF TypeOK
<1>14. TodoOk'
  BY <1>1, <1>2, <1>9, TodoAdvances
<1>15. SteersOk'
  <2>1. \A s \in steers : s.exec \in DOMAIN execs /\ s.exec # 0 /\ s.exec # last
    BY <1>0, <1>1, <1>4 DEF TypeOK
  <2> QED  BY <1>0, <1>1, <1>4, <2>1 DEF SteersOk
<1>16. RunsOk'
  BY <1>0, <1>1, <1>4 DEF RunsOk
<1>17. ASSUME NEW e \in DOMAIN execs' PROVE ExecOk(e)'
  <2>1. CASE e \in DOMAIN execs
    BY <1>4, <2>1 DEF Sound, ExecOk, Has, Given
  <2>2. CASE e = last
    <3>1. \A m : Event("delivered", m) # Event("queued", None)
      BY DEF Event
    <3>2. ASSUME NEW m \in Messages
          PROVE  /\ execs'[e].sends[m] = "none"
                 /\ Event("delivered", m) \notin Elements(execs'[e].journal)
      BY <1>4, <2>2, <3>1
    <3>3. \A m \in Messages : execs'[e].sends[m] # "delivered" /\ execs'[e].sends[m] # "accepted" /\ ~Has(e, Event("delivered", m))'
      BY <3>2 DEF Has
    <3> QED  BY <3>3 DEF ExecOk
  <2> QED  BY <1>5, <2>1, <2>2
<1>18. ASSUME NEW m \in Messages PROVE GivenOnce(m)'
  <2>1. \A e \in DOMAIN execs : Given(e, m)' <=> Given(e, m)
    BY <1>4 DEF Given
  <2>2. Given(last, m)' => m = n /\ \A e \in DOMAIN execs : ~Given(e, m)
    BY <1>0, <1>4, <1>10 DEF Given, HandedTo
  <2>3. ASSUME NEW d \in DOMAIN execs', NEW e \in DOMAIN execs', Given(d, m)', Given(e, m)' PROVE d = e
    BY <1>5, <2>1, <2>2, <2>3 DEF Sound, GivenOnce
  <2>4. ASSUME NEW e \in DOMAIN execs', execs'[e].turn.message = m PROVE execs'[e].sends[m] = "none"
    BY <1>4, <1>5, <2>4 DEF Sound, GivenOnce
  <2> QED  BY <2>3, <2>4 DEF GivenOnce
<1> QED  BY <1>12, <1>13, <1>14, <1>15, <1>16, <1>17, <1>18 DEF Sound

(* reserve: no live execution has the message already.                      *)
LEMMA ReserveKeeps ==
    ASSUME Sound, Reserve
    PROVE  Sound'
<1>0. PICK turn : turn = Now.turn
  OBVIOUS
<1>1. TodoOk /\ TypeOK /\ QueueOk /\ Doing("reserve")
  BY DEF Sound, Reserve
<1>2. agenda # <<>> /\ Now.op = "reserve" /\ Now \in Todo /\ Now \in AgendaSteps
  BY <1>1, Doings
<1>3. turn \in Turns /\ turn.message \in Messages \cup {None}
  BY <1>0, <1>2, StepFields DEF Turns, Opens
<1>4. ~LiveExec
  <2> SUFFICES ASSUME SameMessage(turn) PROVE FALSE
    BY <1>0 DEF Reserve
  <2>1. turn.message \in Messages /\ Opened(turn.message)
    BY <1>0, <1>2, <1>3 DEF SameMessage, Opened, Carries
  <2>2. turn.message \in Ids(queue)
    BY <1>1, <2>1 DEF QueueOk
  <2>3. PICK k \in DOMAIN queue.messages : queue.messages[k].id = turn.message
    BY <2>2, IdAt
  <2>4. PICK y : y = queue.messages[k]
    OBVIOUS
  <2>5. ~HandedTo(turn.message)
    BY <2>1, <2>3, <2>4, EntryFacts DEF EntryOk
  <2>6. execs \in Seq(Exec) /\ execs # <<>> /\ execs[Len(execs)].turn.message = turn.message
    BY <1>1 DEF SameMessage, LiveExec, Last, TypeOK
  <2>7. Len(execs) \in DOMAIN execs
    BY <2>6
  <2> QED  BY <2>5, <2>6, <2>7 DEF HandedTo, Given
<1>5. /\ execs' = Append(execs, NewExec(turn)) /\ Then(<<>>) /\ handle' = Len(execs')
      /\ view' = [exec |-> Len(execs'), cursor |-> 0, baseline |-> 0, listening |-> TRUE]
      /\ UNCHANGED <<task, queue, shown, control, runs, web, updating, waiting, steers, crashes, faults, scenario>>
  BY <1>0, <1>4 DEF Reserve, Watch, Skip, bounds, product
<1>6. Len(execs') = Len(execs) + 1
  BY <1>1, <1>3, <1>5, Appended
<1>7. Made({})
  BY <1>1, <1>2, <1>5, MadeNone
<1>8. faults' \in 0..MaxFaults
  BY <1>1, <1>5 DEF TypeOK
<1> QED  BY <1>0, <1>1, <1>5, <1>6, <1>7, <1>8, ReservedKeeps

(* The commits of the catch.                                                *)
LEMMA Catches ==
    ASSUME TodoOk, Doing("reserve"), Then(<<Do("fail"), Do("finishFailed")>>), handle' = 0
    PROVE  /\ Made({Do("fail"), Do("finishFailed")})
           /\ \A x \in {Do("fail"), Do("finishFailed")} :
                Ticketless(x) /\ x.op \notin Opens \cup {"begin"} /\ TodoStepOk(x)'
<1>1. agenda # <<>> /\ Now.op = "reserve"
  BY Doings
<1>2. /\ Do("fail") \in AgendaSteps /\ Do("fail").op = "fail" /\ Ticketless(Do("fail"))
      /\ Do("finishFailed") \in AgendaSteps /\ Do("finishFailed").op = "finishFailed" /\ Ticketless(Do("finishFailed"))
  BY Plain1 DEF Plainly
<1>3. /\ Behind(Do("fail").op, Do("finishFailed").op)
      /\ \A b : Behind(Now.op, b) => Behind(Do("fail").op, b) /\ Behind(Do("finishFailed").op, b)
  BY <1>1, <1>2 DEF Behind, BeforeAnswers
<1>4. Made({Do("fail"), Do("finishFailed")})
  BY <1>1, <1>2, <1>3, MadeTwo
<1>5. TodoStepOk(Do("fail"))' /\ TodoStepOk(Do("finishFailed"))'
  BY <1>2 DEF TodoStepOk
<1> QED  BY <1>2, <1>4, <1>5 DEF Opens

(* admitExecutions throws after the reservation.                            *)
LEMMA AdmitThrowsKeeps ==
    ASSUME Sound, AdmitThrows
    PROVE  Sound'
<1>0. PICK turn : turn = Now.turn
  OBVIOUS
<1>1. /\ TodoOk /\ TypeOK /\ Doing("reserve") /\ handle' = 0 /\ Then(<<Do("fail"), Do("finishFailed")>>)
      /\ execs' = Append(execs, NewExec(turn))
      /\ view' = [exec |-> Len(execs'), cursor |-> 0, baseline |-> 0, listening |-> FALSE]
      /\ UNCHANGED <<task, queue, shown, control, runs, web, updating, waiting, steers, crashes, scenario>>
  BY <1>0 DEF Sound, AdmitThrows, Watch, product
<1>2. turn \in Turns
  BY <1>0, <1>1, Doings, StepFields DEF Opens
<1>3. Len(execs') = Len(execs) + 1
  BY <1>1, <1>2, Appended
<1>4. faults' \in 0..MaxFaults
  <2>1. MaxFaults \in Nat /\ faults \in 0..MaxFaults /\ faults < MaxFaults /\ faults' = faults + 1
    BY <1>1, TurnsAssumption DEF TypeOK, AdmitThrows, Fault
  <2> QED  BY <2>1
<1>5. PICK S : Made(S) /\ \A x \in S : Ticketless(x) /\ x.op \notin Opens \cup {"begin"} /\ TodoStepOk(x)'
  BY <1>1, Catches
<1>6. view' = [exec |-> Len(execs) + 1, cursor |-> 0, baseline |-> 0, listening |-> FALSE]
  BY <1>1, <1>3
<1> QED  BY <1>0, <1>1, <1>4, <1>5, <1>6, ReservedKeeps

(* The reservation fails, and nothing was handed over.                      *)
LEMMA ReserveThrowsKeeps ==
    ASSUME Sound, ReserveThrows
    PROVE  Sound'
<1>1. /\ TodoOk /\ TypeOK /\ Doing("reserve") /\ handle' = 0 /\ Then(<<Do("fail"), Do("finishFailed")>>)
      /\ UNCHANGED <<task, queue, shown, control, execs, runs, web, updating, view, waiting, steers, crashes, scenario>>
  BY DEF Sound, ReserveThrows, product
<1>2. web = "up" /\ Now.op = "reserve"
  BY <1>1, Doings
<1>3. faults' \in 0..MaxFaults
  <2>1. CASE faults' = faults
    BY <1>1, <2>1 DEF TypeOK
  <2>2. CASE Fault("fault")
    <3>1. MaxFaults \in Nat /\ faults \in 0..MaxFaults /\ faults < MaxFaults /\ faults' = faults + 1
      BY <1>1, <2>2, TurnsAssumption DEF TypeOK, Fault
    <3> QED  BY <3>1
  <2> QED  BY <2>1, <2>2 DEF ReserveThrows
<1>4. PICK S : Made(S) /\ \A x \in S : Ticketless(x) /\ TodoStepOk(x)'
  BY <1>1, Catches
<1>5. TypeOK'
  <2>1. handle' \in 0..Len(execs')
    BY <1>1 DEF TypeOK
  <2> QED  BY <1>1, <1>3, <2>1 DEF TypeOK
<1>6. TodoOk'
  <2>1. \A m \in Messages : Acknowledged(m) => Acknowledged(m)'
    BY <1>1 DEF Acknowledged, Has
  <2> QED  BY <1>1, <1>2, <1>4, <2>1, TodoAdvances
<1>7. /\ \A x \in Todo' : x \in Todo \/ Ticketless(x)
      /\ view'.exec # 0 => view'.cursor <= Len(execs[view'.exec].journal)
  BY <1>1, <1>4 DEF Made, Sound, RunsOk
<1>8. \A i \in DOMAIN queue.messages : Calm(i)
  BY <1>1, Unmoved
<1> QED  BY <1>1, <1>5, <1>6, <1>7, <1>8, Quiet

-----------------------------------------------------------------------------
(* The skills are there.                                                    *)

(* A turn that nobody waits for is dropped, with whatever handle there is.  *)
LEMMA SkillsDropped ==
    ASSUME Sound, Idle, waiting' \subseteq waiting, handle' = 0,
           UNCHANGED <<product, control, execs, runs, web, updating, view, steers, bounds>>,
           agenda' \in Seq(AgendaSteps), Ordered(agenda'), \A x \in Todo' : Ticketless(x) /\ TodoStepOk(x)'
    PROVE  Sound'
<1>1. TypeOK /\ UNCHANGED <<task, queue, shown, crashes, faults, scenario>> /\ web' = "up"
  BY DEF Sound, product, bounds, Idle
<1>2. TypeOK'
  <2>1. handle' \in 0..Len(execs')
    BY <1>1 DEF TypeOK
  <2> QED  BY <1>1, <2>1 DEF TypeOK
<1>3. TodoOk'
  BY <1>1, TodoBegins
<1>4. view'.exec # 0 => view'.cursor <= Len(execs[view'.exec].journal)
  BY DEF Sound, RunsOk
<1>5. \A i \in DOMAIN queue.messages : Calm(i)
  BY <1>1, Unmoved
<1> QED  BY <1>1, <1>2, <1>3, <1>4, <1>5, Quiet

(* Resolving the skills of a turn fails.                                    *)
LEMMA SkillsFailKeeps ==
    ASSUME Sound, NEW w \in waiting, SkillsFail(w)
    PROVE  Sound'
<1>1. /\ Idle /\ agenda = <<>> /\ waiting' \subseteq waiting /\ handle' = 0
      /\ UNCHANGED <<product, control, execs, runs, web, updating, view, steers, bounds>>
      /\ agenda' = <<Do("fail"), Do("reject")>> \/ agenda' = <<>>
  BY DEF SkillsFail, Idle
<1>2. CASE agenda' = <<>>
  BY <1>1, <1>2, Begun, SkillsDropped
<1>3. CASE agenda' = <<Do("fail"), Do("reject")>>
  <2>1. /\ Do("fail") \in AgendaSteps /\ Do("fail").op = "fail" /\ Ticketless(Do("fail"))
        /\ Do("reject") \in AgendaSteps /\ Do("reject").op = "reject" /\ Ticketless(Do("reject"))
    BY Plain1 DEF Plainly
  <2>2. Behind(Do("fail").op, Do("reject").op)
    BY <2>1 DEF Behind
  <2>3. agenda' \in Seq(AgendaSteps) /\ Ordered(agenda') /\ Todo' = {Do("fail"), Do("reject")}
    BY <1>1, <1>3, <2>1, <2>2, Begun
  <2>4. TodoStepOk(Do("fail"))' /\ TodoStepOk(Do("reject"))'
    BY <1>1, <2>1 DEF TodoStepOk
  <2> QED  BY <1>1, <2>1, <2>3, <2>4, SkillsDropped
<1> QED  BY <1>1, <1>2, <1>3

(* The turn goes on if its run is still the one of the task.                *)
LEMMA SkillsResolveKeeps ==
    ASSUME Sound, NEW w \in waiting, SkillsResolve(w)
    PROVE  Sound'
<1>1. /\ Idle /\ agenda = <<>> /\ waiting' = waiting \ {w}
      /\ UNCHANGED <<product, control, execs, runs, web, updating, view, steers, bounds>>
      /\ TodoOk /\ TypeOK /\ queue \in Queue /\ Distinct(queue) /\ QueueOk /\ SteersOk /\ RunsOk
  BY DEF SkillsResolve, Idle, Sound, TypeOK, Distinct
<1>2. CASE ~(Current(w) /\ task.status \notin Closed)
  <2>1. handle' = 0 /\ agenda' = <<>>
    BY <1>1, <1>2 DEF SkillsResolve
  <2> QED  BY <1>1, <2>1, Begun, SkillsDropped
<1>3. CASE Current(w) /\ task.status \notin Closed
  <2>0. PICK turn, n : turn = w.turn /\ n = w.turn.message
    OBVIOUS
  <2>1. /\ agenda' = Opening(turn) /\ handle' = handle /\ w.run = queue.run /\ turn \in Turns /\ n \in Messages \cup {None}
        /\ UNCHANGED <<task, queue, shown, crashes, faults, scenario>> /\ web' = "up" /\ turn.message = n
    BY <1>1, <1>3, <2>0 DEF SkillsResolve, Current, TypeOK, Turns, product, bounds, Idle
  <2>2. /\ agenda' \in Seq(AgendaSteps) /\ Ordered(agenda') /\ Todo' = OpeningSet(turn) /\ Todo = {}
        /\ \A x \in Todo' : x.op \in {"reset", "run", "arm", "reserve"} /\ x.turn = turn
    BY <1>1, <2>1, Begun, OpeningSteps
  <2>3. \A v \in waiting' : v.run # queue'.run
    BY <1>1, <2>1 DEF RunsOk
  <2>4. TodoOk'
    <3>1. \E y \in Todo' : y.op = "arm"
      <4>1. Open("arm", turn) \in OpeningSet(turn) /\ Open("arm", turn).op = "arm"
        BY DEF OpeningSet, Open
      <4> QED  BY <2>2, <4>1
    <3>2. \A x \in Todo' : TodoStepOk(x)'
      BY <2>2, <2>3, <3>1 DEF TodoStepOk
    <3> QED  BY <2>1, <2>2, <3>2, TodoBegins
  <2>5. n \in Messages => Opened(n) /\ n \in Ids(queue)
    BY <1>1, <2>0, <2>1 DEF Opened, AwaitsSkills, QueueOk
  <2>6. \A m \in Messages : m # n => Moves(m)
    <3> SUFFICES ASSUME NEW m \in Messages, m # n PROVE Moves(m)
      OBVIOUS
    <3>1. \A x \in Todo' : x \in Todo \/ Ticketless(x) \/ Concerns(x, n)
      BY <2>1, <2>2 DEF Ticketless, Concerns
    <3> QED  BY <1>1, <2>1, <2>3, <3>1, Moving
  <2>7. ASSUME NEW i \in DOMAIN queue.messages, NEW y, y = queue.messages[i], y.id = n
        PROVE  EntryOk(y)' /\ VersionOk(y)' /\ FirstOk(i)'
    <3>1. EntryOk(y) /\ VersionOk(y) /\ FirstOk(i) /\ n \in Messages
      BY <1>1, <2>7, EntryFacts DEF QueueOk
    <3>2. Opened(n) /\ y.status = "sending" /\ ~Steering(n) /\ ~Answering(n) /\ ~HandedTo(n)
      BY <2>5, <2>7, <3>1 DEF EntryOk
    <3>3. ~Steering(n)'
      BY <1>1, <2>2, <3>2 DEF Steering
    <3>4. ~Answering(n)'
      BY <2>2 DEF Answering
    <3>5. ~HandedTo(n)'
      BY <1>1, <3>2 DEF HandedTo, Given
    <3>6. EntryOk(y)'
      BY <2>1, <2>7, <3>1, <3>2, <3>3, <3>4, <3>5 DEF EntryOk
    <3>7. VersionOk(y)'
      <4> SUFFICES ASSUME NEW v \in 1..MaxVersion, Carried(n, v)' PROVE v = y.version
        BY <2>7 DEF VersionOk
      <4>1. Carried(n, v)
        <5>1. CASE \E z \in Todo' : z.op \in {"begin", "park", "reserve"} /\ z.turn.message = n /\ z.turn.version = v
          BY <2>0, <2>1, <2>2, <5>1 DEF Carried, AwaitsSkills
        <5>2. CASE \E z \in waiting' : AwaitsSkills(z, n)' /\ z.turn.version = v
          BY <2>3, <5>2 DEF AwaitsSkills
        <5>3. CASE \E e \in DOMAIN execs' : execs'[e].turn.message = n /\ execs'[e].turn.version = v
          BY <1>1, <5>3 DEF Carried
        <5> QED  BY <5>1, <5>2, <5>3 DEF Carried
      <4> QED  BY <2>7, <3>1, <4>1 DEF VersionOk
    <3>8. FirstOk(i)'
      BY <2>1, <2>7, <3>1, <3>2 DEF FirstOk
    <3> QED  BY <3>6, <3>7, <3>8
  <2>8. QueueOk'
    BY <1>1, <2>1, <2>5, <2>6, <2>7, QueueSame
  <2>9. TypeOK'
    BY <1>1, <2>1 DEF TypeOK
  <2>10. SteersOk' /\ RunsOk'
    BY <1>1, <2>1 DEF SteersOk, StatusIs, RunsOk
  <2> QED  BY <1>1, <2>4, <2>8, <2>9, <2>10, Assembled
<1> QED  BY <1>2, <1>3

-----------------------------------------------------------------------------
(* A message is sent into the running turn.                                 *)

(* A steer goes one step further, or an answer to one arrives.              *)
LEMMA SteersMove ==
    ASSUME Sound, TodoOk', TypeOK', SteersOk', NEW n \in Messages,
           UNCHANGED <<task, queue, execs, runs, view, waiting>>,
           \A x \in Todo' : x \in Todo \/ (x.op \in {"steer", "handOver", "answer"} /\ x.message = n),
           \A s \in steers' : s \in steers \/ s.phase = "sent" \/ s.message = n,
           Steering(n)' => Steering(n),
           Answering(n)' => Answering(n) \/ HandedTo(n) \/ (Steering(n) /\ ~Steering(n)')
    PROVE  Sound'
<1>1. queue \in Queue /\ QueueOk /\ RunsOk
  BY DEF Sound, TypeOK
<1>2. ASSUME NEW m \in Messages PROVE Moves(m)
  <2>1. CASE m # n
    <3>1. \A x \in Todo' : x \in Todo \/ Ticketless(x) \/ Concerns(x, n)
      BY DEF Concerns
    <3> QED  BY <2>1, <3>1, Moving
  <2>2. CASE m = n
    <3>1. Opened(n)' => Opened(n)
      BY DEF Opened, Carries, AwaitsSkills
    <3>2. /\ HandedTo(n)' => HandedTo(n)
          /\ Acknowledged(n) => Acknowledged(n)'
          /\ Ran(n)' => Ran(n)
      BY DEF HandedTo, Given, Acknowledged, Has, Ran
    <3>3. \A v : Carried(n, v)' => Carried(n, v)
      BY DEF Carried, AwaitsSkills
    <3> QED  BY <2>2, <3>1, <3>2, <3>3 DEF Moves
  <2> QED  BY <2>1, <2>2
<1>3. QueueOk'
  <2>1. None \notin Messages /\ \A i \in DOMAIN queue.messages : queue.messages[i].id \in Messages
    BY EntryFacts, QueueAssumption
  <2> QED  BY <1>1, <1>2, <2>1, QueueSame
<1>4. RunsOk'
  BY <1>1 DEF RunsOk
<1> QED  BY <1>3, <1>4, Assembled

(* Answers, and what is needed of them.                                     *)
LEMMA Answers ==
    ASSUME NEW m \in Messages, NEW result \in Results, NEW a, a = Answer(m, result)
    PROVE  a \in AgendaSteps /\ a.op = "answer" /\ a.message = m /\ a.result = result
BY DEF Answer, AgendaSteps

(* host.steer: rejected at once, delivered after its skills, or handed over.*)
LEMMA SteerKeeps ==
    ASSUME Sound, Steer
    PROVE  Sound'
<1>0. PICK n : n = Now.message
  OBVIOUS
<1>1. /\ TodoOk /\ TypeOK /\ Doing("steer") /\ SteersOk
      /\ UNCHANGED <<task, queue, shown, control, execs, runs, web, updating, handle, view, waiting, crashes, faults, scenario>>
  BY DEF Sound, Steer, product, bounds
<1>2. agenda # <<>> /\ web = "up" /\ Now.op = "steer" /\ Now \in Todo /\ Now \in AgendaSteps /\ TodoStepOk(Now)
  BY <1>1, Doings
<1>3. /\ n \in Messages /\ Steering(n) /\ StatusIs(n, {"sending"})
      /\ \A s \in steers : s.phase = "resolving" => s.message # n
  BY <1>0, <1>2, StepFields DEF Sends, Steering, TodoStepOk
<1>4. \A b : ~Behind(Now.op, b)
  BY <1>2 DEF Behind, BeforeAnswers
<1>5. \A m \in Messages : Acknowledged(m) => Acknowledged(m)'
  BY <1>1 DEF Acknowledged, Has
<1>6. CASE ~Steerable
  <2>1. PICK a : a = Answer(n, "rejected")
    OBVIOUS
  <2>2. a \in AgendaSteps /\ a.op = "answer" /\ a.message = n /\ a.result = "rejected" /\ Then(<<a>>) /\ steers' = steers
    BY <1>0, <1>3, <1>6, <2>1, Answers DEF Results, Steer
  <2>3. Made({a})
    BY <1>1, <1>2, <1>4, <2>2, MadeOne
  <2>4. Todo' = {a}
    BY <1>4, <2>3 DEF Made
  <2>5. TodoStepOk(a)'
    BY <2>2 DEF TodoStepOk
  <2>6. TodoOk'
    BY <1>1, <1>2, <1>5, <2>3, <2>5, TodoAdvances
  <2>7. TypeOK' /\ SteersOk'
    BY <1>1, <2>2 DEF TypeOK, SteersOk, StatusIs
  <2>8. ~Steering(n)'
    BY <1>3, <2>2, <2>4 DEF Steering
  <2> QED  BY <1>1, <1>3, <2>2, <2>4, <2>6, <2>7, <2>8, SteersMove
<1>7. CASE Steerable /\ n \in WithSkills
  <2>1. PICK s : s = SteerOf(n, handle, "resolving")
    OBVIOUS
  <2>2. s.message = n /\ s.exec = handle /\ s.phase = "resolving" /\ Then(<<>>) /\ steers' = steers \cup {s} /\ handle # 0
    BY <1>0, <1>7, <2>1 DEF SteerOf, Steer, Steerable
  <2>3. Made({})
    BY <1>1, <1>2, <2>2, MadeNone
  <2>4. Todo' = {}
    BY <1>4, <2>3 DEF Made
  <2>5. TodoOk'
    BY <1>1, <1>2, <1>5, <2>3, TodoAdvances
  <2>6. TypeOK'
    <3>1. handle \in 1..Len(execs)
      BY <1>1, <2>2 DEF TypeOK
    <3>2. s \in [message : Messages, exec : 1..Len(execs'), phase : {"resolving", "sent"}]
      BY <1>1, <1>3, <2>1, <3>1 DEF SteerOf
    <3> QED  BY <1>1, <2>2, <3>2 DEF TypeOK
  <2>7. SteersOk'
    BY <1>1, <1>3, <2>2 DEF SteersOk, StatusIs
  <2>8. ~Answering(n)'
    BY <2>4 DEF Answering
  <2> QED  BY <1>1, <1>3, <2>2, <2>4, <2>5, <2>6, <2>7, <2>8, SteersMove
<1>8. CASE Steerable /\ n \notin WithSkills
  <2>1. PICK a : a = [op |-> "handOver", message |-> n, exec |-> handle]
    OBVIOUS
  <2>2. /\ a.op = "handOver" /\ a.message = n /\ a.exec = handle /\ Then(<<a>>) /\ steers' = steers /\ handle # 0
        /\ handle \in 1..Len(execs)
    BY <1>0, <1>1, <1>8, <2>1 DEF Steer, Steerable, TypeOK
  <2>3. a \in AgendaSteps
    BY <1>3, <2>1, <2>2 DEF AgendaSteps
  <2>4. Made({a})
    BY <1>1, <1>2, <1>4, <2>2, <2>3, MadeOne
  <2>5. Todo' = {a}
    BY <1>4, <2>4 DEF Made
  <2>6. TodoStepOk(a)'
    BY <1>1, <1>3, <2>2 DEF TodoStepOk, StatusIs
  <2>7. TodoOk'
    BY <1>1, <1>2, <1>5, <2>4, <2>6, TodoAdvances
  <2>8. TypeOK' /\ SteersOk'
    BY <1>1, <2>2 DEF TypeOK, SteersOk, StatusIs
  <2>9. ~Answering(n)'
    BY <2>2, <2>5 DEF Answering
  <2> QED  BY <1>1, <1>3, <2>2, <2>5, <2>7, <2>8, <2>9, SteersMove
<1> QED  BY <1>6, <1>7, <1>8

(* The skills of a steer are resolved, or one of them is gone.              *)
LEMMA SteerResolvesKeeps ==
    ASSUME Sound, NEW s \in steers, SteerResolves(s)
    PROVE  Sound'
<1>0. PICK n : n = s.message
  OBVIOUS
<1>1. /\ TodoOk /\ TypeOK /\ SteersOk /\ Idle /\ agenda = <<>> /\ s.phase = "resolving" /\ steers' = steers \ {s}
      /\ UNCHANGED <<task, queue, shown, control, execs, runs, web, updating, handle, view, waiting, crashes, faults, scenario>>
      /\ web' = "up"
  BY DEF Sound, SteerResolves, product, bounds, Idle
<1>2. n \in Messages /\ s.exec \in 1..Len(execs) /\ s.exec \in Nat /\ Steering(n)
  BY <1>0, <1>1 DEF TypeOK, Steering
<1>3. \A t \in steers' : t.phase = "resolving" => t.message # n
  BY <1>0, <1>1 DEF SteersOk
<1>4. TypeOK' /\ SteersOk'
  <2>1. TypeOK'
    BY <1>1 DEF TypeOK
  <2>2. \A m : StatusIs(m, {"sending"}) => StatusIs(m, {"sending"})'
    BY <1>1 DEF StatusIs
  <2>3. SteersOk'
    BY <1>1, <2>2 DEF SteersOk
  <2> QED  BY <2>1, <2>3
<1>5. CASE agenda' = <<[op |-> "handOver", message |-> s.message, exec |-> s.exec]>>
  <2>1. PICK a : a = [op |-> "handOver", message |-> n, exec |-> s.exec]
    OBVIOUS
  <2>2. a \in AgendaSteps /\ a.op = "handOver" /\ a.message = n /\ a.exec = s.exec
    BY <1>2, <2>1 DEF AgendaSteps
  <2>3. agenda' \in Seq(AgendaSteps) /\ Ordered(agenda') /\ Todo' = {a} /\ Todo = {}
    BY <1>0, <1>1, <1>5, <2>1, <2>2, Begun
  <2>4. s.exec = handle => StatusIs(n, {"sending"})
    BY <1>0, <1>1 DEF SteersOk
  <2>5. TodoStepOk(a)'
    BY <1>1, <1>2, <1>3, <2>2, <2>4 DEF TodoStepOk, StatusIs
  <2>6. TodoOk'
    BY <1>1, <2>3, <2>5, TodoBegins
  <2>7. ~Answering(n)'
    BY <2>2, <2>3 DEF Answering
  <2> QED  BY <1>1, <1>2, <1>4, <2>2, <2>3, <2>6, <2>7, SteersMove
<1>6. CASE agenda' = <<Answer(s.message, "rejected")>>
  <2>1. PICK a : a = Answer(n, "rejected")
    OBVIOUS
  <2>2. a \in AgendaSteps /\ a.op = "answer" /\ a.message = n /\ a.result = "rejected"
    BY <1>2, <2>1, Answers DEF Results
  <2>3. agenda' \in Seq(AgendaSteps) /\ Ordered(agenda') /\ Todo' = {a} /\ Todo = {}
    BY <1>0, <1>1, <1>6, <2>1, <2>2, Begun
  <2>4. TodoStepOk(a)'
    BY <2>2 DEF TodoStepOk
  <2>5. TodoOk'
    BY <1>1, <2>3, <2>4, TodoBegins
  <2>6. ~Steering(n)'
    BY <1>3, <2>2, <2>3 DEF Steering
  <2> QED  BY <1>1, <1>2, <1>4, <2>2, <2>3, <2>5, <2>6, SteersMove
<1> QED  BY <1>5, <1>6 DEF SteerResolves

(* A receipt arrives, or the wait for it ends: the message was handed over. *)
LEMMA ReceiptsKeep ==
    ASSUME Sound, NEW s \in steers, ReceiptArrives(s) \/ SendTimesOut(s)
    PROVE  Sound'
<1>0. PICK n, e : n = s.message /\ e = s.exec
  OBVIOUS
<1>1. /\ TodoOk /\ TypeOK /\ SteersOk /\ Idle /\ agenda = <<>> /\ s.phase = "sent" /\ steers' = steers \ {s}
      /\ UNCHANGED <<task, queue, shown, control, execs, runs, web, updating, handle, view, waiting, crashes, faults, scenario>>
      /\ web' = "up"
  BY DEF Sound, ReceiptArrives, SendTimesOut, product, bounds, Idle
<1>2. n \in Messages /\ e \in DOMAIN execs /\ execs[e] \in Exec
  <2>1. execs \in Seq(Exec) /\ e \in 1..Len(execs) /\ n \in Messages
    BY <1>0, <1>1 DEF TypeOK
  <2> QED  BY <2>1
<1>3. execs[e].sends[n] \in Receipt \ {"none"} /\ HandedTo(n)
  <2>1. execs[e].sends \in [Messages -> Receipt]
    BY <1>2 DEF Exec
  <2>2. execs[e].sends[n] # "none"
    BY <1>0, <1>1 DEF SteersOk
  <2> QED  BY <1>2, <2>1, <2>2 DEF HandedTo, Given
<1>4. PICK result \in Results : agenda' = <<Answer(n, result)>> /\ (result = "delivered" => execs[e].sends[n] = "delivered")
  <2>1. CASE ReceiptArrives(s)
    <3>1. execs[e].sends[n] \in Results /\ agenda' = <<Answer(n, execs[e].sends[n])>>
      BY <1>0, <1>3, <2>1 DEF ReceiptArrives, Results, Receipt
    <3> QED  BY <3>1
  <2>2. CASE SendTimesOut(s)
    BY <1>0, <2>2 DEF SendTimesOut, Results
  <2> QED  BY <2>1, <2>2
<1>5. PICK a : a = Answer(n, result)
  OBVIOUS
<1>6. a \in AgendaSteps /\ a.op = "answer" /\ a.message = n /\ a.result = result
  BY <1>2, <1>5, Answers
<1>7. agenda' \in Seq(AgendaSteps) /\ Ordered(agenda') /\ Todo' = {a} /\ Todo = {}
  BY <1>1, <1>4, <1>5, <1>6, Begun
<1>8. result = "delivered" => Acknowledged(n)'
  <2>1. ExecOk(e)
    BY <1>2 DEF Sound
  <2> QED  BY <1>1, <1>2, <1>4, <2>1 DEF ExecOk, Acknowledged, Has
<1>9. TodoStepOk(a)'
  BY <1>6, <1>8 DEF TodoStepOk
<1>10. TodoOk'
  BY <1>1, <1>7, <1>9, TodoBegins
<1>11. TypeOK' /\ SteersOk'
  BY <1>1 DEF TypeOK, SteersOk, StatusIs
<1>12. Steering(n)' => Steering(n)
  BY <1>1, <1>6, <1>7 DEF Steering
<1> QED  BY <1>1, <1>2, <1>3, <1>6, <1>7, <1>10, <1>11, <1>12, SteersMove

(* A receipt of one message in one execution is written.                    *)
ReceiptSet(e, n, receipt) ==
    /\ execs' \in Seq(Exec) /\ Len(execs') = Len(execs) /\ DOMAIN execs' = DOMAIN execs
    /\ \A d \in DOMAIN execs : d # e => execs'[d] = execs[d]
    /\ execs'[e].turn = execs[e].turn /\ execs'[e].journal = execs[e].journal /\ execs'[e].state = execs[e].state
    /\ \A m \in Messages : execs'[e].sends[m] = IF m = n THEN receipt ELSE execs[e].sends[m]

(* Nothing else of the executions changes.                                  *)
LEMMA SendsSet ==
    ASSUME TypeOK, NEW e \in DOMAIN execs, NEW n \in Messages, NEW receipt \in Receipt,
           execs' = [execs EXCEPT ![e].sends[n] = receipt]
    PROVE  ReceiptSet(e, n, receipt)
<1>1. execs \in Seq(Exec)
  BY DEF TypeOK
<1>2. PICK x : x = [execs[e] EXCEPT !.sends[n] = receipt]
  OBVIOUS
<1>3. execs' = [execs EXCEPT ![e] = x]
  BY <1>1, <1>2
<1>4. execs[e] \in Exec
  BY <1>1
<1>5. /\ x \in Exec /\ x.turn = execs[e].turn /\ x.journal = execs[e].journal /\ x.state = execs[e].state
      /\ \A m \in Messages : x.sends[m] = IF m = n THEN receipt ELSE execs[e].sends[m]
  BY <1>2, <1>4 DEF Exec
<1>6. /\ execs' \in Seq(Exec) /\ Len(execs') = Len(execs) /\ DOMAIN execs' = DOMAIN execs /\ execs'[e] = x
      /\ \A d \in DOMAIN execs : d # e => execs'[d] = execs[d]
  BY <1>1, <1>3, <1>5
<1> QED  BY <1>5, <1>6 DEF ReceiptSet

(* The message crosses into the turn it was meant for, or is answered.      *)
LEMMA HandOverKeeps ==
    ASSUME Sound, HandOver
    PROVE  Sound'
<1>0. PICK n, e : n = Now.message /\ e = Now.exec
  OBVIOUS
<1>1. /\ TodoOk /\ TypeOK /\ Doing("handOver") /\ SteersOk /\ QueueOk /\ RunsOk /\ queue \in Queue
      /\ UNCHANGED <<task, queue, shown, control, runs, web, updating, handle, view, waiting, crashes, faults, scenario>>
  BY DEF Sound, HandOver, product, bounds, TypeOK
<1>2. agenda # <<>> /\ web = "up" /\ Now.op = "handOver" /\ Now \in Todo /\ Now \in AgendaSteps /\ TodoStepOk(Now)
  BY <1>1, Doings
<1>3. /\ n \in Messages /\ Steering(n) /\ e \in 1..Len(execs) /\ (e = handle => StatusIs(n, {"sending"}))
      /\ \A s \in steers : s.phase = "resolving" => s.message # n
  BY <1>0, <1>2, StepFields DEF Steering, TodoStepOk
<1>4. \A b : ~Behind(Now.op, b)
  BY <1>2 DEF Behind, BeforeAnswers
<1>5. CASE ~(SameTurn(e) /\ execs[e].state = "running")
  <2>1. PICK a : a = Answer(n, "rejected")
    OBVIOUS
  <2>2. /\ a \in AgendaSteps /\ a.op = "answer" /\ a.message = n /\ a.result = "rejected" /\ Then(<<a>>)
        /\ steers' = steers /\ execs' = execs
    BY <1>0, <1>3, <1>5, <2>1, Answers DEF Results, HandOver
  <2>3. Made({a})
    BY <1>1, <1>2, <1>4, <2>2, MadeOne
  <2>4. Todo' = {a}
    BY <1>4, <2>3 DEF Made
  <2>5. TodoStepOk(a)'
    BY <2>2 DEF TodoStepOk
  <2>6. TodoOk'
    <3>1. \A m \in Messages : Acknowledged(m) => Acknowledged(m)'
      BY <2>2 DEF Acknowledged, Has
    <3> QED  BY <1>1, <1>2, <2>3, <2>5, <3>1, TodoAdvances
  <2>7. TypeOK' /\ SteersOk'
    BY <1>1, <2>2 DEF TypeOK, SteersOk, StatusIs
  <2>8. ~Steering(n)'
    BY <1>3, <2>2, <2>4 DEF Steering
  <2> QED  BY <1>1, <1>3, <2>2, <2>4, <2>6, <2>7, <2>8, SteersMove
<1>6. CASE SameTurn(e) /\ execs[e].state = "running"
  <2>1. PICK s : s = SteerOf(n, e, "sent")
    OBVIOUS
  <2>2. /\ execs' = [execs EXCEPT ![e].sends[n] = "accepted"] /\ steers' = steers \cup {s} /\ Then(<<>>)
        /\ s.message = n /\ s.exec = e /\ s.phase = "sent"
    BY <1>0, <1>6, <2>1 DEF HandOver, SteerOf
  <2>3. Made({})
    BY <1>1, <1>2, <2>2, MadeNone
  <2>4. Todo' = {}
    BY <1>4, <2>3 DEF Made
  <2>5. e \in DOMAIN execs
    BY <1>1, <1>3 DEF TypeOK
  <2>6. /\ execs' \in Seq(Exec) /\ Len(execs') = Len(execs) /\ DOMAIN execs' = DOMAIN execs
        /\ \A d \in DOMAIN execs : d # e => execs'[d] = execs[d]
        /\ execs'[e].turn = execs[e].turn /\ execs'[e].journal = execs[e].journal /\ execs'[e].state = execs[e].state
        /\ \A m \in Messages : execs'[e].sends[m] = IF m = n THEN "accepted" ELSE execs[e].sends[m]
    <3>1. "accepted" \in Receipt
      BY DEF Receipt
    <3>2. ReceiptSet(e, n, "accepted")
      BY <1>1, <1>3, <2>2, <2>5, <3>1, SendsSet
    <3> QED  BY <3>2 DEF ReceiptSet
  <2>7. \A d \in DOMAIN execs :
           /\ execs'[d].turn = execs[d].turn /\ execs'[d].journal = execs[d].journal
           /\ \A m \in Messages : (m # n \/ d # e) => execs'[d].sends[m] = execs[d].sends[m]
    BY <2>6
  <2>8. n \in Ids(queue) /\ ~HandedTo(n)
    <3>1. n \in Ids(queue)
      BY <1>1, <1>3 DEF QueueOk
    <3>2. PICK k \in DOMAIN queue.messages : queue.messages[k].id = n
      BY <3>1, IdAt
    <3>3. PICK y : y = queue.messages[k]
      OBVIOUS
    <3> QED  BY <1>3, <3>1, <3>2, <3>3, EntryFacts DEF EntryOk
  <2>9. ~Steering(n)'
    BY <1>3, <2>2, <2>4 DEF Steering
  <2>10. \A m : Acknowledged(m) => Acknowledged(m)'
    BY <2>6, <2>7 DEF Acknowledged, Has
  <2>11. ASSUME NEW m \in Messages PROVE Moves(m)
    <3>1. CASE m # n
      <4>1. \A d \in DOMAIN execs' :
               /\ execs'[d].turn.message = m => d \in DOMAIN execs /\ execs[d].turn = execs'[d].turn
               /\ execs'[d].sends[m] # "none" => d \in DOMAIN execs /\ execs[d].sends[m] # "none"
        BY <2>6, <2>7, <3>1
      <4>2. \A d \in DOMAIN execs : d \in DOMAIN execs' /\ Elements(execs[d].journal) \subseteq Elements(execs'[d].journal)
        BY <2>6, <2>7
      <4> QED  BY <1>1, <2>2, <2>4, <3>1, <4>1, <4>2, Moving
    <3>2. CASE m = n
      <4>1. Opened(n)' => Opened(n)
        BY <1>1, <2>4 DEF Opened, Carries, AwaitsSkills
      <4>2. ~Answering(n)'
        BY <2>4 DEF Answering
      <4>3. Ran(n)' => Ran(n)
        BY <2>6, <2>7 DEF Ran
      <4>4. \A v : Carried(n, v)' => Carried(n, v)
        BY <1>1, <2>4, <2>6, <2>7 DEF Carried, AwaitsSkills
      <4> QED  BY <1>3, <2>9, <2>10, <3>2, <4>1, <4>2, <4>3, <4>4 DEF Moves
    <3> QED  BY <3>1, <3>2
  <2>12. QueueOk'
    <3>1. None \notin Messages /\ \A i \in DOMAIN queue.messages : queue.messages[i].id \in Messages
      BY EntryFacts, QueueAssumption
    <3> QED  BY <1>1, <2>11, <3>1, QueueSame
  <2>13. TypeOK'
    <3>1. s \in [message : Messages, exec : 1..Len(execs'), phase : {"resolving", "sent"}]
      BY <1>3, <2>1, <2>6 DEF SteerOf
    <3> QED  BY <1>1, <2>2, <2>6, <3>1 DEF TypeOK
  <2>14. TodoOk'
    BY <1>1, <1>2, <2>3, <2>10, TodoAdvances
  <2>15. SteersOk'
    <3>1. ASSUME NEW t \in steers', t.phase = "sent" PROVE execs'[t.exec].sends[t.message] # "none"
      <4>1. CASE t = s
        BY <1>3, <2>2, <2>6, <4>1
      <4>2. CASE t \in steers
        <5>1. t.exec \in DOMAIN execs /\ t.message \in Messages /\ execs[t.exec].sends[t.message] # "none"
          BY <1>1, <3>1, <4>2 DEF TypeOK, SteersOk
        <5>2. t.message # n \/ t.exec # e
          BY <2>5, <2>8, <5>1 DEF HandedTo, Given
        <5> QED  BY <2>7, <5>1, <5>2
      <4> QED  BY <2>2, <4>1, <4>2
    <3>2. \A m : StatusIs(m, {"sending"}) => StatusIs(m, {"sending"})'
      BY <1>1 DEF StatusIs
    <3> QED  BY <1>1, <2>2, <3>1, <3>2 DEF SteersOk
  <2>16. RunsOk'
    <3>1. view.exec # 0 => view.exec \in DOMAIN execs
      BY <1>1 DEF TypeOK
    <3> QED  BY <1>1, <2>7, <3>1 DEF RunsOk
  <2>17. ASSUME NEW d \in DOMAIN execs' PROVE ExecOk(d)'
    <3>1. ExecOk(d) /\ execs'[d].state = execs[d].state
      BY <2>6 DEF Sound
    <3>2. CASE d # e
      BY <2>6, <3>1, <3>2 DEF ExecOk, Has, Given
    <3>3. CASE d = e
      BY <1>6, <2>6, <3>1, <3>3 DEF ExecOk, Has, Given
    <3> QED  BY <3>2, <3>3
  <2>18. ASSUME NEW m \in Messages PROVE GivenOnce(m)'
    <3>1. CASE m # n
      BY <2>6, <2>7, <3>1 DEF Sound, GivenOnce, Given
    <3>2. CASE m = n
      <4>1. \A d \in DOMAIN execs : execs[d].turn.message # n /\ execs[d].sends[n] = "none"
        BY <2>8 DEF HandedTo, Given
      <4> QED  BY <2>6, <2>7, <3>2, <4>1 DEF GivenOnce, Given
    <3> QED  BY <3>1, <3>2
  <2> QED  BY <2>12, <2>13, <2>14, <2>15, <2>16, <2>17, <2>18 DEF Sound
<1> QED  BY <1>5, <1>6

-----------------------------------------------------------------------------
(* Executions go on by themselves.                                          *)

(* An execution journals, answers and ends, and has no new message.         *)
GoesOn(e) ==
    /\ execs'[e].turn = execs[e].turn
    /\ \A m \in Messages : execs'[e].sends[m] = "none" <=> execs[e].sends[m] = "none"
    /\ Elements(execs[e].journal) \subseteq Elements(execs'[e].journal)
    /\ Len(execs[e].journal) <= Len(execs'[e].journal)

(* Steps of the executions.                                                 *)
LEMMA ExecsGoOn ==
    ASSUME Sound, execs' \in Seq(Exec), DOMAIN execs' = DOMAIN execs,
           UNCHANGED <<task, queue, shown, control, runs, web, updating, handle, view, waiting, steers, crashes, faults, scenario>>,
           \A e \in DOMAIN execs : GoesOn(e) /\ ExecOk(e)',
           agenda' = agenda \/ (web = "up" /\ \E S \in {{}} : Made(S) /\ Now.op = "interrupt")
    PROVE  Sound'
<1>1. TodoOk /\ TypeOK /\ SteersOk /\ QueueOk /\ RunsOk /\ queue \in Queue
  BY DEF Sound, TypeOK
<1>2. Len(execs') = Len(execs)
  BY <1>1 DEF TypeOK
<1>3. \A x \in Todo' : x \in Todo
  BY DEF Made, Todo
<1>4. \A m : Acknowledged(m) => Acknowledged(m)'
  BY DEF Acknowledged, Has, GoesOn
<1>5. ASSUME NEW m \in Messages PROVE Moves(m)
  <2>1. \A d \in DOMAIN execs' :
           /\ execs'[d].turn.message = m => d \in DOMAIN execs /\ execs[d].turn = execs'[d].turn
           /\ execs'[d].sends[m] # "none" => d \in DOMAIN execs /\ execs[d].sends[m] # "none"
    BY DEF GoesOn
  <2>2. \A d \in DOMAIN execs : d \in DOMAIN execs' /\ Elements(execs[d].journal) \subseteq Elements(execs'[d].journal)
    BY DEF GoesOn
  <2>3. m # None
    BY QueueAssumption
  <2> QED  BY <1>3, <2>1, <2>2, <2>3, Moving
<1>6. QueueOk'
  <2>1. None \notin Messages /\ \A i \in DOMAIN queue.messages : queue.messages[i].id \in Messages
    BY EntryFacts, QueueAssumption
  <2> QED  BY <1>1, <1>5, <2>1, QueueSame
<1>7. TypeOK'
  BY <1>1, <1>2 DEF TypeOK
<1>8. TodoOk'
  <2>1. CASE agenda' = agenda
    <3>1. Todo' = Todo
      BY <2>1 DEF Todo
    <3>2. ASSUME NEW x \in Todo PROVE TodoStepOk(x)'
      BY <1>1, <1>2, <1>4, <3>1 DEF TodoOk, TodoStepOk, StatusIs
    <3> QED  BY <1>1, <2>1, <3>1, <3>2 DEF TodoOk
  <2>2. CASE web = "up" /\ \E S \in {{}} : Made(S) /\ Now.op = "interrupt"
    BY <1>1, <1>4, <2>2, TodoAdvances
  <2> QED  BY <2>1, <2>2
<1>9. SteersOk'
  <2>1. \A s \in steers : s.exec \in DOMAIN execs /\ s.message \in Messages
    BY <1>1 DEF TypeOK
  <2>2. \A m : StatusIs(m, {"sending"}) => StatusIs(m, {"sending"})'
    BY <1>1 DEF StatusIs
  <2>3. \A s \in steers : s.phase = "sent" => execs'[s.exec].sends[s.message] # "none"
    BY <1>1, <2>1 DEF SteersOk, GoesOn
  <2> QED  BY <1>1, <2>2, <2>3 DEF SteersOk
<1>10. RunsOk'
  <2>1. view.exec # 0 => view.exec \in DOMAIN execs
    BY <1>1 DEF TypeOK
  <2>2. ASSUME NEW e \in DOMAIN execs PROVE Len(execs[e].journal) \in Nat /\ Len(execs'[e].journal) \in Nat
    <3>1. execs \in Seq(Exec)
      BY <1>1 DEF TypeOK
    <3>2. execs[e] \in Exec /\ execs'[e] \in Exec
      BY <3>1
    <3>3. \A x \in Exec : Len(x.journal) \in Nat
      BY DEF Exec
    <3> QED  BY <3>2, <3>3
  <2>3. view.cursor \in Nat
    BY <1>1 DEF TypeOK
  <2> QED  BY <1>1, <2>1, <2>2, <2>3 DEF RunsOk, GoesOn
<1>11. \A m \in Messages : GivenOnce(m)'
  BY DEF Sound, GivenOnce, Given, GoesOn
<1> QED  BY <1>6, <1>7, <1>8, <1>9, <1>10, <1>11 DEF Sound

(* One execution goes on, and stays right about its messages.               *)
Better(x, old) ==
    /\ x \in Exec /\ x.turn = old.turn
    /\ \A m \in Messages : x.sends[m] = "none" <=> old.sends[m] = "none"
    /\ Elements(old.journal) \subseteq Elements(x.journal) /\ Len(old.journal) <= Len(x.journal)
    /\ \A m \in Messages : x.sends[m] = "delivered" => Event("delivered", m) \in Elements(x.journal)
    /\ \A m \in Messages : Event("delivered", m) \in Elements(x.journal) => x.turn.message = m \/ x.sends[m] # "none"
    /\ \A m \in Messages : x.state = "ended" => x.sends[m] # "accepted"

(* The step of one execution.                                               *)
LEMMA ExecReplaced ==
    ASSUME Sound, NEW e \in DOMAIN execs, NEW x, Better(x, execs[e]), execs' = [execs EXCEPT ![e] = x],
           UNCHANGED <<task, queue, shown, control, runs, web, updating, handle, view, waiting, steers, crashes, faults, scenario>>,
           agenda' = agenda \/ (web = "up" /\ \E S \in {{}} : Made(S) /\ Now.op = "interrupt")
    PROVE  Sound'
<1>1. execs \in Seq(Exec) /\ x \in Exec
  BY DEF Sound, TypeOK, Better
<1>2. /\ execs' \in Seq(Exec) /\ DOMAIN execs' = DOMAIN execs /\ execs'[e] = x
      /\ \A d \in DOMAIN execs : d # e => execs'[d] = execs[d]
  BY <1>1
<1>3. \A y \in Exec : Len(y.journal) \in Nat
  BY DEF Exec
<1>4. ASSUME NEW d \in DOMAIN execs PROVE GoesOn(d) /\ ExecOk(d)'
  <2>1. CASE d # e
    <3>1. ExecOk(d) /\ execs'[d] = execs[d] /\ Len(execs[d].journal) \in Nat
      BY <1>1, <1>2, <1>3, <2>1 DEF Sound
    <3> QED  BY <3>1 DEF GoesOn, ExecOk, Has, Given
  <2>2. CASE d = e
    BY <1>2, <2>2 DEF GoesOn, ExecOk, Has, Given, Better
  <2> QED  BY <2>1, <2>2
<1> QED  BY <1>2, <1>4, ExecsGoOn

(* What is known of an execution.                                           *)
LEMMA ExecFacts ==
    ASSUME Sound, NEW e \in DOMAIN execs
    PROVE  execs[e] \in Exec /\ Better(execs[e], execs[e])
<1>1. execs \in Seq(Exec) /\ ExecOk(e)
  BY DEF Sound, TypeOK
<1>2. execs[e] \in Exec
  BY <1>1
<1>3. Len(execs[e].journal) \in Nat
  BY <1>2 DEF Exec
<1> QED  BY <1>1, <1>2, <1>3 DEF Better, ExecOk, Has, Given

(* An entry is appended to the journal.                                     *)
LEMMA Journalled ==
    ASSUME NEW old, Better(old, old), NEW kind \in {"queued", "started", "delivered", "question", "resolved"},
           NEW n \in Messages \cup {None}, NEW j, j = Append(old.journal, Event(kind, n)),
           kind = "delivered" => old.turn.message = n \/ old.sends[n] # "none",
           NEW state \in {"queued", "running"}, NEW x, x = [old EXCEPT !.state = state, !.journal = j]
    PROVE  Better(x, old)
<1>1. old \in Exec
  BY DEF Better
<1>2. old.journal \in Seq([kind : {"queued", "started", "delivered", "question", "resolved"}, message : Messages \cup {None}])
  BY <1>1 DEF Exec
<1>3. Event(kind, n) \in [kind : {"queued", "started", "delivered", "question", "resolved"}, message : Messages \cup {None}]
  BY DEF Event
<1>4. /\ j \in Seq([kind : {"queued", "started", "delivered", "question", "resolved"}, message : Messages \cup {None}])
      /\ Len(j) = Len(old.journal) + 1 /\ Len(old.journal) \in Nat
      /\ Elements(j) = Elements(old.journal) \cup {Event(kind, n)}
  <2>1. /\ DOMAIN j = 1..(Len(old.journal) + 1) /\ DOMAIN old.journal = 1..Len(old.journal)
        /\ Len(old.journal) \in Nat /\ j[Len(old.journal) + 1] = Event(kind, n)
        /\ \A i \in 1..Len(old.journal) : j[i] = old.journal[i]
    BY <1>2, <1>3
  <2>2. Elements(j) = Elements(old.journal) \cup {Event(kind, n)}
    <3>1. \A y \in Elements(j) : y \in Elements(old.journal) \cup {Event(kind, n)}
      BY <2>1 DEF Elements
    <3>2. \A y \in Elements(old.journal) : y \in Elements(j)
      BY <2>1 DEF Elements
    <3>3. Event(kind, n) \in Elements(j)
      BY <2>1 DEF Elements
    <3> QED  BY <3>1, <3>2, <3>3
  <2> QED  BY <1>2, <1>3, <2>1, <2>2
<1>5. x \in Exec /\ x.turn = old.turn /\ x.sends = old.sends /\ x.journal = j /\ x.state = state
  BY <1>1, <1>4 DEF Exec
<1>6. \A m \in Messages : Event("delivered", m) = Event(kind, n) => kind = "delivered" /\ m = n
  BY DEF Event
<1> QED  BY <1>4, <1>5, <1>6 DEF Better

(* An execution starts, journals the delivery of its own message, asks, and *)
(* has an answer.                                                           *)
LEMMA JournalsKeep ==
    ASSUME Sound, NEW e \in DOMAIN execs,
           \/ ExecStarts(e) \/ ExecAsks(e) \/ ExecResolves(e)
           \/ /\ Alone /\ execs[e].state = "running"
              /\ \E m \in Messages : execs[e].turn.message = m /\ Journal(e, Event("delivered", m))
    PROVE  Sound'
<1>1. /\ UNCHANGED <<task, queue, shown, control, runs, web, updating, handle, view, waiting, steers, crashes, faults, scenario>>
      /\ agenda' = agenda
  BY DEF ExecStarts, ExecAsks, ExecResolves, Alone, product, memory, bounds
<1>2. execs[e] \in Exec /\ Better(execs[e], execs[e]) /\ execs \in Seq(Exec)
  BY ExecFacts DEF Sound, TypeOK
<1>3. PICK kind \in {"queued", "started", "delivered", "question", "resolved"}, n \in Messages \cup {None}, state \in {"queued", "running"} :
         /\ kind = "delivered" => execs[e].turn.message = n
         /\ execs' = [execs EXCEPT ![e] = [execs[e] EXCEPT !.state = state, !.journal = Append(execs[e].journal, Event(kind, n))]]
  <2>1. CASE ExecStarts(e)
    <3>1. execs' = [execs EXCEPT ![e] = [execs[e] EXCEPT !.state = "running", !.journal = Append(execs[e].journal, Event("started", None))]]
      BY <1>2, <2>1 DEF ExecStarts
    <3> QED  BY <3>1
  <2>2. ASSUME NEW kind \in {"queued", "started", "delivered", "question", "resolved"}, NEW n \in Messages \cup {None},
               execs[e].state = "running", Journal(e, Event(kind, n))
        PROVE  execs' = [execs EXCEPT ![e] = [execs[e] EXCEPT !.state = "running", !.journal = Append(execs[e].journal, Event(kind, n))]]
    <3>1. [execs[e] EXCEPT !.state = "running", !.journal = Append(execs[e].journal, Event(kind, n))]
            = [execs[e] EXCEPT !.journal = Append(execs[e].journal, Event(kind, n))]
      BY <1>2, <2>2 DEF Exec
    <3> QED  BY <1>2, <2>2, <3>1 DEF Journal
  <2>3. CASE ExecAsks(e)
    <3>1. execs' = [execs EXCEPT ![e] = [execs[e] EXCEPT !.state = "running", !.journal = Append(execs[e].journal, Event("question", None))]]
      BY <2>2, <2>3 DEF ExecAsks
    <3> QED  BY <3>1
  <2>4. CASE ExecResolves(e)
    <3>1. execs' = [execs EXCEPT ![e] = [execs[e] EXCEPT !.state = "running", !.journal = Append(execs[e].journal, Event("resolved", None))]]
      BY <2>2, <2>4 DEF ExecResolves
    <3> QED  BY <3>1
  <2>5. CASE /\ Alone /\ execs[e].state = "running"
             /\ \E m \in Messages : execs[e].turn.message = m /\ Journal(e, Event("delivered", m))
    <3>1. PICK m \in Messages : execs[e].turn.message = m /\ Journal(e, Event("delivered", m))
      BY <2>5
    <3>2. execs' = [execs EXCEPT ![e] = [execs[e] EXCEPT !.state = "running", !.journal = Append(execs[e].journal, Event("delivered", m))]]
      BY <2>2, <2>5, <3>1
    <3> QED  BY <3>1, <3>2
  <2> QED  BY <2>1, <2>3, <2>4, <2>5
<1>4. PICK x : x = [execs[e] EXCEPT !.state = state, !.journal = Append(execs[e].journal, Event(kind, n))]
  OBVIOUS
<1>5. Better(x, execs[e])
  BY <1>2, <1>3, <1>4, Journalled
<1> QED  BY <1>1, <1>3, <1>4, <1>5, ExecReplaced

(* A message that was sent into the turn is delivered or rejected.          *)
LEMMA SentKeep ==
    ASSUME Sound, NEW e \in DOMAIN execs, NEW n \in Messages, execs[e].sends[n] = "accepted",
           \/ ExecRejects(e, n)
           \/ /\ Alone /\ execs[e].state = "running"
              /\ execs' = [execs EXCEPT ![e].sends[n] = "delivered", ![e].journal = Append(@, Event("delivered", n))]
    PROVE  Sound'
<1>1. /\ UNCHANGED <<task, queue, shown, control, runs, web, updating, handle, view, waiting, steers, crashes, faults, scenario>>
      /\ agenda' = agenda
  BY DEF ExecRejects, Alone, product, memory, bounds
<1>2. execs[e] \in Exec /\ Better(execs[e], execs[e]) /\ execs \in Seq(Exec)
  BY ExecFacts DEF Sound, TypeOK
<1>3. ASSUME NEW x, NEW old, Better(old, old), old.sends[n] = "accepted", NEW receipt \in {"rejected", "delivered"},
             receipt = "delivered" => Event("delivered", n) \in Elements(old.journal),
             x = [old EXCEPT !.sends[n] = receipt]
      PROVE  Better(x, old)
  <2>1. old \in Exec
    BY <1>3 DEF Better
  <2>2. /\ x \in Exec /\ x.turn = old.turn /\ x.journal = old.journal /\ x.state = old.state
        /\ \A m \in Messages : x.sends[m] = IF m = n THEN receipt ELSE old.sends[m]
    BY <1>3, <2>1 DEF Exec, Receipt
  <2> QED  BY <1>3, <2>2 DEF Better
<1>4. CASE ExecRejects(e, n)
  <2>1. PICK x : x = [execs[e] EXCEPT !.sends[n] = "rejected"]
    OBVIOUS
  <2>2. Better(x, execs[e])
    BY <1>2, <1>3, <2>1
  <2>3. execs' = [execs EXCEPT ![e] = x]
    BY <1>2, <1>4, <2>1 DEF ExecRejects
  <2> QED  BY <1>1, <2>2, <2>3, ExecReplaced
<1>5. CASE /\ Alone /\ execs[e].state = "running"
           /\ execs' = [execs EXCEPT ![e].sends[n] = "delivered", ![e].journal = Append(@, Event("delivered", n))]
  <2>1. PICK j, old : j = Append(execs[e].journal, Event("delivered", n)) /\ old = [execs[e] EXCEPT !.state = "running", !.journal = j]
    OBVIOUS
  <2>2. Better(old, execs[e])
    BY <1>2, <2>1, Journalled
  <2>3. Better(old, old) /\ old.sends = execs[e].sends /\ old.journal = j
    <3>1. old.sends = execs[e].sends /\ old.journal = j
      BY <1>2, <2>1 DEF Exec
    <3>2. Len(old.journal) \in Nat
      BY <2>2 DEF Better, Exec
    <3> QED  BY <2>2, <3>1, <3>2 DEF Better
  <2>4. Event("delivered", n) \in Elements(old.journal)
    <3>1. execs[e].journal \in Seq([kind : {"queued", "started", "delivered", "question", "resolved"}, message : Messages \cup {None}])
      BY <1>2 DEF Exec
    <3>2. Event("delivered", n) \in [kind : {"queued", "started", "delivered", "question", "resolved"}, message : Messages \cup {None}]
      BY DEF Event
    <3>3. Len(j) \in DOMAIN j /\ j[Len(j)] = Event("delivered", n)
      BY <2>1, <3>1, <3>2
    <3> QED  BY <2>3, <3>3 DEF Elements
  <2>5. PICK x : x = [old EXCEPT !.sends[n] = "delivered"]
    OBVIOUS
  <2>6. Better(x, old)
    BY <1>3, <2>3, <2>4, <2>5
  <2>7. Better(x, execs[e])
    <3>1. \A y \in Exec : Len(y.journal) \in Nat
      BY DEF Exec
    <3>2. Len(x.journal) \in Nat /\ Len(old.journal) \in Nat /\ Len(execs[e].journal) \in Nat
      BY <1>2, <2>2, <2>6, <3>1 DEF Better
    <3> QED  BY <2>2, <2>6, <3>2 DEF Better
  <2>8. execs' = [execs EXCEPT ![e] = x]
    <3>1. x = [execs[e] EXCEPT !.sends[n] = "delivered", !.journal = j]
      BY <1>2, <1>5, <2>1, <2>5 DEF Exec
    <3> QED  BY <1>2, <1>5, <2>1, <3>1
  <2> QED  BY <1>1, <2>7, <2>8, ExecReplaced
<1> QED  BY <1>4, <1>5

(* An execution that ends leaves no receipt open.                           *)
LEMMA Ended ==
    ASSUME NEW old, Better(old, old), NEW outcome \in Outcomes, NEW x, x = End(old, outcome)
    PROVE  Better(x, old)
<1>1. old \in Exec /\ old.sends \in [Messages -> Receipt]
  BY DEF Better, Exec
<1> DEFINE f == [m \in Messages |-> IF old.sends[m] = "accepted" THEN "unknown" ELSE old.sends[m]]
<1>2. /\ f \in [Messages -> Receipt]
      /\ \A m \in Messages : f[m] = IF old.sends[m] = "accepted" THEN "unknown" ELSE old.sends[m]
  BY <1>1 DEF Receipt
<1>3. x = [old EXCEPT !.state = "ended", !.outcome = outcome, !.sends = f]
  BY DEF End
<1> HIDE DEF f
<1>4. x \in Exec /\ x.turn = old.turn /\ x.journal = old.journal /\ x.sends = f
  BY <1>1, <1>2, <1>3 DEF Exec
<1>5. Len(x.journal) \in Nat /\ Len(old.journal) = Len(x.journal)
  BY <1>1, <1>4 DEF Exec
<1> QED  BY <1>2, <1>4, <1>5 DEF Better

(* An interrupt marks an execution, or ends it before it starts.            *)
LEMMA InterruptedWell ==
    ASSUME NEW old, Better(old, old), NEW x, x = Interrupted(old)
    PROVE  Better(x, old)
<1>1. PICK asked : asked = [old EXCEPT !.stopped = TRUE]
  OBVIOUS
<1>2. old \in Exec
  BY DEF Better
<1>3. /\ asked \in Exec /\ asked.turn = old.turn /\ asked.journal = old.journal /\ asked.sends = old.sends
      /\ asked.state = old.state
  BY <1>1, <1>2 DEF Exec
<1>4. Better(asked, asked) /\ Better(asked, old)
  BY <1>3 DEF Better
<1>5. CASE old.state = "queued"
  <2>1. x = End(asked, "lost")
    BY <1>1, <1>5 DEF Interrupted
  <2>2. Better(x, asked)
    BY <1>4, <2>1, Ended DEF Outcomes
  <2> QED  BY <1>3, <2>2 DEF Better
<1>6. CASE old.state # "queued"
  BY <1>1, <1>4, <1>6 DEF Interrupted
<1> QED  BY <1>5, <1>6

(* Executions end.                                                          *)
LEMMA ExecEndsKeeps ==
    ASSUME Sound, NEW e \in DOMAIN execs, ExecEnds(e)
    PROVE  Sound'
<1>1. /\ UNCHANGED <<task, queue, shown, control, runs, web, updating, handle, view, waiting, steers, crashes, faults, scenario>>
      /\ agenda' = agenda
  BY DEF ExecEnds, Alone, product, memory, bounds
<1>2. Better(execs[e], execs[e])
  BY ExecFacts
<1>3. PICK outcome \in Outcomes : execs' = [execs EXCEPT ![e] = End(execs[e], outcome)]
  BY DEF ExecEnds, Outcomes
<1>4. PICK x : x = End(execs[e], outcome)
  OBVIOUS
<1>5. Better(x, execs[e])
  BY <1>2, <1>4, Ended
<1> QED  BY <1>1, <1>3, <1>4, <1>5, ExecReplaced

(* Every step of the executions.                                            *)
LEMMA ExecutionKeeps ==
    ASSUME Sound, Execution
    PROVE  Sound'
<1>1. PICK e \in DOMAIN execs :
        \/ ExecStarts(e) \/ ExecAsks(e) \/ ExecResolves(e) \/ ExecEnds(e)
        \/ \E m \in Messages : ExecDelivers(e, m) \/ ExecRejects(e, m)
  BY DEF Execution
<1>2. CASE ExecStarts(e) \/ ExecAsks(e) \/ ExecResolves(e)
  BY <1>2, JournalsKeep
<1>3. CASE ExecEnds(e)
  BY <1>3, ExecEndsKeeps
<1>4. ASSUME NEW m \in Messages, ExecDelivers(e, m) PROVE Sound'
  <2>1. CASE execs[e].turn.message = m /\ Journal(e, Event("delivered", m))
    BY <1>4, <2>1, JournalsKeep DEF ExecDelivers
  <2>2. CASE /\ execs[e].sends[m] = "accepted"
             /\ execs' = [execs EXCEPT ![e].sends[m] = "delivered", ![e].journal = Append(@, Event("delivered", m))]
    BY <1>4, <2>2, SentKeep DEF ExecDelivers
  <2> QED  BY <1>4, <2>1, <2>2 DEF ExecDelivers
<1>5. ASSUME NEW m \in Messages, ExecRejects(e, m) PROVE Sound'
  <2>1. execs[e].sends[m] = "accepted"
    BY <1>5 DEF ExecRejects
  <2> QED  BY <1>5, <2>1, SentKeep
<1> QED  BY <1>1, <1>2, <1>3, <1>4, <1>5

(* stop and cancel interrupt the execution of the turn, if there is one.    *)
LEMMA InterruptKeeps ==
    ASSUME Sound, Interrupt
    PROVE  Sound'
<1>1. /\ TodoOk /\ TypeOK /\ Doing("interrupt") /\ Then(<<>>) /\ web = "up" /\ agenda # <<>> /\ Now.op = "interrupt"
      /\ UNCHANGED <<task, queue, shown, control, runs, web, updating, handle, view, waiting, steers, crashes, faults, scenario>>
      /\ execs' = [execs EXCEPT ![handle] = Interrupted(execs[handle])]
  BY DEF Sound, Interrupt, Doing, Skip, product, bounds
<1>2. Made({}) /\ execs \in Seq(Exec)
  BY <1>1, MadeNone DEF TypeOK
<1>3. web = "up" /\ \E S \in {{}} : Made(S) /\ Now.op = "interrupt"
  BY <1>1, <1>2
<1>4. CASE handle \in DOMAIN execs
  <2>1. PICK e, x : e = handle /\ x = Interrupted(execs[handle])
    OBVIOUS
  <2>2. e \in DOMAIN execs /\ Better(execs[e], execs[e]) /\ x = Interrupted(execs[e])
    BY <1>4, <2>1, ExecFacts
  <2>3. Better(x, execs[e])
    BY <2>2, InterruptedWell
  <2>4. execs' = [execs EXCEPT ![e] = x]
    BY <1>1, <2>1
  <2> QED  BY <1>1, <1>3, <2>2, <2>3, <2>4, ExecReplaced
<1>5. CASE handle \notin DOMAIN execs
  <2>1. execs' = execs
    BY <1>1, <1>2, <1>5
  <2>2. \A y \in Exec : Len(y.journal) \in Nat
    BY DEF Exec
  <2>3. ASSUME NEW d \in DOMAIN execs PROVE GoesOn(d) /\ ExecOk(d)'
    <3>1. ExecOk(d) /\ execs'[d] = execs[d] /\ Len(execs[d].journal) \in Nat
      BY <1>2, <2>1, <2>2 DEF Sound
    <3> QED  BY <3>1 DEF GoesOn, ExecOk, Has, Given
  <2> QED  BY <1>1, <1>2, <1>3, <2>1, <2>3, ExecsGoOn
<1> QED  BY <1>4, <1>5

-----------------------------------------------------------------------------
(* The web dies and starts again.                                           *)

(* Maintenance refuses requests and touches nothing.                        *)
LEMMA MaintenanceKeeps ==
    ASSUME Sound, Maintenance
    PROVE  Sound'
<1>1. /\ UNCHANGED <<task, queue, shown, control, execs, runs, web, handle, view, waiting, steers, agenda, crashes, faults, scenario>>
      /\ updating' \in BOOLEAN /\ TypeOK /\ TodoOk
  BY DEF Maintenance, product, memory, bounds, Sound
<1>2. TypeOK' /\ Todo' = Todo
  BY <1>1 DEF TypeOK, Todo
<1>3. TodoOk'
  <2>1. ASSUME NEW x \in Todo PROVE TodoStepOk(x)'
    BY <1>1, <1>2 DEF TodoOk, TodoStepOk, StatusIs, Acknowledged, Has
  <2> QED  BY <1>1, <1>2, <2>1 DEF TodoOk
<1>4. \A i \in DOMAIN queue.messages : Calm(i)
  BY <1>1, Unmoved
<1>5. view'.exec # 0 => view'.cursor <= Len(execs[view'.exec].journal)
  BY <1>1 DEF Sound, RunsOk
<1> QED  BY <1>1, <1>2, <1>3, <1>4, <1>5, Quiet

(* The web dies: what it had not committed is gone, and so is everybody who *)
(* waited.                                                                  *)
LEMMA CrashKeeps ==
    ASSUME Sound, Crash
    PROVE  Sound'
<1>1. /\ UNCHANGED <<task, queue, shown, control, execs, runs, faults, scenario>> /\ TypeOK
      /\ handle' = 0 /\ view' = NoView /\ waiting' = {} /\ steers' = {} /\ agenda' = <<>> /\ web' = "down"
      /\ updating' = FALSE /\ crashes' \in 0..MaxCrashes
  <2>1. crashes \in Nat /\ MaxCrashes \in Nat
    BY TurnsAssumption DEF Sound, TypeOK
  <2> QED  BY <2>1 DEF Crash, product, Sound
<1>2. TypeOK'
  <2>1. /\ view' \in [exec : 0..Len(execs), cursor : Nat, baseline : Nat, listening : BOOLEAN]
        /\ handle' \in 0..Len(execs)
    BY <1>1 DEF TypeOK, NoView
  <2> QED  BY <1>1, <2>1 DEF TypeOK
<1>3. agenda' \in Seq(AgendaSteps) /\ Ordered(agenda') /\ Todo' = {}
  BY <1>1, FewOrdered, FewElements DEF Todo
<1>4. TodoOk'
  BY <1>1, <1>3 DEF TodoOk
<1>5. \A i \in DOMAIN queue.messages : Calm(i)
  BY <1>1, Unmoved
<1>6. view'.exec = 0
  BY <1>1 DEF NoView
<1> QED  BY <1>1, <1>2, <1>3, <1>4, <1>5, <1>6, Quiet

(* init throws.                                                             *)
LEMMA BootRefusedKeeps ==
    ASSUME Sound, BootRefused
    PROVE  Sound'
<1>1. /\ UNCHANGED <<task, queue, shown, control, execs, runs, updating, handle, view, waiting, steers, agenda, crashes, faults, scenario>>
      /\ web' = "refused" /\ web \in {"down", "refused"} /\ TypeOK /\ TodoOk
  BY DEF BootRefused, product, memory, bounds, Sound
<1>2. TypeOK' /\ agenda' = <<>>
  BY <1>1 DEF TypeOK, TodoOk
<1>3. agenda' \in Seq(AgendaSteps) /\ Ordered(agenda') /\ Todo' = {}
  BY <1>2, FewOrdered, FewElements DEF Todo
<1>4. TodoOk'
  BY <1>1, <1>3 DEF TodoOk
<1>5. \A i \in DOMAIN queue.messages : Calm(i)
  BY <1>1, Unmoved
<1>6. view'.exec # 0 => view'.cursor <= Len(execs[view'.exec].journal)
  BY <1>1 DEF Sound, RunsOk
<1> QED  BY <1>1, <1>2, <1>3, <1>4, <1>5, <1>6, Quiet

(* init: recover returns what never left and gives up what may have, and    *)
(* the execution of a task in flight is reattached.                         *)
LEMMA BootKeeps ==
    ASSUME Sound, Boot
    PROVE  Sound'
<1>1. PICK live \in BOOLEAN : live = Reattached
  BY DEF Reattached
<1>2. /\ TypeOK /\ TodoOk /\ QueueOk /\ queue \in Queue /\ web = "down" /\ web' = "up" /\ queue' = Recover(queue, live)
      /\ UNCHANGED <<task, shown, control, execs, runs, updating, waiting, steers, agenda, crashes, faults, scenario>>
  BY <1>1 DEF Sound, TypeOK, Boot, bounds
<1>3. agenda' = <<>> /\ waiting' = {} /\ steers' = {} /\ waiting = {} /\ steers = {} /\ agenda = <<>> /\ handle = 0
  BY <1>2 DEF TodoOk
<1>4. agenda' \in Seq(AgendaSteps) /\ Ordered(agenda') /\ Todo' = {} /\ Todo = {}
  BY <1>3, FewOrdered, FewElements DEF Todo
<1>5. /\ queue' \in Queue /\ queue'.run = (IF live THEN queue.run ELSE 0) /\ queue'.initial = queue.initial
      /\ queue'.started = queue.started /\ DOMAIN queue'.messages = DOMAIN queue.messages
      /\ \A i \in DOMAIN queue.messages :
           /\ Like(queue'.messages[i], queue.messages[i])
           /\ queue'.messages[i].status =
                IF queue.messages[i].status # "sending" THEN queue.messages[i].status
                ELSE IF ~live /\ ~queue.started /\ queue.messages[i].id = queue.initial THEN "queued" ELSE "unknown"
  BY <1>2, RecoverEffect
<1>6. execs \in Seq(Exec) /\ Len(execs) \in Nat
  BY <1>2 DEF TypeOK
<1>7. /\ handle' \in 0..Len(execs)
      /\ view' \in [exec : 0..Len(execs), cursor : Nat, baseline : Nat, listening : BOOLEAN]
      /\ view'.cursor = 0 \/ view' = view
  <2>1. CASE Reattached
    <3>1. handle' = Len(execs) /\ view' = [exec |-> Len(execs), cursor |-> 0, baseline |-> task.rawSeq, listening |-> TRUE]
      BY <2>1 DEF Boot, Watch
    <3>2. task.rawSeq \in Nat
      BY <1>2 DEF TypeOK
    <3> QED  BY <1>6, <3>1, <3>2
  <2>2. CASE ~Reattached
    BY <1>2, <2>2 DEF Boot, TypeOK
  <2> QED  BY <2>1, <2>2
<1>8. \A m \in Messages : ~Opened(m)' /\ ~Steering(m)' /\ ~Answering(m)'
  BY <1>3, <1>4 DEF Opened, Steering, Answering
<1>9. ASSUME NEW m \in Messages PROVE Moves(m)
  <2>1. /\ HandedTo(m)' => HandedTo(m)
        /\ Acknowledged(m) => Acknowledged(m)'
        /\ Ran(m)' => Ran(m)
    BY <1>2 DEF HandedTo, Given, Acknowledged, Has, Ran
  <2>2. \A v : Carried(m, v)' => Carried(m, v)
    BY <1>2, <1>3, <1>4 DEF Carried
  <2> QED  BY <1>8, <2>1, <2>2 DEF Moves
<1>10. ASSUME NEW i \in DOMAIN queue.messages PROVE Kept(i)
  <2> SUFFICES ASSUME NEW x, NEW y, x = queue.messages[i], y = queue'.messages[i]
               PROVE  /\ y.id = x.id
                      /\ y.status \in {"queued", "sending"} => x.status \in {"queued", "sending"}
                      /\ \/ Moves(x.id) /\ Follows(y, x) /\ y.mode = x.mode /\ y.version = x.version
                         \/ EntryOk(y)' /\ VersionOk(y)' /\ FirstOk(i)'
    BY DEF Kept
  <2>1. /\ Like(y, x)
        /\ y.status = IF x.status # "sending" THEN x.status
                      ELSE IF ~live /\ ~queue.started /\ x.id = queue.initial THEN "queued" ELSE "unknown"
    BY <1>5
  <2>2. x.id \in Messages /\ EntryOk(x) /\ (x.status # "queued" => x.held = FALSE) /\ queue.started \in BOOLEAN
    BY <1>2, EntryFacts, QueueFields
  <2>3. /\ y.id = x.id /\ y.mode = x.mode /\ y.version = x.version /\ y.held = x.held
        /\ ~Opened(x.id)' /\ ~Steering(x.id)' /\ ~Answering(x.id)' /\ Moves(x.id)
    BY <1>8, <1>9, <2>1, <2>2 DEF Like
  <2>4. CASE x.status # "sending"
    <3>1. y.status = x.status
      BY <2>1, <2>4
    <3>2. Follows(y, x)
      BY <1>5, <2>3, <3>1 DEF Follows
    <3> QED  BY <2>3, <3>1, <3>2
  <2>5. CASE x.status = "sending" /\ ~live /\ ~queue.started /\ x.id = queue.initial
    <3>1. ~HandedTo(x.id)
      BY <2>2, <2>5 DEF EntryOk
    <3>2. ~HandedTo(x.id)'
      BY <1>2, <3>1 DEF HandedTo, Given
    <3>3. y.status = "queued" /\ queue'.run = 0
      BY <1>5, <2>1, <2>5
    <3>4. EntryOk(y)' /\ VersionOk(y)' /\ FirstOk(i)'
      BY <2>3, <3>2, <3>3, Waits
    <3> QED  BY <2>3, <2>5, <3>4
  <2>6. CASE x.status = "sending" /\ ~(~live /\ ~queue.started /\ x.id = queue.initial)
    <3>1. y.status = "unknown"
      BY <2>1, <2>6
    <3>2. Follows(y, x)
      BY <2>2, <2>3, <2>6, <3>1 DEF Follows
    <3> QED  BY <2>3, <3>1, <3>2
  <2> QED  BY <2>4, <2>5, <2>6
<1>11. QueueOk'
  BY <1>2, <1>5, <1>9, <1>10, QueueKept
<1>12. TypeOK'
  <2>1. Distinct(queue) /\ \A i \in DOMAIN queue.messages : queue'.messages[i].id = queue.messages[i].id
    BY <1>2, <1>5 DEF TypeOK, Distinct, Like
  <2>2. Distinct(queue')
    BY <1>5, <2>1, StillDistinct
  <2> QED  BY <1>2, <1>5, <1>7, <2>2 DEF TypeOK, Distinct
<1>13. TodoOk'
  BY <1>2, <1>4, TodoBegins
<1>14. SteersOk'
  BY <1>3 DEF SteersOk
<1>15. RunsOk'
  <2>1. runs \in Nat /\ RunsOk
    BY <1>2, TurnsAssumption DEF Sound, TypeOK
  <2>2. view'.exec # 0 => view'.cursor <= Len(execs[view'.exec].journal)
    <3>1. CASE view' = view
      BY <2>1, <3>1 DEF RunsOk
    <3>2. CASE view'.cursor = 0
      <4>1. \A y \in Exec : Len(y.journal) \in Nat
        BY DEF Exec
      <4>2. view'.exec # 0 => execs[view'.exec] \in Exec
        BY <1>6, <1>7
      <4> QED  BY <3>2, <4>1, <4>2
    <3> QED  BY <1>7, <3>1, <3>2
  <2>3. queue'.run <= runs /\ (task'.status = "none" => runs' = 0)
    BY <1>2, <1>5, <2>1 DEF RunsOk
  <2> QED  BY <1>2, <1>3, <2>2, <2>3 DEF RunsOk
<1> QED  BY <1>2, <1>11, <1>12, <1>13, <1>14, <1>15, Assembled

-----------------------------------------------------------------------------
(* The journal of an execution reaches the product.                         *)

(* The row of the task after an entry.                                      *)
LEMMA TaskAfterRow ==
    ASSUME NEW event, task \in [status : Status, pending : BOOLEAN, rawSeq : Nat, worktree : BOOLEAN],
           NEW row, row = TaskAfter(event)
    PROVE  /\ row \in [status : Status, pending : BOOLEAN, rawSeq : Nat, worktree : BOOLEAN]
           /\ row.status = "none" => task.status = "none"
<1>1. row \in {Transition("queued"), Transition("running"),
               [task EXCEPT !.pending = TRUE, !.status = IF @ = "running" THEN "awaiting_input" ELSE @],
               ResolveInput(task), task}
  BY DEF TaskAfter
<1>2. CASE row = Transition("queued") \/ row = Transition("running")
  BY <1>2 DEF Transition, Status
<1>3. CASE row = [task EXCEPT !.pending = TRUE, !.status = IF @ = "running" THEN "awaiting_input" ELSE @]
  BY <1>3 DEF Status
<1>4. CASE row = ResolveInput(task)
  BY <1>4 DEF ResolveInput, Status
<1>5. CASE row = task
  BY <1>5
<1> QED  BY <1>1, <1>2, <1>3, <1>4, <1>5

(* onRaw: only a delivery that an execution has journalled is shown.        *)
LEMMA ProjectKeeps ==
    ASSUME Sound, Project
    PROVE  Sound'
<1>1. /\ TypeOK /\ TodoOk /\ QueueOk /\ RunsOk /\ queue \in Queue /\ Idle /\ agenda = <<>> /\ web' = "up"
      /\ UNCHANGED <<shown, control, execs, runs, web, updating, handle, waiting, steers, crashes, faults, scenario>>
      /\ view' = [view EXCEPT !.cursor = view.cursor + 1] /\ view.exec # 0 /\ ~CaughtUp
  BY DEF Sound, TypeOK, Project, bounds, Idle
<1>2. PICK e, k : e = view.exec /\ k = view.cursor
  OBVIOUS
<1>3. /\ execs \in Seq(Exec) /\ e \in DOMAIN execs /\ k \in Nat
      /\ view \in [exec : 0..Len(execs), cursor : Nat, baseline : Nat, listening : BOOLEAN]
  BY <1>1, <1>2 DEF TypeOK
<1>4. execs[e] \in Exec
  BY <1>3
<1>5. execs[e].journal \in Seq([kind : {"queued", "started", "delivered", "question", "resolved"}, message : Messages \cup {None}])
  BY <1>4 DEF Exec
<1>6. k + 1 \in DOMAIN execs[e].journal /\ k + 1 <= Len(execs[e].journal)
  <2>1. k <= Len(execs[e].journal) /\ k # Len(execs[e].journal) /\ Len(execs[e].journal) \in Nat
    BY <1>1, <1>2, <1>5 DEF RunsOk, CaughtUp
  <2> QED  BY <1>3, <1>5, <2>1
<1>7. /\ view' \in [exec : 0..Len(execs), cursor : Nat, baseline : Nat, listening : BOOLEAN]
      /\ view'.exec = e /\ view'.cursor = k + 1
  BY <1>1, <1>2, <1>3
<1>8. PICK entry : entry = execs[e].journal[k + 1]
  OBVIOUS
<1>9. /\ entry \in [kind : {"queued", "started", "delivered", "question", "resolved"}, message : Messages \cup {None}]
      /\ entry \in Elements(execs[e].journal)
  <2>1. entry \in Elements(execs[e].journal)
    BY <1>6, <1>8 DEF Elements
  <2>2. ASSUME NEW S, NEW s \in Seq(S), NEW i \in DOMAIN s PROVE s[i] \in S
    BY <2>2
  <2> QED  BY <1>5, <1>6, <1>8, <2>1, <2>2
<1>10. CASE Suppressed
  <2>1. UNCHANGED <<task, queue, agenda>>
    BY <1>10 DEF Project
  <2>2. agenda' \in Seq(AgendaSteps) /\ Ordered(agenda') /\ Todo' = {}
    BY <1>1, <2>1, Begun
  <2>3. TypeOK' /\ TodoOk'
    BY <1>1, <1>7, <2>1, <2>2, TodoBegins DEF TypeOK
  <2>4. \A i \in DOMAIN queue.messages : Calm(i)
    BY <2>1, Unmoved
  <2> QED  BY <1>1, <1>6, <1>7, <2>1, <2>2, <2>3, <2>4, Quiet
<1>11. CASE ~Suppressed
  <2>1. /\ task' = TaskAfter(entry)
        /\ queue' = IF entry.kind = "delivered" THEN Delivered(queue, entry.message) ELSE queue
        /\ agenda' = <<[op |-> "append", exec |-> e, seq |-> k + 1]>>
    BY <1>2, <1>8, <1>11 DEF Project, NextEntry
  <2>2. /\ task' \in [status : Status, pending : BOOLEAN, rawSeq : Nat, worktree : BOOLEAN]
        /\ task'.status = "none" => task.status = "none"
    BY <1>1, <2>1, TaskAfterRow DEF TypeOK
  <2>3. PICK a : a = [op |-> "append", exec |-> e, seq |-> k + 1]
    OBVIOUS
  <2>4. a \in AgendaSteps /\ a.op = "append" /\ Ticketless(a)
    BY <1>3, <2>3 DEF AgendaSteps, Ticketless
  <2>5. agenda' \in Seq(AgendaSteps) /\ Ordered(agenda') /\ Todo' = {a}
    BY <1>1, <2>1, <2>3, <2>4, Begun
  <2>6. TodoStepOk(a)'
    BY <2>4 DEF TodoStepOk
  <2>7. TodoOk'
    BY <1>1, <2>5, <2>6, TodoBegins
  <2>8. /\ queue' \in Queue /\ queue'.run = queue.run /\ queue'.initial = queue.initial /\ queue'.started = queue.started
        /\ DOMAIN queue'.messages = DOMAIN queue.messages
        /\ \A i \in DOMAIN queue.messages : Calm(i)
    <3>1. CASE entry.kind # "delivered"
      <4>1. queue' = queue
        BY <2>1, <3>1
      <4> QED  BY <1>1, <4>1, Unmoved
    <3>2. CASE entry.kind = "delivered"
      <4>1. PICK n : n = entry.message
        OBVIOUS
      <4>2. /\ queue' \in Queue /\ queue'.run = queue.run /\ queue'.initial = queue.initial /\ queue'.started = queue.started
            /\ DOMAIN queue'.messages = DOMAIN queue.messages
            /\ \A i \in DOMAIN queue.messages :
                 /\ Like(queue'.messages[i], queue.messages[i])
                 /\ queue'.messages[i].status =
                      IF queue.messages[i].id = n /\ queue.messages[i].status \in {"sending", "unknown"}
                      THEN "delivered" ELSE queue.messages[i].status
        BY <1>1, <2>1, <3>2, <4>1, DeliveredEffect
      <4>3. entry = Event("delivered", n)
        BY <1>9, <3>2, <4>1 DEF Event
      <4>4. ASSUME n \in Messages PROVE Acknowledged(n)' /\ HandedTo(n)
        <5>1. Has(e, Event("delivered", n)) /\ ExecOk(e)
          BY <1>3, <1>9, <4>3 DEF Has, Sound
        <5> QED  BY <1>1, <1>3, <4>4, <5>1 DEF Acknowledged, Has, HandedTo, ExecOk
      <4>5. ASSUME NEW i \in DOMAIN queue.messages PROVE Calm(i)
        <5> SUFFICES ASSUME NEW x, NEW y, x = queue.messages[i], y = queue'.messages[i]
                     PROVE  /\ Like(y, x)
                            /\ \/ y.status = x.status
                               \/ /\ y.status \in {"unknown", "rejected", "cancelled", "delivered"} /\ x.held = FALSE
                                  /\ y.status = "delivered" => Acknowledged(x.id)'
                                  /\ ~Opened(x.id)'
                                  /\ handle' = 0 \/ ~Steering(x.id) \/ x.status # "sending"
          BY DEF Calm
        <5>1. Like(y, x) /\ y.status = IF x.id = n /\ x.status \in {"sending", "unknown"} THEN "delivered" ELSE x.status
          BY <4>2
        <5>2. x.id \in Messages /\ EntryOk(x) /\ (x.status # "queued" => x.held = FALSE)
          BY EntryFacts
        <5>3. CASE x.id = n /\ x.status \in {"sending", "unknown"}
          <6>1. Acknowledged(x.id)' /\ HandedTo(x.id) /\ x.held = FALSE
            BY <4>4, <5>2, <5>3
          <6>2. ~Opened(x.id) /\ ~Steering(x.id)
            BY <5>2, <6>1 DEF EntryOk
          <6>3. ~Opened(x.id)'
            BY <1>1, <2>4, <2>5, <4>2, <5>2, <6>2, NotReopened
          <6> QED  BY <5>1, <5>3, <6>1, <6>2, <6>3
        <5>4. CASE ~(x.id = n /\ x.status \in {"sending", "unknown"})
          BY <5>1, <5>4
        <5> QED  BY <5>3, <5>4
      <4> QED  BY <4>2, <4>5
    <3> QED  BY <3>1, <3>2
  <2>9. TypeOK'
    <3>1. \A i \in DOMAIN queue.messages : queue'.messages[i].id = queue.messages[i].id
      BY <2>8 DEF Calm, Like
    <3>0. Distinct(queue)
      BY <1>1 DEF TypeOK, Distinct
    <3>2. Distinct(queue')
      BY <2>8, <3>0, <3>1, StillDistinct
    <3> QED  BY <1>1, <1>7, <2>2, <2>8, <3>2 DEF TypeOK, Distinct
  <2> QED  BY <1>1, <1>6, <1>7, <2>2, <2>4, <2>5, <2>7, <2>8, <2>9, Quiet
<1> QED  BY <1>10, <1>11

-----------------------------------------------------------------------------
(* A turn ends.                                                             *)

(* A commit with the late answers behind it.                                *)
LEMMA AnswersBehind ==
    ASSUME NEW a \in AgendaSteps, a.op \in BeforeAnswers, NEW s \in Seq(AgendaSteps),
           \A i \in DOMAIN s : s[i].op = "answer", NEW new, new = <<a>> \o s
    PROVE  new \in Seq(AgendaSteps) /\ Ordered(new) /\ Elements(new) = {a} \cup Elements(s)
<1>1. /\ new \in Seq(AgendaSteps) /\ Len(s) \in Nat /\ Len(new) = Len(s) + 1 /\ DOMAIN s = 1..Len(s)
      /\ DOMAIN new = 1..(Len(s) + 1) /\ new[1] = a
      /\ \A i \in 1..Len(s) : new[i + 1] = s[i]
  OBVIOUS
<1>2. ASSUME NEW j \in DOMAIN new, j > 1 PROVE j - 1 \in DOMAIN s /\ new[j] = s[j - 1] /\ new[j].op = "answer"
  <2>1. j - 1 \in 1..Len(s) /\ (j - 1) + 1 = j
    BY <1>1, <1>2
  <2>2. new[j] = s[j - 1]
    BY <1>1, <2>1
  <2> QED  BY <1>1, <2>1, <2>2
<1>3. Ordered(new)
  <2> SUFFICES ASSUME NEW i \in DOMAIN new, NEW j \in DOMAIN new, i < j PROVE Behind(new[i].op, new[j].op)
    BY DEF Ordered
  <2>1. j > 1 /\ (i = 1 \/ i > 1)
    BY <1>1
  <2>2. new[j].op = "answer"
    BY <1>2, <2>1
  <2>3. new[i].op \in BeforeAnswers
    BY <1>1, <1>2, <2>1 DEF BeforeAnswers
  <2> QED  BY <2>2, <2>3 DEF Behind
<1>4. Elements(new) = {a} \cup Elements(s)
  <2>1. ASSUME NEW x \in Elements(new) PROVE x \in {a} \cup Elements(s)
    <3>1. PICK j \in DOMAIN new : x = new[j]
      BY DEF Elements
    <3>2. j = 1 \/ j > 1
      BY <1>1
    <3> QED  BY <1>1, <1>2, <3>1, <3>2 DEF Elements
  <2>2. ASSUME NEW x \in Elements(s) PROVE x \in Elements(new)
    <3>1. PICK i \in DOMAIN s : x = s[i]
      BY DEF Elements
    <3>2. i + 1 \in DOMAIN new /\ new[i + 1] = x
      BY <1>1, <3>1
    <3> QED  BY <3>2 DEF Elements
  <2>3. a \in Elements(new)
    BY <1>1 DEF Elements
  <2> QED  BY <2>1, <2>2, <2>3
<1> QED  BY <1>1, <1>3, <1>4

(* There are finitely many late answers.                                    *)
LEMMA LateFinite ==
    ASSUME IsFiniteSet(steers), NEW e
    PROVE  Cardinality(Late(e)) \in Nat
<1>1. IsFiniteSet(SentOn(e))
  <2>1. SentOn(e) \in SUBSET steers
    BY DEF SentOn
  <2> QED  BY <2>1, FS_Subset
<1> DEFINE f == [s \in SentOn(e) |-> Answer(s.message, execs[e].sends[s.message])]
<1>2. f \in Surjection(SentOn(e), Late(e))
  <2>1. f \in [SentOn(e) -> Late(e)] /\ \A t \in Late(e) : \E s \in SentOn(e) : f[s] = t
    BY DEF Late
  <2> QED  BY <2>1 DEF Surjection
<1> HIDE DEF f
<1>3. IsFiniteSet(Late(e))
  BY <1>1, <1>2, FS_Surjection
<1> QED  BY <1>3, FS_CardinalityType

(* finishTurn: the turn is over, and the receipts that are still awaited    *)
(* are answered with what the execution has of them.                        *)
LEMMA TurnEndsKeeps ==
    ASSUME Sound, IsFiniteSet(steers), TurnEnds
    PROVE  Sound'
<1>1. /\ TypeOK /\ TodoOk /\ QueueOk /\ RunsOk /\ SteersOk /\ queue \in Queue /\ Idle /\ agenda = <<>> /\ web' = "up"
      /\ UNCHANGED <<queue, shown, control, execs, runs, web, updating, waiting, crashes, faults, scenario>>
      /\ handle' = 0 /\ view' = NoView /\ steers' = steers \ SentOn(view.exec) /\ task' = [task EXCEPT !.pending = FALSE]
      /\ CaughtUp /\ execs[view.exec].state = "ended"
  BY DEF Sound, TypeOK, TurnEnds, bounds, Idle
<1>2. PICK e : e = view.exec
  OBVIOUS
<1>3. execs \in Seq(Exec) /\ e \in DOMAIN execs /\ execs[e].state = "ended" /\ Todo = {}
  BY <1>1, <1>2, Begun DEF TypeOK, CaughtUp
<1>4. execs[e] \in Exec /\ ExecOk(e)
  BY <1>3 DEF Sound
<1>5. PICK answers \in [1..Cardinality(Late(e)) -> Late(e)] :
        /\ {answers[i] : i \in DOMAIN answers} = Late(e)
        /\ agenda' = <<[op |-> "control", stopped |-> control.stopping, restarted |-> control.restart,
                        outcome |-> execs[e].outcome]>> \o answers
  BY <1>2 DEF TurnEnds
<1>6. ASSUME NEW a \in Late(e)
      PROVE  /\ a \in AgendaSteps /\ a.op = "answer" /\ HandedTo(a.message)
             /\ a.result = "delivered" => Acknowledged(a.message)
  <2>1. PICK s \in SentOn(e) : a = Answer(s.message, execs[e].sends[s.message])
    BY DEF Late
  <2>2. s \in steers /\ s.phase = "sent" /\ s.exec = e
    BY DEF SentOn
  <2>3. PICK n, result : n = s.message /\ result = execs[e].sends[n]
    OBVIOUS
  <2>4. n \in Messages
    BY <1>1, <2>2, <2>3 DEF TypeOK
  <2>5. result \in Receipt
    <3>1. execs[e].sends \in [Messages -> Receipt]
      BY <1>4 DEF Exec
    <3> QED  BY <2>3, <2>4, <3>1
  <2>6. result # "none" /\ result # "accepted"
    BY <1>1, <1>3, <1>4, <2>2, <2>3, <2>4 DEF SteersOk, ExecOk
  <2>7. result \in Results
    BY <2>5, <2>6 DEF Receipt, Results
  <2>8. a \in AgendaSteps /\ a.op = "answer" /\ a.message = n /\ a.result = result
    BY <2>1, <2>3, <2>4, <2>7, Answers
  <2>9. HandedTo(n) /\ (result = "delivered" => Acknowledged(n))
    BY <1>3, <1>4, <2>3, <2>4, <2>6 DEF HandedTo, Given, Acknowledged, ExecOk
  <2> QED  BY <2>8, <2>9
<1>7. answers \in Seq(AgendaSteps) /\ (\A i \in DOMAIN answers : answers[i].op = "answer") /\ Elements(answers) = Late(e)
  <2>1. Cardinality(Late(e)) \in Nat
    BY LateFinite
  <2>2. \A i \in 1..Cardinality(Late(e)) : answers[i] \in AgendaSteps /\ answers[i].op = "answer"
    BY <1>6
  <2>3. DOMAIN answers = 1..Cardinality(Late(e))
    OBVIOUS
  <2>4. answers \in [1..Cardinality(Late(e)) -> AgendaSteps]
    BY <2>2
  <2>5. answers \in Seq(AgendaSteps)
    BY <2>1, <2>4
  <2> QED  BY <1>5, <2>2, <2>3, <2>5 DEF Elements
<1>8. PICK c : c = [op |-> "control", stopped |-> control.stopping, restarted |-> control.restart, outcome |-> execs[e].outcome]
  OBVIOUS
<1>9. c \in AgendaSteps /\ c.op = "control"
  <2>1. control.stopping \in BOOLEAN /\ control.restart \in BOOLEAN
    BY <1>1 DEF TypeOK
  <2>2. execs[e].outcome \in Outcomes \cup {"none"}
    BY <1>4 DEF Exec
  <2>3. c \in [op : Ends, stopped : BOOLEAN, restarted : BOOLEAN, outcome : Outcomes \cup {"none"}]
    BY <1>8, <2>1, <2>2 DEF Ends
  <2> QED  BY <1>8, <2>3 DEF AgendaSteps
<1>10. agenda' \in Seq(AgendaSteps) /\ Ordered(agenda') /\ Todo' = {c} \cup Late(e)
  <2>1. c.op \in BeforeAnswers
    BY <1>9 DEF BeforeAnswers
  <2>2. agenda' = <<c>> \o answers
    BY <1>5, <1>8
  <2> QED  BY <1>7, <1>9, <2>1, <2>2, AnswersBehind DEF Todo
<1>11. \A m : Acknowledged(m) => Acknowledged(m)'
  BY <1>1 DEF Acknowledged, Has
<1>12. TodoOk'
  <2>1. TodoStepOk(c)'
    BY <1>1, <1>9 DEF TodoStepOk
  <2>2. ASSUME NEW a \in Late(e) PROVE TodoStepOk(a)'
    BY <1>6, <1>11 DEF TodoStepOk
  <2> QED  BY <1>1, <1>10, <2>1, <2>2, TodoBegins
<1>13. TypeOK'
  <2>1. /\ view' \in [exec : 0..Len(execs), cursor : Nat, baseline : Nat, listening : BOOLEAN]
        /\ handle' \in 0..Len(execs)
    BY <1>1 DEF TypeOK, NoView
  <2>2. task' \in [status : Status, pending : BOOLEAN, rawSeq : Nat, worktree : BOOLEAN]
    BY <1>1 DEF TypeOK
  <2> QED  BY <1>1, <2>1, <2>2 DEF TypeOK
<1>14. ASSUME NEW m \in Messages PROVE Moves(m)
  <2>1. Opened(m)' => Opened(m)
    BY <1>1, <1>6, <1>9, <1>10 DEF Opened, Carries, AwaitsSkills
  <2>2. Steering(m)' => Steering(m)
    BY <1>1, <1>6, <1>9, <1>10 DEF Steering
  <2>3. Answering(m)' => HandedTo(m)
    BY <1>6, <1>9, <1>10 DEF Answering
  <2>4. /\ HandedTo(m)' => HandedTo(m)
        /\ Ran(m)' => Ran(m)
    BY <1>1 DEF HandedTo, Given, Ran
  <2>5. \A v : Carried(m, v)' => Carried(m, v)
    BY <1>1, <1>6, <1>9, <1>10 DEF Carried, AwaitsSkills
  <2> QED  BY <1>11, <2>1, <2>2, <2>3, <2>4, <2>5 DEF Moves
<1>15. QueueOk'
  <2>1. None \notin Messages /\ \A i \in DOMAIN queue.messages : queue.messages[i].id \in Messages
    BY EntryFacts, QueueAssumption
  <2> QED  BY <1>1, <1>14, <2>1, QueueSame
<1>16. SteersOk'
  BY <1>1, <1>13, SteersDropped
<1>17. RunsOk'
  <2>1. task'.status = task.status /\ view'.exec = 0
    BY <1>1 DEF TypeOK, NoView
  <2> QED  BY <1>1, <2>1 DEF RunsOk
<1> QED  BY <1>1, <1>12, <1>13, <1>15, <1>16, <1>17, Assembled

-----------------------------------------------------------------------------
(* The invariant holds.                                                     *)

(* Steers are added one at a time.                                          *)
LEMMA SteersFinite ==
    ASSUME IsFiniteSet(steers), Next
    PROVE  IsFiniteSet(steers')
<1>1. steers' \subseteq steers \/ \E s : steers' = steers \cup {s}
  <2>1. CASE UserRequest
    BY <2>1 DEF UserRequest, CreateTask, SubmitMessage, Promote, DeleteMessage, HoldLapses, EditMessage, SaveMessage,
                ReleaseMessage, Resume, Stop, Cancel, Archive, Followup, Maintenance, LegacySteer, Compact, Change, Request, memory
  <2>2. CASE Steer
    BY <2>2 DEF Steer
  <2>3. CASE HandOver
    BY <2>3 DEF HandOver
  <2>4. CASE Step /\ ~Steer /\ ~HandOver
    BY <2>4 DEF Step, Pump, SendMessageNow, Start, Begin, Park, ResetCursor, SetRunning, ArmRuntime, Reserve,
                ReserveThrows, SetFailed, FinishFailed, Reject, SetStopping, Dequeue, StopParked, Interrupt, DropSteer,
                SetCancelled, SetArchived, Cleanup, SetRestart, InterruptSteered, Answered, AppendEvent, ClearControl,
                SettleCancelled, SettleStopped, Settle, Chain, CommitTask, CommitQueue, CommitControl, Skip
  <2>5. CASE StartThrows \/ AdmitThrows \/ Timer \/ Project \/ TurnEnds \/ Crash \/ Boot \/ BootRefused
    BY <2>5 DEF StartThrows, AdmitThrows, Timer, Request, Project, TurnEnds, Crash, Boot, BootRefused, memory
  <2>6. CASE Await
    BY <2>6 DEF Await, SkillsResolve, SkillsFail, SteerResolves, ReceiptArrives, SendTimesOut
  <2>7. CASE Execution
    BY <2>7 DEF Execution, ExecStarts, ExecAsks, ExecResolves, ExecEnds, ExecDelivers, ExecRejects, Alone, memory
  <2> QED  BY <2>1, <2>2, <2>3, <2>4, <2>5, <2>6, <2>7 DEF Next
<1> QED  BY <1>1, FS_Subset, FS_AddElement

(* At first there is nothing.                                               *)
LEMMA InitSound ==
    ASSUME Init
    PROVE  Sound /\ IsFiniteSet(steers)
<1>1. /\ queue.messages = <<>> /\ queue.initial = None /\ queue.run = 0 /\ queue.started = FALSE /\ queue \in Queue
  BY DEF Init, EmptyQueue, NoCompaction, Queue, Compaction
<1>2. agenda \in Seq(AgendaSteps) /\ Ordered(agenda) /\ Todo = {}
  BY FewElements, FewOrdered DEF Init, Todo
<1>3. execs = <<>> /\ waiting = {} /\ steers = {} /\ handle = 0 /\ runs = 0 /\ web = "up"
  BY DEF Init
<1>4. TypeOK
  <2>1. /\ task \in [status : Status, pending : BOOLEAN, rawSeq : Nat, worktree : BOOLEAN]
        /\ control \in [stopping : BOOLEAN, steer : BOOLEAN, restart : BOOLEAN]
    BY DEF Init, Status
  <2>2. view \in [exec : 0..Len(execs), cursor : Nat, baseline : Nat, listening : BOOLEAN]
    BY <1>3 DEF Init, NoView
  <2>3. updating \in BOOLEAN /\ scenario \in Scenarios
    BY DEF Init
  <2>6. shown = <<>> /\ shown \in Seq(Nat \X Nat) /\ execs \in Seq(Exec)
    BY <1>3 DEF Init
  <2>7. handle \in 0..Len(execs)
    BY <1>3
  <2>4. runs \in 0..MaxRuns /\ crashes \in 0..MaxCrashes /\ faults \in 0..MaxFaults
    BY TurnsAssumption DEF Init
  <2>5. DOMAIN queue.messages = {}
    BY <1>1
  <2> QED  BY <1>1, <1>3, <2>1, <2>2, <2>3, <2>4, <2>5, <2>6, <2>7 DEF TypeOK
<1>5. TodoOk
  BY <1>2, <1>3 DEF TodoOk
<1>6. QueueOk
  <2>1. DOMAIN queue.messages = {} /\ DOMAIN execs = {}
    BY <1>1, <1>3
  <2> QED  BY <1>1, <1>2, <1>3, <2>1 DEF QueueOk, Opened, Steering, Answering, HandedTo
<1>7. SteersOk
  BY <1>3 DEF SteersOk
<1>8. RunsOk
  BY <1>1, <1>3 DEF RunsOk, Init, NoView
<1>9. DOMAIN execs = {} /\ IsFiniteSet(steers)
  BY <1>3, FS_EmptySet
<1> QED  BY <1>4, <1>5, <1>6, <1>7, <1>8, <1>9 DEF Sound, GivenOnce

(* Requests.                                                                *)
LEMMA UserRequestKeeps ==
    ASSUME Sound, UserRequest
    PROVE  Sound'
<1>1. CASE (\E skills \in BOOLEAN : CreateTask(skills /\ Asked("skills"))) \/ Followup \/ \E request \in Compactions : Compact(request)
  BY <1>1, TurnRequestsKeep
<1>2. ASSUME NEW m \in Messages,
             \/ \E mode \in {"send", "queue"} : SubmitMessage(m, mode)
             \/ Promote(m)
             \/ DeleteMessage(m)
             \/ HoldLapses(m)
             \/ \E token \in Editors : EditMessage(m, token) \/ SaveMessage(m, token) \/ ReleaseMessage(m, token)
      PROVE  Sound'
  BY <1>2, SubmitKeeps, PromoteKeeps, DeleteKeeps, EditsKeep
<1>3. CASE Stop \/ Cancel \/ Archive
  BY <1>3, PausingKeeps
<1>4. CASE Resume \/ Maintenance
  BY <1>4, ResumeKeeps, MaintenanceKeeps
<1>5. ASSUME NEW restart \in BOOLEAN, LegacySteer(restart) PROVE Sound'
  BY <1>5, LegacySteerKeeps
<1> QED  BY <1>1, <1>2, <1>3, <1>4, <1>5 DEF UserRequest

(* Commits.                                                                 *)
LEMMA StepKeeps ==
    ASSUME Sound, Step
    PROVE  Sound'
<1>1. CASE Pump \/ SendMessageNow \/ Start \/ Begin \/ Park \/ ResetCursor \/ ArmRuntime \/ Reserve \/ ReserveThrows
  BY <1>1, PumpKeeps, SendMessageNowKeeps, StartKeeps, BeginKeeps, ParkKeeps, ResetCursorKeeps, ArmRuntimeKeeps,
     ReserveKeeps, ReserveThrowsKeeps
<1>2. CASE SetRunning \/ SetFailed \/ Dequeue \/ SetArchived \/ Cleanup
  BY <1>2, TaskCommitsKeep
<1>3. CASE SetStopping \/ DropSteer \/ SetRestart \/ InterruptSteered
  BY <1>3, ControlCommitsKeep
<1>4. CASE FinishFailed \/ Reject \/ StopParked \/ Interrupt \/ SetCancelled
  BY <1>4, FinishFailedKeeps, RejectKeeps, StopParkedKeeps, InterruptKeeps, SetCancelledKeeps
<1>5. CASE Steer \/ HandOver \/ Answered \/ AppendEvent
  BY <1>5, SteerKeeps, HandOverKeeps, AnsweredKeeps, AppendEventKeeps
<1>6. CASE ClearControl \/ SettleCancelled \/ SettleStopped \/ Settle \/ Chain
  BY <1>6, ClearControlKeeps, SettleCancelledKeeps, SettleStoppedKeeps, SettleKeeps, ChainKeeps
<1> QED  BY <1>1, <1>2, <1>3, <1>4, <1>5, <1>6 DEF Step

(* Every step of the specification.                                         *)
LEMMA NextKeeps ==
    ASSUME Sound, IsFiniteSet(steers), Next
    PROVE  Sound'
<1>1. CASE UserRequest \/ Step
  BY <1>1, UserRequestKeeps, StepKeeps
<1>2. CASE StartThrows \/ AdmitThrows
  BY <1>2, StartThrowsKeeps, AdmitThrowsKeeps
<1>3. CASE Await
  BY <1>3, SkillsResolveKeeps, SkillsFailKeeps, SteerResolvesKeeps, ReceiptsKeep DEF Await
<1>4. CASE Timer \/ Project \/ TurnEnds
  BY <1>4, TurnRequestsKeep, ProjectKeeps, TurnEndsKeeps
<1>5. CASE Crash \/ Boot \/ BootRefused \/ Execution
  BY <1>5, CrashKeeps, BootKeeps, BootRefusedKeeps, ExecutionKeeps
<1> QED  BY <1>1, <1>2, <1>3, <1>4, <1>5 DEF Next

(* Nothing happens.                                                         *)
LEMMA StutterKeeps ==
    ASSUME Sound, UNCHANGED vars
    PROVE  Sound'
BY DEF Sound, vars, TypeOK, TodoOk, QueueOk, SteersOk, RunsOk, ExecOk, GivenOnce, TodoStepOk, EntryOk, VersionOk, FirstOk,
       Todo, StatusIs, Opened, Steering, Answering, HandedTo, Given, Acknowledged, Has, Carried, Ran, Carries, AwaitsSkills

(* The tickets agree with the queue and the commits of a request can be     *)
(* made, whatever is requested, fails or dies (MessageController and        *)
(* TaskService over the executions of the task).                            *)
THEOREM TurnsAreSound ==
    Spec => [](Sound /\ IsFiniteSet(steers))
<1>1. Init => Sound /\ IsFiniteSet(steers)
  BY InitSound
<1>2. Sound /\ IsFiniteSet(steers) /\ [Next]_vars => (Sound /\ IsFiniteSet(steers))'
  <2> SUFFICES ASSUME Sound, IsFiniteSet(steers), [Next]_vars PROVE (Sound /\ IsFiniteSet(steers))'
    OBVIOUS
  <2>1. CASE Next
    BY <2>1, NextKeeps, SteersFinite
  <2>2. CASE UNCHANGED vars
    <3>1. steers' = steers
      BY <2>2 DEF vars
    <3> QED  BY <2>2, <3>1, StutterKeeps
  <2> QED  BY <2>1, <2>2
<1> QED  BY <1>1, <1>2, PTL DEF Spec

-----------------------------------------------------------------------------
(* What follows for the properties.                                         *)

(* The entry of a message that has a ticket or an execution.                *)
LEMMA EntryOf ==
    ASSUME Sound, NEW m \in Ids(queue)
    PROVE  \E i \in DOMAIN queue.messages :
              /\ queue.messages[i].id = m /\ Entry(queue, m) = queue.messages[i]
              /\ StatusOf(queue, m) = queue.messages[i].status
              /\ EntryOk(queue.messages[i]) /\ VersionOk(queue.messages[i]) /\ FirstOk(i)
<1>1. Distinct(queue) /\ QueueOk
  BY DEF Sound, TypeOK, Distinct
<1>2. PICK i \in DOMAIN queue.messages : queue.messages[i].id = m
  BY IdAt
<1> QED  BY <1>1, <1>2, EntryAt DEF QueueOk

(* The state of the task is well typed at every commit.                     *)
THEOREM TypesHold ==
    Spec => []TypeOK
<1>1. Sound => TypeOK
  BY DEF Sound
<1> QED  BY <1>1, TurnsAreSound, PTL

(* A message reaches at most one execution, once: recover, stopWaiting,     *)
(* sendNow and pump never replay one that may have left.                    *)
THEOREM MessagesAreHandedOnce ==
    Spec => []HandedOnce
<1>1. Sound => HandedOnce
  <2> SUFFICES ASSUME Sound, NEW m \in Messages PROVE Handed(m) <= 1
    BY DEF HandedOnce
  <2> DEFINE T == {e \in DOMAIN execs : execs[e].turn.message = m}
             S == {e \in DOMAIN execs : execs[e].sends[m] # "none"}
  <2>1. GivenOnce(m)
    BY DEF Sound
  <2>2. \A d, e \in T \cup S : d = e
    BY <2>1 DEF GivenOnce, Given
  <2>3. \A e : ~(e \in T /\ e \in S)
    BY <2>1 DEF GivenOnce
  <2>4. Handed(m) = Cardinality(T) + Cardinality(S)
    BY DEF Handed
  <2> HIDE DEF T, S
  <2>5. (T = {} /\ S = {}) \/ (T = {} /\ \E e : S = {e}) \/ (S = {} /\ \E e : T = {e})
    <3>1. CASE T = {}
      BY <2>2, <3>1
    <3>2. ASSUME NEW t \in T PROVE S = {} /\ T = {t}
      BY <2>2, <2>3
    <3> QED  BY <3>1, <3>2
  <2>6. Cardinality({}) = 0 /\ \A e : Cardinality({e}) = 1
    BY FS_EmptySet, FS_Singleton
  <2> QED  BY <2>4, <2>5, <2>6
<1> QED  BY <1>1, TurnsAreSound, PTL

(* A message is shown as delivered only when an execution journalled its    *)
(* delivery (delivered, the continuation of steer, finish).                 *)
THEOREM DeliveriesAreAcknowledged ==
    Spec => []DeliveredIsAcknowledged
<1>1. Sound => DeliveredIsAcknowledged
  <2> SUFFICES ASSUME Sound, NEW m \in Messages, StatusOf(queue, m) = "delivered"
               PROVE  \E e \in DOMAIN execs : Has(e, Event("delivered", m))
    BY DEF DeliveredIsAcknowledged
  <2>1. m \in Ids(queue)
    BY DEF StatusOf
  <2>2. Acknowledged(m)
    BY <2>1, EntryOf DEF EntryOk
  <2> QED  BY <2>2 DEF Acknowledged
<1> QED  BY <1>1, TurnsAreSound, PTL

(* The text that ran is the text of the queue: neither a save after the     *)
(* message was taken nor a stopped turn makes an older one run.             *)
THEOREM TextsAreCurrent ==
    Spec => []HandedIsCurrent
<1>1. Sound => HandedIsCurrent
  <2> SUFFICES ASSUME Sound, NEW e \in DOMAIN execs, execs[e].turn.message # None
               PROVE  Entry(queue, execs[e].turn.message).version = execs[e].turn.version
    BY DEF HandedIsCurrent
  <2>1. PICK m, v : m = execs[e].turn.message /\ v = execs[e].turn.version
    OBVIOUS
  <2>2. m \in Messages /\ v \in 1..MaxVersion
    <3>1. execs \in Seq(Exec)
      BY DEF Sound, TypeOK
    <3>2. execs[e] \in Exec
      BY <3>1
    <3>3. execs[e].turn \in Turns
      BY <3>2 DEF Exec
    <3> QED  BY <2>1, <3>3 DEF Turns
  <2>3. HandedTo(m) /\ Carried(m, v)
    BY <2>1 DEF HandedTo, Given, Carried
  <2>4. m \in Ids(queue)
    BY <2>2, <2>3 DEF Sound, QueueOk
  <2>5. Entry(queue, m).version = v
    BY <2>2, <2>3, <2>4, EntryOf DEF VersionOk
  <2> QED  BY <2>1, <2>5
<1> QED  BY <1>1, TurnsAreSound, PTL

-----------------------------------------------------------------------------
(* What a step makes of the queue.                                          *)

(* An entry keeps its place, never becomes one from the queue, and waits as *)
(* long as it is held.                                                      *)
Steady(i) ==
    /\ i \in DOMAIN queue'.messages
    /\ \A x, y : (x = queue.messages[i] /\ y = queue'.messages[i]) =>
          /\ y.id = x.id
          /\ y.mode = "queue" => x.mode = "queue"
          /\ x.held = TRUE => y.status = "queued"

(* Entries that change in their status at most, and not while they are held.*)
LEMMA SteadyLike ==
    ASSUME Sound, NEW i \in DOMAIN queue.messages, i \in DOMAIN queue'.messages, NEW x, NEW y, x = queue.messages[i], y = queue'.messages[i],
           Like(y, x), x.status = "queued" => y.status = "queued" \/ x.held = FALSE
    PROVE  Steady(i)
<1>1. EntryOk(x)
  BY EntryFacts
<1> QED  BY <1>1 DEF EntryOk, Steady, Like

(* The entries stay as they are.                                            *)
LEMMA SteadySame ==
    ASSUME Sound, queue'.messages = queue.messages, NEW i \in DOMAIN queue.messages
    PROVE  Steady(i)
<1>1. PICK x, y : x = queue.messages[i] /\ y = queue'.messages[i]
  OBVIOUS
<1>2. i \in DOMAIN queue'.messages /\ y = x
  BY <1>1
<1> QED  BY <1>1, <1>2, SteadyLike DEF Like

(* Requests that change no entry.                                           *)
LEMMA RequestsPause ==
    ASSUME Sound,
           \/ \E skills \in BOOLEAN : CreateTask(skills /\ Asked("skills"))
           \/ Resume \/ Stop \/ Cancel \/ Archive \/ Followup \/ Maintenance \/ Timer
           \/ \E restart \in BOOLEAN : LegacySteer(restart)
           \/ \E request \in Compactions : Compact(request)
    PROVE  queue'.messages = queue.messages
<1>1. queue \in Queue
  BY DEF Sound, TypeOK
<1>2. queue' = queue \/ \E paused \in BOOLEAN : queue' = [queue EXCEPT !.paused = paused]
  BY DEF CreateTask, Resume, Change, Stop, Cancel, Archive, Paused, Followup, Maintenance, Timer, LegacySteer, Compact, product
<1> QED  BY <1>1, <1>2 DEF Queue

(* Steps that leave the queue alone.                                        *)
LEMMA QueueAlone ==
    ASSUME \/ Start \/ Park \/ ResetCursor \/ SetRunning \/ Reserve \/ ReserveThrows \/ AdmitThrows
           \/ SetFailed \/ SetStopping \/ Dequeue \/ Interrupt \/ DropSteer \/ SetCancelled \/ SetArchived
           \/ Cleanup \/ SetRestart \/ InterruptSteered \/ Steer \/ HandOver \/ AppendEvent
           \/ ClearControl \/ SettleStopped \/ Chain
           \/ Await \/ TurnEnds \/ Crash \/ BootRefused \/ Execution
    PROVE  queue' = queue
<1>1. CASE \/ Start \/ Park \/ ResetCursor \/ SetRunning \/ Reserve \/ ReserveThrows \/ AdmitThrows
           \/ SetFailed \/ SetStopping \/ Dequeue \/ Interrupt \/ DropSteer \/ SetCancelled \/ SetArchived
  BY <1>1 DEF Start, Park, ResetCursor, SetRunning, Reserve, ReserveThrows, AdmitThrows, SetFailed, SetStopping, Dequeue,
              Interrupt, DropSteer, SetCancelled, SetArchived, CommitTask, CommitControl, product
<1>2. CASE \/ Cleanup \/ SetRestart \/ InterruptSteered \/ Steer \/ HandOver \/ AppendEvent
           \/ ClearControl \/ SettleStopped \/ Chain
  BY <1>2 DEF Cleanup, SetRestart, InterruptSteered, Steer, HandOver, AppendEvent, ClearControl, SettleStopped, Chain,
              CommitTask, CommitControl, product
<1>3. CASE Await
  BY <1>3 DEF Await, SkillsResolve, SkillsFail, SteerResolves, ReceiptArrives, SendTimesOut, product
<1>4. CASE TurnEnds \/ Crash \/ BootRefused
  BY <1>4 DEF TurnEnds, Crash, BootRefused, product
<1>5. CASE Execution
  BY <1>5 DEF Execution, ExecStarts, ExecAsks, ExecResolves, ExecEnds, ExecDelivers, ExecRejects, Alone, product
<1> QED  BY <1>1, <1>2, <1>3, <1>4, <1>5

(* finish, rejectBeforeStart, stopWaiting, recover and delivered concern    *)
(* messages that are on their way.                                          *)
LEMMA EndsSteady ==
    ASSUME Sound, FinishFailed \/ SettleCancelled \/ Settle \/ Reject \/ StopParked \/ Boot \/ Project, NEW i \in DOMAIN queue.messages
    PROVE  Steady(i)
<1>1. queue \in Queue
  BY DEF Sound, TypeOK
<1>2. PICK x, y : x = queue.messages[i] /\ y = queue'.messages[i]
  OBVIOUS
<1>3. ASSUME NEW failed \in BOOLEAN, queue' = Finish(queue, failed) PROVE Steady(i)
  <2>1. i \in DOMAIN queue'.messages /\ Like(y, x) /\ y.status = IF x.status = "sending" THEN "unknown" ELSE x.status
    BY <1>1, <1>2, <1>3, FinishEffect
  <2> QED  BY <1>2, <2>1, SteadyLike
<1>4. CASE FinishFailed
  BY <1>3, <1>4 DEF FinishFailed, CommitQueue
<1>5. CASE SettleCancelled
  <2>1. CASE Compacting(queue)
    BY <1>3, <1>5, <2>1 DEF SettleCancelled
  <2>2. CASE ~Compacting(queue)
    BY <1>5, <2>2, SteadySame DEF SettleCancelled
  <2> QED  BY <2>1, <2>2
<1>6. CASE Settle
  <2>1. queue' = Finish(queue, TurnFailed(Now)) /\ TurnFailed(Now) \in BOOLEAN
    BY <1>6 DEF Settle, TurnFailed
  <2> QED  BY <1>3, <2>1
<1>7. CASE Reject
  <2>1. queue' = RejectBeforeStart(queue) /\ queue.started \in BOOLEAN
    BY <1>1, <1>7, QueueFields DEF Reject, CommitQueue
  <2>2. CASE queue.started = TRUE
    <3>1. queue' = queue
      BY <2>1, <2>2 DEF RejectBeforeStart
    <3> QED  BY <3>1, SteadySame
  <2>3. CASE queue.started = FALSE
    <3>1. i \in DOMAIN queue'.messages /\ Like(y, x) /\ y.status = IF x.status = "sending" THEN "rejected" ELSE x.status
      BY <1>1, <1>2, <2>1, <2>3, RejectEffect
    <3> QED  BY <1>2, <3>1, SteadyLike
  <2> QED  BY <2>1, <2>2, <2>3
<1>8. CASE StopParked
  <2>1. queue' = StopWaiting(queue)
    BY <1>8 DEF StopParked, CommitQueue
  <2>2. /\ i \in DOMAIN queue'.messages /\ Like(y, x)
        /\ y.status = IF ~queue.started /\ x.id = queue.initial /\ x.status = "sending" THEN "queued" ELSE x.status
    BY <1>1, <1>2, <2>1, StopEffect
  <2> QED  BY <1>2, <2>2, SteadyLike
<1>9. CASE Boot
  <2>1. PICK live \in BOOLEAN : live = Reattached
    BY DEF Reattached
  <2>2. queue' = Recover(queue, live)
    BY <1>9, <2>1 DEF Boot
  <2>3. /\ i \in DOMAIN queue'.messages /\ Like(y, x)
        /\ y.status = IF x.status # "sending" THEN x.status
                      ELSE IF ~live /\ ~queue.started /\ x.id = queue.initial THEN "queued" ELSE "unknown"
    BY <1>1, <1>2, <2>2, RecoverEffect
  <2> QED  BY <1>2, <2>3, SteadyLike
<1>10. CASE Project
  <2>1. queue' = queue \/ queue' = Delivered(queue, NextEntry.message)
    BY <1>10 DEF Project
  <2>2. CASE queue' = queue
    BY <2>2, SteadySame
  <2>3. CASE queue' = Delivered(queue, NextEntry.message)
    <3>1. PICK n : n = NextEntry.message
      OBVIOUS
    <3>2. /\ i \in DOMAIN queue'.messages /\ Like(y, x)
          /\ y.status = IF x.id = n /\ x.status \in {"sending", "unknown"} THEN "delivered" ELSE x.status
      BY <1>1, <1>2, <2>3, <3>1, DeliveredEffect
    <3> QED  BY <1>2, <3>2, SteadyLike
  <2> QED  BY <2>1, <2>2, <2>3
<1> QED  BY <1>4, <1>5, <1>6, <1>7, <1>8, <1>9, <1>10

(* start, beginRun, the answer of a steer and the arming of the runtime     *)
(* concern messages that have a ticket.                                     *)
LEMMA TicketsSteady ==
    ASSUME Sound, StartThrows \/ Answered \/ Begin \/ ArmRuntime, NEW i \in DOMAIN queue.messages
    PROVE  Steady(i)
<1>1. queue \in Queue /\ Distinct(queue) /\ TodoOk /\ QueueOk
  BY DEF Sound, TypeOK, Distinct
<1>2. PICK x, y : x = queue.messages[i] /\ y = queue'.messages[i]
  OBVIOUS
<1>3. EntryOk(x) /\ x.held \in BOOLEAN
  BY <1>2, EntryFacts
<1>4. CASE StartThrows
  <2>1. PICK n : n = Now.message
    OBVIOUS
  <2>2. Doing("start") /\ queue' = StartRefused(queue, n)
    BY <1>4, <2>1 DEF StartThrows
  <2>3. Now \in Todo /\ Now.op = "start"
    BY <1>1, <2>2, Doings
  <2>4. Opened(n)
    BY <2>1, <2>3 DEF Opened, Carries
  <2>5. i \in DOMAIN queue'.messages /\ Like(y, x) /\ y.status = IF x.id = n THEN "rejected" ELSE x.status
    BY <1>1, <1>2, <2>2, RefusedEffect
  <2>6. x.status = "queued" => x.id # n
    BY <1>3, <2>4 DEF EntryOk
  <2> QED  BY <1>2, <2>5, <2>6, SteadyLike
<1>5. CASE Answered
  <2>1. PICK n, result : n = Now.message /\ result = Now.result
    OBVIOUS
  <2>2. Doing("answer") /\ queue' = SteerAnswered(queue, n, result)
    BY <1>5, <2>1 DEF Answered, CommitQueue
  <2>3. Now \in Todo /\ Now.op = "answer" /\ Now \in AgendaSteps
    BY <1>1, <2>2, Doings
  <2>4. Answering(n) /\ n \in Messages /\ result \in Results
    BY <2>1, <2>3, StepFields DEF Answering
  <2>5. n \in Ids(queue)
    BY <1>1, <2>4 DEF QueueOk
  <2>6. /\ i \in DOMAIN queue'.messages /\ Like(y, x)
        /\ y.status = IF x.id = n /\ x.status # "delivered" THEN result ELSE x.status
    BY <1>1, <1>2, <2>2, <2>4, <2>5, AnswerEffect
  <2>7. x.status = "queued" => x.id # n
    BY <1>3, <2>4 DEF EntryOk
  <2> QED  BY <1>2, <2>6, <2>7, SteadyLike
<1>6. CASE Begin
  <2>1. PICK turn, run : turn = Now.turn /\ run = runs + 1
    OBVIOUS
  <2>2. Doing("begin") /\ queue' = BeginRun(queue, run, turn.message, turn.request)
    BY <1>6, <2>1 DEF Begin
  <2>3. Now \in Todo /\ Now.op = "begin" /\ Now \in AgendaSteps
    BY <1>1, <2>2, Doings
  <2>4. turn \in Turns /\ run \in Nat
    <3>1. runs \in Nat
      BY TurnsAssumption DEF Sound, TypeOK
    <3> QED  BY <2>1, <2>3, <3>1, StepFields
  <2>5. turn.message \in Messages \cup {None} /\ turn.request \in Compactions \cup {None}
    BY <2>4 DEF Turns
  <2>6. NewRun(queue, queue', run, turn.message)
    BY <1>1, <2>2, <2>4, <2>5, BeginEffect
  <2>7. i \in DOMAIN queue'.messages /\ Like(y, x) /\ y.status = x.status
    BY <1>2, <2>6 DEF NewRun
  <2> QED  BY <1>2, <2>7, SteadyLike
<1>7. CASE ArmRuntime
  <2>1. queue'.messages = queue.messages
    BY <1>1, <1>7 DEF ArmRuntime, CommitQueue, StartingRuntime, Queue
  <2> QED  BY <2>1, SteadySame
<1> QED  BY <1>4, <1>5, <1>6, <1>7

(* pump, sendNow and its promotion take an entry that nobody holds, delete  *)
(* removes one, edits change no status, and submit appends.                 *)
LEMMA RequestsSteady ==
    ASSUME Sound, NEW i \in DOMAIN queue.messages,
           \/ Pump \/ SendMessageNow
           \/ \E m \in Messages :
                 \/ Promote(m) \/ DeleteMessage(m) \/ HoldLapses(m)
                 \/ \E mode \in {"send", "queue"} : SubmitMessage(m, mode)
                 \/ \E token \in Editors : EditMessage(m, token) \/ SaveMessage(m, token) \/ ReleaseMessage(m, token)
    PROVE  Steady(i)
<1>1. queue \in Queue /\ Distinct(queue) /\ TodoOk /\ QueueOk
  BY DEF Sound, TypeOK, Distinct
<1>2. PICK x, y : x = queue.messages[i] /\ y = queue'.messages[i]
  OBVIOUS
<1>3. EntryOk(x) /\ x.held \in BOOLEAN /\ Entry(queue, x.id) = x /\ StatusOf(queue, x.id) = x.status
  BY <1>1, <1>2, EntryFacts, EntryAt
<1>4. CASE Pump
  <2>1. CASE ~CanPump(queue, CanStart)
    BY <1>4, <2>1, SteadySame DEF Pump, CommitQueue
  <2>2. CASE CanPump(queue, CanStart)
    <3>1. PICK k, n : k = Oldest(queue) /\ n = queue.messages[k].id
      OBVIOUS
    <3>2. queue' = Take(queue, n) /\ ~queue.messages[k].held
      BY <1>4, <2>2, <3>1 DEF Pump, CommitQueue, NextQueued, CanPump
    <3>3. k \in DOMAIN queue.messages
      <4>1. Waiting(queue) # {} /\ Waiting(queue) \subseteq Nat
        BY <1>1, <2>2, QueueFields DEF CanPump, Waiting
      <4>2. \E j \in Waiting(queue) : \A l \in Waiting(queue) : j <= l
        BY <4>1, Least
      <4>3. k \in Waiting(queue)
        BY <3>1, <4>2 DEF Oldest
      <4> QED  BY <4>3 DEF Waiting
    <3>4. i \in DOMAIN queue'.messages /\ Like(y, x) /\ y.status = IF x.id = n THEN "sending" ELSE x.status
      BY <1>1, <1>2, <3>2, TakeEffect
    <3>5. x.id = n => x.held = FALSE
      BY <1>1, <1>2, <1>3, <3>1, <3>2, <3>3 DEF Distinct
    <3> QED  BY <1>2, <3>4, <3>5, SteadyLike
  <2> QED  BY <2>1, <2>2
<1>5. ASSUME NEW n, queue' = SendNow(queue, n), x.id = n => x.held = FALSE
      PROVE  Steady(i)
  <2>1. /\ i \in DOMAIN queue'.messages
        /\ x.id # n => y = x
        /\ x.id = n => y.id = n /\ y.mode = "send"
    BY <1>1, <1>2, <1>5, SendEffect
  <2> QED  BY <1>2, <1>3, <1>5, <2>1 DEF Steady, EntryOk
<1>6. CASE SendMessageNow
  <2>1. PICK n : n = Now.message
    OBVIOUS
  <2>2. Doing("sendNow") /\ queue' = SendNow(queue, n)
    BY <1>6, <2>1 DEF SendMessageNow, CommitQueue
  <2>3. TodoStepOk(Now) /\ Now.op = "sendNow"
    BY <1>1, <2>2, Doings
  <2>4. PICK k \in DOMAIN queue.messages : queue.messages[k].id = n /\ ~queue.messages[k].held
    BY <2>1, <2>3 DEF TodoStepOk
  <2>5. x.id = n => x.held = FALSE
    BY <1>1, <1>2, <1>3, <2>4 DEF Distinct
  <2> QED  BY <1>5, <2>2, <2>5
<1>7. ASSUME NEW m \in Messages, Promote(m) PROVE Steady(i)
  BY <1>3, <1>5, <1>7 DEF Promote, CanPromote
<1>8. ASSUME NEW m \in Messages, DeleteMessage(m) PROVE Steady(i)
  <2>1. queue' = Delete(queue, m) /\ ~Entry(queue, m).held
    BY <1>8 DEF DeleteMessage, CanDelete, Change
  <2>2. i \in DOMAIN queue'.messages /\ Like(y, x) /\ y.status = IF x.id = m THEN "cancelled" ELSE x.status
    BY <1>1, <1>2, <2>1, DeleteEffect
  <2>3. x.id = m => x.held = FALSE
    BY <1>3, <2>1
  <2> QED  BY <1>2, <2>2, <2>3, SteadyLike
<1>9. ASSUME NEW m \in Messages, NEW mode \in {"send", "queue"}, SubmitMessage(m, mode) PROVE Steady(i)
  <2>1. Submitted(queue, m, queue')
    BY <1>1, <1>9, SubmitEffect DEF SubmitMessage
  <2>2. i \in DOMAIN queue'.messages /\ y = x
    BY <1>1, <1>2, <2>1, QueueFields DEF Submitted
  <2> QED  BY <1>2, <2>2, SteadyLike DEF Like
<1>10. ASSUME NEW m, NEW held, NEW version, Edited(queue, m, queue', held, version) PROVE Steady(i)
  <2>1. i \in DOMAIN queue'.messages /\ y.id = x.id /\ y.status = x.status /\ y.mode = x.mode
    BY <1>2, <1>10 DEF Edited
  <2> QED  BY <1>2, <1>3, <2>1 DEF Steady, EntryOk
<1>11. ASSUME NEW m \in Messages, HoldLapses(m) PROVE Steady(i)
  <2>1. Edited(queue, m, queue', FALSE, 0)
    BY <1>1, <1>11, ExpireEffect DEF HoldLapses
  <2> QED  BY <1>10, <2>1
<1>12. ASSUME NEW m \in Messages, NEW token \in Editors, EditMessage(m, token) PROVE Steady(i)
  <2>1. Edited(queue, m, queue', TRUE, 0)
    BY <1>1, <1>12, HoldEffect DEF EditMessage, Change
  <2> QED  BY <1>10, <2>1
<1>13. ASSUME NEW m \in Messages, NEW token \in Editors, SaveMessage(m, token) \/ ReleaseMessage(m, token) PROVE Steady(i)
  <2>1. PICK saved \in BOOLEAN :
           /\ queue' = CloseEdit(queue, m, saved)
           /\ StatusOf(queue, m) = "queued" /\ (saved = TRUE => Entry(queue, m).version < MaxVersion)
    BY <1>13 DEF SaveMessage, ReleaseMessage, Change, CanClose
  <2>2. m \in Ids(queue)
    BY <2>1 DEF StatusOf
  <2>3. PICK k \in DOMAIN queue.messages : queue.messages[k].id = m
    BY <2>2, IdAt
  <2>4. Entry(queue, m) = queue.messages[k]
    BY <1>1, <2>3, EntryAt
  <2>5. Edited(queue, m, queue', FALSE, queue.messages[k].version + 1)
    BY <1>1, <2>1, <2>3, <2>4, CloseEffect
  <2> QED  BY <1>10, <2>5
<1> QED  BY <1>4, <1>6, <1>7, <1>8, <1>9, <1>11, <1>12, <1>13

(* Every step keeps the entries in their places, and the held ones waiting. *)
LEMMA NextSteady ==
    ASSUME Sound, Next, NEW i \in DOMAIN queue.messages
    PROVE  Steady(i)
<1>1. CASE \/ \E skills \in BOOLEAN : CreateTask(skills /\ Asked("skills"))
           \/ Resume \/ Stop \/ Cancel \/ Archive \/ Followup \/ Maintenance \/ Timer
           \/ \E restart \in BOOLEAN : LegacySteer(restart)
           \/ \E request \in Compactions : Compact(request)
  BY <1>1, RequestsPause, SteadySame
<1>2. CASE \/ Start \/ Park \/ ResetCursor \/ SetRunning \/ Reserve \/ ReserveThrows \/ AdmitThrows
           \/ SetFailed \/ SetStopping \/ Dequeue \/ Interrupt \/ DropSteer \/ SetCancelled \/ SetArchived
           \/ Cleanup \/ SetRestart \/ InterruptSteered \/ Steer \/ HandOver \/ AppendEvent
           \/ ClearControl \/ SettleStopped \/ Chain
           \/ Await \/ TurnEnds \/ Crash \/ BootRefused \/ Execution
  <2>1. queue' = queue
    BY <1>2, QueueAlone
  <2> QED  BY <2>1, SteadySame
<1>3. CASE FinishFailed \/ SettleCancelled \/ Settle \/ Reject \/ StopParked \/ Boot \/ Project
  BY <1>3, EndsSteady
<1>4. CASE StartThrows \/ Answered \/ Begin \/ ArmRuntime
  BY <1>4, TicketsSteady
<1>5. CASE \/ Pump \/ SendMessageNow
           \/ \E m \in Messages :
                 \/ Promote(m) \/ DeleteMessage(m) \/ HoldLapses(m)
                 \/ \E mode \in {"send", "queue"} : SubmitMessage(m, mode)
                 \/ \E token \in Editors : EditMessage(m, token) \/ SaveMessage(m, token) \/ ReleaseMessage(m, token)
  BY <1>5, RequestsSteady
<1>6. CASE UserRequest
  BY <1>1, <1>5, <1>6 DEF UserRequest
<1>7. CASE Step
  BY <1>2, <1>3, <1>4, <1>5, <1>7 DEF Step
<1> QED  BY <1>1, <1>2, <1>3, <1>4, <1>6, <1>7 DEF Next

(* An entry someone holds open in an editor is neither sent, started nor    *)
(* removed by anybody until it is saved, released or the hold lapses.       *)
THEOREM HoldsAreRespected ==
    Spec => HoldRespected
<1>1. Sound /\ Sound' /\ [Next]_vars => [\A m \in Ids(queue) : Entry(queue, m).held => StatusOf(queue', m) = "queued"]_vars
  <2> SUFFICES ASSUME Sound, Sound', Next, NEW m \in Ids(queue), Entry(queue, m).held
               PROVE  StatusOf(queue', m) = "queued"
    OBVIOUS
  <2>1. PICK i \in DOMAIN queue.messages : queue.messages[i].id = m /\ Entry(queue, m) = queue.messages[i]
    BY EntryOf
  <2>2. queue.messages[i].held = TRUE
    BY <2>1, EntryFacts
  <2>3. Steady(i) /\ Distinct(queue')
    BY NextSteady DEF Sound, TypeOK, Distinct
  <2>4. i \in DOMAIN queue'.messages /\ queue'.messages[i].id = m /\ queue'.messages[i].status = "queued"
    BY <2>1, <2>2, <2>3 DEF Steady
  <2> QED  BY <2>3, <2>4, EntryAt
<1> QED  BY <1>1, TurnsAreSound, PTL DEF Spec, HoldRespected

-----------------------------------------------------------------------------
(* What a step makes of the executions.                                     *)

(* The executions keep their messages, one is reserved for a turn, or one   *)
(* is given a message.                                                      *)
Same(x, y) == y.turn = x.turn /\ \A m \in Messages : y.sends[m] = "none" <=> x.sends[m] = "none"
SameGiven == DOMAIN execs' = DOMAIN execs /\ \A e \in DOMAIN execs : Same(execs[e], execs'[e])
Reserving == Doing("reserve") /\ queue' = queue /\ execs' = Append(execs, NewExec(Now.turn))
Handing ==
    /\ Doing("handOver") /\ Now.exec = handle
    /\ execs' = [execs EXCEPT ![Now.exec].sends[Now.message] = "accepted"]

(* One execution is replaced.                                               *)
LEMMA OneSame ==
    ASSUME Sound, NEW e \in DOMAIN execs, NEW x, execs' = [execs EXCEPT ![e] = x], Same(execs[e], x)
    PROVE  SameGiven
<1>1. execs \in Seq(Exec)
  BY DEF Sound, TypeOK
<1>2. DOMAIN execs' = DOMAIN execs /\ execs'[e] = x /\ \A d \in DOMAIN execs : d # e => execs'[d] = execs[d]
  BY <1>1
<1> QED  BY <1>2 DEF SameGiven, Same

(* An execution that ends, or is interrupted, keeps its messages.           *)
LEMMA EndSame ==
    ASSUME NEW old \in Exec, NEW outcome
    PROVE  Same(old, End(old, outcome)) /\ Same(old, Interrupted(old))
<1>1. ASSUME NEW y \in Exec, NEW o PROVE Same(y, End(y, o))
  <2> DEFINE f == [m \in Messages |-> IF y.sends[m] = "accepted" THEN "unknown" ELSE y.sends[m]]
  <2>1. \A m \in Messages : f[m] = "none" <=> y.sends[m] = "none"
    OBVIOUS
  <2>2. End(y, o) = [y EXCEPT !.state = "ended", !.outcome = o, !.sends = f]
    BY DEF End
  <2> HIDE DEF f
  <2>3. End(y, o).turn = y.turn /\ End(y, o).sends = f
    BY <2>2 DEF Exec
  <2> QED  BY <2>1, <2>3 DEF Same
<1>2. PICK asked : asked = [old EXCEPT !.stopped = TRUE]
  OBVIOUS
<1>3. asked \in Exec /\ asked.turn = old.turn /\ asked.sends = old.sends
  BY <1>2 DEF Exec
<1>4. Same(asked, End(asked, "lost"))
  BY <1>1, <1>3
<1>5. Interrupted(old) = IF old.state = "queued" THEN End(asked, "lost") ELSE asked
  BY <1>2 DEF Interrupted
<1>6. Same(old, Interrupted(old))
  BY <1>3, <1>4, <1>5 DEF Same
<1> QED  BY <1>1, <1>6

(* Executions go on with the messages they have.                            *)
LEMMA ExecutionSame ==
    ASSUME Sound, Execution
    PROVE  SameGiven
<1>1. execs \in Seq(Exec)
  BY DEF Sound, TypeOK
<1>2. PICK e \in DOMAIN execs :
        \/ ExecStarts(e) \/ ExecAsks(e) \/ ExecResolves(e) \/ ExecEnds(e)
        \/ \E m \in Messages : ExecDelivers(e, m) \/ ExecRejects(e, m)
  BY DEF Execution
<1>3. execs[e] \in Exec
  BY <1>1
<1>4. CASE ExecStarts(e)
  <2>1. PICK x : x = [execs[e] EXCEPT !.state = "running", !.journal = Append(execs[e].journal, Event("started", None))]
    OBVIOUS
  <2>2. Same(execs[e], x)
    BY <1>3, <2>1 DEF Same, Exec
  <2>3. execs' = [execs EXCEPT ![e] = x]
    BY <1>1, <1>4, <2>1 DEF ExecStarts
  <2> QED  BY <2>2, <2>3, OneSame
<1>5. ASSUME NEW event, Journal(e, event) PROVE SameGiven
  <2>1. PICK x : x = [execs[e] EXCEPT !.journal = Append(execs[e].journal, event)]
    OBVIOUS
  <2>2. Same(execs[e], x)
    BY <1>3, <2>1 DEF Same, Exec
  <2>3. execs' = [execs EXCEPT ![e] = x]
    BY <1>1, <1>5, <2>1 DEF Journal
  <2> QED  BY <2>2, <2>3, OneSame
<1>6. CASE ExecEnds(e)
  <2>1. PICK outcome : execs' = [execs EXCEPT ![e] = End(execs[e], outcome)]
    BY <1>6 DEF ExecEnds
  <2> QED  BY <1>3, <2>1, EndSame, OneSame
<1>7. ASSUME NEW m \in Messages, NEW j, NEW receipt \in {"delivered", "rejected"}, execs[e].sends[m] = "accepted",
             execs' = [execs EXCEPT ![e] = [execs[e] EXCEPT !.sends[m] = receipt, !.journal = j]]
      PROVE  SameGiven
  <2>1. PICK x : x = [execs[e] EXCEPT !.sends[m] = receipt, !.journal = j]
    OBVIOUS
  <2>2. x.turn = execs[e].turn /\ \A n \in Messages : x.sends[n] = IF n = m THEN receipt ELSE execs[e].sends[n]
    BY <1>3, <2>1 DEF Exec
  <2>3. Same(execs[e], x)
    BY <1>7, <2>2 DEF Same
  <2> QED  BY <1>7, <2>1, <2>3, OneSame
<1>8. ASSUME NEW m \in Messages, ExecDelivers(e, m) PROVE SameGiven
  <2>1. CASE Journal(e, Event("delivered", m))
    BY <1>5, <2>1
  <2>2. CASE /\ execs[e].sends[m] = "accepted"
             /\ execs' = [execs EXCEPT ![e].sends[m] = "delivered", ![e].journal = Append(@, Event("delivered", m))]
    <3>1. PICK j : j = Append(execs[e].journal, Event("delivered", m))
      OBVIOUS
    <3>2. execs' = [execs EXCEPT ![e] = [execs[e] EXCEPT !.sends[m] = "delivered", !.journal = j]]
      BY <1>1, <1>3, <2>2, <3>1 DEF Exec
    <3> QED  BY <1>7, <2>2, <3>2
  <2> QED  BY <1>8, <2>1, <2>2 DEF ExecDelivers
<1>9. ASSUME NEW m \in Messages, ExecRejects(e, m) PROVE SameGiven
  <2>1. execs[e].sends[m] = "accepted" /\ execs' = [execs EXCEPT ![e].sends[m] = "rejected"]
    BY <1>9 DEF ExecRejects
  <2>2. execs' = [execs EXCEPT ![e] = [execs[e] EXCEPT !.sends[m] = "rejected", !.journal = execs[e].journal]]
    BY <1>1, <1>3, <2>1 DEF Exec
  <2> QED  BY <1>7, <2>1, <2>2
<1>10. CASE ExecAsks(e) \/ ExecResolves(e)
  BY <1>5, <1>10 DEF ExecAsks, ExecResolves
<1> QED  BY <1>2, <1>4, <1>6, <1>8, <1>9, <1>10

(* Only startTurnNow and the steer hand a message over.                     *)
LEMMA NextGives ==
    ASSUME Sound, Next
    PROVE  SameGiven \/ Reserving \/ Handing
<1>1. execs \in Seq(Exec)
  BY DEF Sound, TypeOK
<1>2. ASSUME execs' = execs PROVE SameGiven
  BY <1>2 DEF SameGiven, Same
<1>3. CASE UserRequest
  <2>1. execs' = execs
    BY <1>3 DEF UserRequest, CreateTask, SubmitMessage, Promote, DeleteMessage, HoldLapses, EditMessage, SaveMessage,
                ReleaseMessage, Resume, Stop, Cancel, Archive, Followup, Maintenance, LegacySteer, Compact, Change
  <2> QED  BY <1>2, <2>1
<1>4. CASE Reserve \/ AdmitThrows
  <2>1. execs' = execs \/ Reserving
    BY <1>4 DEF Reserve, AdmitThrows, Reserving, product
  <2> QED  BY <1>2, <2>1
<1>5. CASE HandOver
  <2>1. execs' = execs \/ Handing
    BY <1>5 DEF HandOver, Handing, SameTurn
  <2> QED  BY <1>2, <2>1
<1>6. CASE Interrupt
  <2>1. execs' = [execs EXCEPT ![handle] = Interrupted(execs[handle])]
    BY <1>6 DEF Interrupt
  <2>2. CASE handle \in DOMAIN execs
    <3>1. execs[handle] \in Exec
      BY <1>1, <2>2
    <3>2. Same(execs[handle], Interrupted(execs[handle]))
      BY <3>1, EndSame
    <3> QED  BY <2>1, <2>2, <3>2, OneSame
  <2>3. CASE handle \notin DOMAIN execs
    <3>1. execs' = execs
      BY <1>1, <2>1, <2>3
    <3> QED  BY <1>2, <3>1
  <2> QED  BY <2>2, <2>3
<1>7. CASE Step /\ ~Reserve /\ ~HandOver /\ ~Interrupt
  <2>1. execs' = execs
    BY <1>7 DEF Step, Pump, SendMessageNow, Start, Begin, Park, ResetCursor, SetRunning, ArmRuntime,
                ReserveThrows, SetFailed, FinishFailed, Reject, SetStopping, Dequeue, StopParked, DropSteer,
                SetCancelled, SetArchived, Cleanup, SetRestart, InterruptSteered, Steer, Answered, AppendEvent, ClearControl,
                SettleCancelled, SettleStopped, Settle, Chain, CommitTask, CommitQueue, CommitControl
  <2> QED  BY <1>2, <2>1
<1>8. CASE StartThrows \/ Timer \/ Project \/ TurnEnds \/ Crash \/ Boot \/ BootRefused
  <2>1. execs' = execs
    BY <1>8 DEF StartThrows, Timer, Project, TurnEnds, Crash, Boot, BootRefused
  <2> QED  BY <1>2, <2>1
<1>9. CASE Await
  <2>1. execs' = execs
    BY <1>9 DEF Await, SkillsResolve, SkillsFail, SteerResolves, ReceiptArrives, SendTimesOut
  <2> QED  BY <1>2, <2>1
<1>10. CASE Execution
  BY <1>10, ExecutionSame
<1> QED  BY <1>3, <1>4, <1>5, <1>6, <1>7, <1>8, <1>9, <1>10 DEF Next

(* The execution that is reserved.                                          *)
LEMMA ReservingAppends ==
    ASSUME Sound, Reserving
    PROVE  /\ Now \in Todo /\ Now.op = "reserve" /\ Now \in AgendaSteps /\ Len(execs) \in Nat
           /\ DOMAIN execs = 1..Len(execs) /\ DOMAIN execs' = 1..(Len(execs) + 1)
           /\ \A e \in DOMAIN execs : execs'[e] = execs[e]
           /\ execs'[Len(execs) + 1].turn = Now.turn
           /\ \A m \in Messages : execs'[Len(execs) + 1].sends[m] = "none"
<1>1. TodoOk /\ execs \in Seq(Exec) /\ Doing("reserve")
  BY DEF Sound, TypeOK, Reserving
<1>2. Now \in Todo /\ Now.op = "reserve" /\ Now \in AgendaSteps
  BY <1>1, Doings
<1>3. PICK x : x = NewExec(Now.turn)
  OBVIOUS
<1>4. x.turn = Now.turn /\ \A m \in Messages : x.sends[m] = "none"
  BY <1>3 DEF NewExec
<1>5. execs' = Append(execs, x)
  BY <1>3 DEF Reserving
<1>6. /\ Len(execs) \in Nat /\ DOMAIN execs = 1..Len(execs) /\ DOMAIN execs' = 1..(Len(execs) + 1)
      /\ \A e \in DOMAIN execs : execs'[e] = execs[e]
      /\ execs'[Len(execs) + 1] = x
  BY <1>1, <1>5
<1> QED  BY <1>2, <1>4, <1>6

(* Removing an uncertain message is final: once removed it is handed to no  *)
(* execution, not even by a steer that was still resolving its skills.      *)
THEOREM RemovedMessagesAreNotHanded ==
    Spec => RemovedIsNotHanded
<1>1. Sound /\ [Next]_vars => [\A m \in Messages : StatusOf(queue, m) = "cancelled" => Handed(m)' = Handed(m)]_vars
  <2> SUFFICES ASSUME Sound, Next, NEW m \in Messages, StatusOf(queue, m) = "cancelled"
               PROVE  Handed(m)' = Handed(m)
    OBVIOUS
  <2>1. m \in Ids(queue)
    BY DEF StatusOf
  <2>2. PICK i \in DOMAIN queue.messages :
           /\ queue.messages[i].id = m /\ queue.messages[i].status = "cancelled" /\ EntryOk(queue.messages[i])
    BY <2>1, EntryOf
  <2>3. ~Opened(m) /\ ~StatusIs(m, {"sending"})
    <3>1. Distinct(queue)
      BY DEF Sound, TypeOK, Distinct
    <3> QED  BY <2>2, <3>1 DEF EntryOk, StatusIs, Distinct
  <2>4. /\ {e \in DOMAIN execs' : execs'[e].turn.message = m} = {e \in DOMAIN execs : execs[e].turn.message = m}
        /\ {e \in DOMAIN execs' : execs'[e].sends[m] # "none"} = {e \in DOMAIN execs : execs[e].sends[m] # "none"}
    <3>1. CASE SameGiven
      BY <3>1 DEF SameGiven, Same
    <3>2. CASE Reserving
      <4>1. Now.turn.message # m
        BY <2>3, <3>2, ReservingAppends DEF Opened, Carries
      <4>2. /\ Len(execs) \in Nat /\ DOMAIN execs = 1..Len(execs) /\ DOMAIN execs' = 1..(Len(execs) + 1)
            /\ \A e \in DOMAIN execs : execs'[e] = execs[e]
            /\ execs'[Len(execs) + 1].turn = Now.turn /\ execs'[Len(execs) + 1].sends[m] = "none"
        BY <3>2, ReservingAppends
      <4>3. \A e \in DOMAIN execs' : e \in DOMAIN execs \/ e = Len(execs) + 1
        BY <4>2
      <4>4. \A e \in DOMAIN execs : e \in DOMAIN execs'
        BY <4>2
      <4> QED  BY <4>1, <4>2, <4>3, <4>4
    <3>3. CASE Handing
      <4>1. Now \in Todo /\ Now.op = "handOver" /\ Now \in AgendaSteps /\ TodoStepOk(Now) /\ execs \in Seq(Exec)
        BY <3>3, Doings DEF Handing, Sound, TypeOK
      <4>2. PICK n, e : n = Now.message /\ e = Now.exec
        OBVIOUS
      <4>3. n \in Messages /\ e \in DOMAIN execs /\ StatusIs(n, {"sending"})
        BY <3>3, <4>1, <4>2, StepFields DEF TodoStepOk, Handing
      <4>4. n # m
        BY <2>3, <4>3
      <4>5. execs' = [execs EXCEPT ![e].sends[n] = "accepted"]
        BY <3>3, <4>2 DEF Handing
      <4>6. ReceiptSet(e, n, "accepted")
        <5>1. TypeOK /\ "accepted" \in Receipt
          BY DEF Sound, Receipt
        <5> QED  BY <4>3, <4>5, <5>1, SendsSet
      <4>7. DOMAIN execs' = DOMAIN execs /\ \A d \in DOMAIN execs : execs'[d].turn = execs[d].turn /\ execs'[d].sends[m] = execs[d].sends[m]
        BY <4>3, <4>4, <4>6 DEF ReceiptSet
      <4> QED  BY <4>7
    <3> QED  BY <3>1, <3>2, <3>3, NextGives
  <2> QED  BY <2>4 DEF Handed
<1> QED  BY <1>1, TurnsAreSound, PTL DEF Spec, RemovedIsNotHanded

(* The turns from the queue run in the order of their entries.              *)
InOrder ==
    \A d, e \in DOMAIN execs : \A i, j \in DOMAIN queue.messages :
        (/\ d < e
         /\ queue.messages[i].id = execs[d].turn.message /\ queue.messages[i].mode = "queue"
         /\ queue.messages[j].id = execs[e].turn.message /\ queue.messages[j].mode = "queue") => i < j

(* Entries of messages that were handed over are found where they were.     *)
LEMMA SamePlace ==
    ASSUME Sound, Sound', Next, NEW e \in DOMAIN execs, NEW i \in DOMAIN queue'.messages,
           queue'.messages[i].id = execs[e].turn.message
    PROVE  /\ i \in DOMAIN queue.messages /\ queue.messages[i].id = execs[e].turn.message
           /\ queue'.messages[i].mode = "queue" => queue.messages[i].mode = "queue"
<1>1. PICK m : m = execs[e].turn.message
  OBVIOUS
<1>2. queue' \in Queue /\ Distinct(queue')
  BY DEF Sound, TypeOK, Distinct
<1>3. m \in Messages
  BY <1>1, <1>2, QueueFields DEF Message
<1>4. m \in Ids(queue)
  BY <1>1, <1>3 DEF Sound, QueueOk, HandedTo, Given
<1>5. PICK k \in DOMAIN queue.messages : queue.messages[k].id = m
  BY <1>4, IdAt
<1>6. Steady(k)
  BY NextSteady
<1>7. k = i
  BY <1>1, <1>2, <1>5, <1>6 DEF Steady, Distinct
<1> QED  BY <1>1, <1>5, <1>6, <1>7 DEF Steady

(* A turn that is reserved from the queue comes after those that ran.       *)
LEMMA OrderKept ==
    ASSUME Sound, Sound', Next, InOrder
    PROVE  InOrder'
<1> SUFFICES ASSUME NEW d \in DOMAIN execs', NEW e \in DOMAIN execs', NEW i \in DOMAIN queue'.messages, NEW j \in DOMAIN queue'.messages,
                    d < e, queue'.messages[i].id = execs'[d].turn.message, queue'.messages[i].mode = "queue",
                    queue'.messages[j].id = execs'[e].turn.message, queue'.messages[j].mode = "queue"
             PROVE  i < j
  BY DEF InOrder
<1>1. ASSUME DOMAIN execs' = DOMAIN execs, \A c \in DOMAIN execs : execs'[c].turn = execs[c].turn
      PROVE  i < j
  <2>1. /\ i \in DOMAIN queue.messages /\ queue.messages[i].id = execs[d].turn.message /\ queue.messages[i].mode = "queue"
        /\ j \in DOMAIN queue.messages /\ queue.messages[j].id = execs[e].turn.message /\ queue.messages[j].mode = "queue"
    BY <1>1, SamePlace
  <2> QED  BY <1>1, <2>1 DEF InOrder
<1>2. CASE SameGiven
  BY <1>1, <1>2 DEF SameGiven, Same
<1>3. CASE Handing
  <2>1. Now \in Todo /\ Now.op = "handOver" /\ Now \in AgendaSteps /\ TodoStepOk(Now) /\ execs \in Seq(Exec)
    BY <1>3, Doings DEF Handing, Sound, TypeOK
  <2>2. PICK n, c : n = Now.message /\ c = Now.exec
    OBVIOUS
  <2>3. n \in Messages /\ c \in DOMAIN execs
    BY <2>1, <2>2, StepFields DEF TodoStepOk
  <2>4. execs' = [execs EXCEPT ![c].sends[n] = "accepted"]
    BY <1>3, <2>2 DEF Handing
  <2>5. ReceiptSet(c, n, "accepted")
    <3>1. TypeOK /\ "accepted" \in Receipt
      BY DEF Sound, Receipt
    <3> QED  BY <2>3, <2>4, <3>1, SendsSet
  <2> QED  BY <1>1, <2>5 DEF ReceiptSet
<1>4. CASE Reserving
  <2>1. /\ Len(execs) \in Nat /\ DOMAIN execs = 1..Len(execs) /\ DOMAIN execs' = 1..(Len(execs) + 1)
        /\ \A c \in DOMAIN execs : execs'[c] = execs[c]
        /\ execs'[Len(execs) + 1].turn = Now.turn /\ Now \in Todo /\ Now.op = "reserve" /\ queue' = queue
    BY <1>4, ReservingAppends DEF Reserving
  <2>2. d \in DOMAIN execs /\ (e \in DOMAIN execs \/ e = Len(execs) + 1)
    BY <2>1
  <2>3. CASE e \in DOMAIN execs
    BY <2>1, <2>2, <2>3 DEF InOrder
  <2>4. CASE e = Len(execs) + 1
    <3>1. PICK m, n : m = queue.messages[i].id /\ n = queue.messages[j].id
      OBVIOUS
    <3>2. /\ i \in DOMAIN queue.messages /\ j \in DOMAIN queue.messages /\ n = Now.turn.message /\ m = execs[d].turn.message
          /\ queue.messages[i].mode = "queue" /\ queue.messages[j].mode = "queue"
      BY <2>1, <2>2, <2>4, <3>1
    <3>3. Opened(n) /\ Ran(m) /\ HandedTo(m)
      BY <2>1, <2>2, <3>2 DEF Opened, Carries, Ran, HandedTo, Given
    <3>4. EntryOk(queue.messages[j]) /\ FirstOk(i)
      BY <3>2 DEF Sound, QueueOk
    <3>5. queue.messages[j].status = "sending" /\ ~HandedTo(n)
      BY <3>1, <3>3, <3>4 DEF EntryOk
    <3>6. i # j
      BY <3>1, <3>3, <3>5
    <3>7. ~(j < i)
      BY <3>1, <3>2, <3>3, <3>4, <3>5 DEF FirstOk
    <3>8. i \in Nat /\ j \in Nat
      <4>1. queue \in Queue
        BY DEF Sound, TypeOK
      <4> QED  BY <3>2, <4>1, QueueFields
    <3> QED  BY <3>6, <3>7, <3>8
  <2> QED  BY <2>2, <2>3, <2>4
<1> QED  BY <1>2, <1>3, <1>4, NextGives

(* Queue entries run individually in FIFO order, also when one of them is   *)
(* stopped before it starts, requeued by a restart, or held by an editor    *)
(* (pump, stopWaiting, recover).                                            *)
THEOREM QueueRunsInOrder ==
    Spec => []QueuedRunInOrder
<1>1. Init => InOrder
  BY DEF Init, InOrder
<1>2. Sound /\ Sound' /\ InOrder /\ [Next]_vars => InOrder'
  <2>1. UNCHANGED vars /\ InOrder => InOrder'
    BY DEF vars, InOrder
  <2> QED  BY <2>1, OrderKept
<1>3. Sound /\ InOrder => QueuedRunInOrder
  <2> SUFFICES ASSUME Sound, InOrder, NEW d \in DOMAIN execs, NEW e \in DOMAIN execs, d < e, RanFromQueue(d), RanFromQueue(e)
               PROVE  Position(execs[d].turn.message) < Position(execs[e].turn.message)
    BY DEF QueuedRunInOrder
  <2>1. ASSUME NEW c \in DOMAIN execs, RanFromQueue(c)
        PROVE  LET k == Position(execs[c].turn.message)
               IN  k \in DOMAIN queue.messages /\ queue.messages[k].id = execs[c].turn.message /\ queue.messages[k].mode = "queue"
    <3>1. PICK m : m = execs[c].turn.message
      OBVIOUS
    <3>2. m \in Messages
      <4>1. execs \in Seq(Exec)
        BY DEF Sound, TypeOK
      <4>2. execs[c] \in Exec
        BY <4>1
      <4>3. execs[c].turn \in Turns
        BY <4>2 DEF Exec
      <4> QED  BY <2>1, <3>1, <4>3 DEF Turns, RanFromQueue
    <3>3. m \in Ids(queue)
      BY <3>1, <3>2 DEF Sound, QueueOk, HandedTo, Given
    <3>4. PICK i \in DOMAIN queue.messages : queue.messages[i].id = m /\ Entry(queue, m) = queue.messages[i]
      BY <3>3, EntryOf
    <3>5. Position(m) \in DOMAIN queue.messages /\ queue.messages[Position(m)].id = m
      BY <3>4 DEF Position
    <3>6. Position(m) = i
      <4>1. Distinct(queue)
        BY DEF Sound, TypeOK, Distinct
      <4> QED  BY <3>4, <3>5, <4>1 DEF Distinct
    <3> QED  BY <2>1, <3>1, <3>4, <3>5, <3>6 DEF RanFromQueue
  <2> QED  BY <2>1 DEF InOrder
<1> QED  BY <1>1, <1>2, <1>3, TurnsAreSound, PTL DEF Spec
=============================================================================
