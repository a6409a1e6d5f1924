-------------------------- MODULE TaskStreamProofs --------------------------
(***************************************************************************)
(* Proofs about TaskStream for every value of its constants.  Three         *)
(* invariants, each inductive on top of the one before it:                  *)
(* FollowOk: the server's rows, the cursors, target, request and buffer of  *)
(* the effect, and the frames under way fit together; it gives the types and*)
(* that a quiet client is current;                                          *)
(* ShownOk: the blocks are disjoint, the open block covers the log from its *)
(* start, and every event up to the cursor is in exactly one row;           *)
(* TrueOk: whatever the client knows of a row (by its cursor, or as one of  *)
(* the rows of the next revision that have come) is on its pages in the     *)
(* row's revision, the pages lie one behind the other, and an answer under  *)
(* way has everything it was asked for that has not changed since.          *)
(***************************************************************************)
EXTENDS TaskStream, FiniteSetTheorems, WellFoundedInduction, TLAPS

-----------------------------------------------------------------------------
(* Numbers and sets of numbers.                                             *)

(* The larger of two numbers.                                               *)
LEMMA LargerIs ==
    ASSUME NEW a \in Nat, NEW b \in Nat
    PROVE  Larger(a, b) \in {a, b} /\ Larger(a, b) \in Nat /\ Larger(a, b) >= a /\ Larger(a, b) >= b
BY DEF Larger

(* Every set of numbers has a least element: induction by the least         *)
(* counterexample.                                                          *)
LEMMA Least ==
    ASSUME NEW S, S \subseteq Nat, S # {}
    PROVE  \E i \in S : \A j \in S : i <= j
<1>1. PICK R : R = OpToRel(<, Nat)
  BY Zenon
<1>2. \A x, y \in Nat : x < y => <<x, y>> \in R
  BY <1>1, Zenon DEF OpToRel
<1>3. IsWellFoundedOn(R, Nat)
  BY <1>1, NatLessThanWellFounded, Zenon
<1>4. PICK x \in S : \A y \in S : ~(<<y, x>> \in R)
  BY <1>3, WFMin, Zenon
<1>5. \A y \in S : ~(y < x)
  BY <1>2, <1>4, Zenon
<1> QED  BY <1>5

(* Min of a set of numbers.                                                 *)
LEMMA MinIs ==
    ASSUME NEW S, S \subseteq Nat, S # {}
    PROVE  Min(S) \in S /\ Min(S) \in Nat /\ \A y \in S : Min(S) <= y
<1>1. PICK m \in S : \A y \in S : m <= y
  BY Least
<1> QED  BY <1>1 DEF Min

(* Max of a bounded set of numbers.                                         *)
LEMMA MaxIs ==
    ASSUME NEW S, S \subseteq Nat, S # {}, NEW n \in Nat, \A y \in S : y <= n
    PROVE  Max(S) \in S /\ Max(S) \in Nat /\ \A y \in S : Max(S) >= y
<1> DEFINE B == {b \in Nat : \A y \in S : y <= b}
<1>1. PICK b \in B : \A c \in B : b <= c
  <2> HIDE DEF B
  <2>1. B \subseteq Nat /\ B # {}  BY DEF B
  <2> QED  BY <2>1, Least
<1>2. b \in S
  <2> SUFFICES ASSUME b \notin S PROVE FALSE
    OBVIOUS
  <2>1. \A y \in S : y <= b /\ y # b
    BY <1>1
  <2>2. \A y \in S : y <= b - 1 /\ b >= 1
    BY <2>1, <1>1
  <2>3. b - 1 \in Nat /\ \A y \in S : y <= b - 1
    <3>1. PICK y \in S : TRUE
      OBVIOUS
    <3>2. b \in Nat /\ b >= 1
      BY <3>1, <2>2, <1>1
    <3> QED  BY <3>2, <2>2
  <2>4. b - 1 \in B
    BY <2>3
  <2> QED  BY <2>4, <1>1
<1>3. \A y \in S : b >= y
  BY <1>1
<1> QED  BY <1>2, <1>3 DEF Max

(* The smaller of two numbers.                                              *)
LEMMA MinOfTwo ==
    ASSUME NEW a \in Nat, NEW b \in Nat
    PROVE  Min({a, b}) = IF a <= b THEN a ELSE b
<1>1. {a, b} \subseteq Nat /\ {a, b} # {}
  OBVIOUS
<1>2. Min({a, b}) \in {a, b} /\ \A y \in {a, b} : Min({a, b}) <= y
  BY <1>1, MinIs
<1> QED  BY <1>2

(* The larger of two numbers.                                               *)
LEMMA MaxOfTwo ==
    ASSUME NEW a \in Nat, NEW b \in Nat
    PROVE  Max({a, b}) = IF a <= b THEN b ELSE a
<1>1. {a, b} \subseteq Nat /\ {a, b} # {} /\ Larger(a, b) \in Nat /\ \A y \in {a, b} : y <= Larger(a, b)
  BY LargerIs
<1>2. Max({a, b}) \in {a, b} /\ \A y \in {a, b} : Max({a, b}) >= y
  BY <1>1, MaxIs
<1> QED  BY <1>2

(* An interval in ascending order.                                          *)
LEMMA AscendingIs ==
    ASSUME NEW a \in Nat, NEW b \in Nat, a <= b
    PROVE  Ascending((a + 1)..b) = [i \in 1..(b - a) |-> a + i]
<1> DEFINE S == (a + 1)..b
           n == b - a
           F == [1..n -> S]
           Rising(s) == \A i, j \in DOMAIN s : i < j => s[i] < s[j]
           t == [i \in 1..n |-> a + i]
<1>1. n \in Nat /\ Cardinality(S) = n
  <2>1. Cardinality(S) = IF a + 1 > b THEN 0 ELSE b - (a + 1) + 1
    BY FS_Interval
  <2> QED  BY <2>1
<1>2. t \in F /\ Rising(t)
  OBVIOUS
<1>3. ASSUME NEW s \in F, Rising(s) PROVE s = t
  <2> DEFINE Low == {i \in 1..n : s[i] < a + i}
             High == {i \in 0..(n - 1) : s[n - i] > b - i}
  <2>1. Low = {}
    <3> SUFFICES ASSUME Low # {} PROVE FALSE
      OBVIOUS
    <3>1. PICK i \in Low : \A j \in Low : i <= j
      BY Least, Low \subseteq Nat
    <3>2. i # 1
      BY <3>1
    <3>3. i - 1 \in 1..n /\ i - 1 \notin Low /\ s[i - 1] < s[i] /\ s[i] \in Nat /\ s[i - 1] \in Nat
      BY <3>1, <3>2, <1>3, <1>1
    <3> QED  BY <3>1, <3>3
  <2>2. High = {}
    <3> SUFFICES ASSUME High # {} PROVE FALSE
      OBVIOUS
    <3>1. PICK i \in High : \A j \in High : i <= j
      BY Least, High \subseteq Nat
    <3>2. i # 0
      BY <3>1, <1>1
    <3>3. i - 1 \in 0..(n - 1) /\ i - 1 \notin High
      <4>1. i \in Nat /\ i \in 0..(n - 1) /\ i - 1 \in 0..(n - 1)
        BY <3>1, <3>2, <1>1
      <4>2. ~(i <= i - 1)
        BY <4>1
      <4> HIDE DEF High
      <4> QED  BY <3>1, <4>1, <4>2
    <3>4. n - i \in 1..n /\ n - (i - 1) \in 1..n /\ n - i < n - (i - 1)
      BY <3>1, <3>2, <1>1
    <3>5. s[n - i] < s[n - (i - 1)] /\ s[n - i] \in Nat /\ s[n - (i - 1)] \in Nat
      BY <3>4, <1>3, <1>1
    <3> QED  BY <3>1, <3>3, <3>5
  <2>3. \A i \in 1..n : s[i] = a + i
    <3> SUFFICES ASSUME NEW i \in 1..n PROVE s[i] = a + i
      OBVIOUS
    <3>1. s[i] >= a + i
      BY <2>1, <1>3
    <3>2. n - i \in 0..(n - 1) /\ n - (n - i) = i
      BY <1>1
    <3>3. ~(s[n - (n - i)] > b - (n - i))
      BY <2>2, <3>2
    <3>4. s[i] <= b - (n - i)
      BY <3>2, <3>3, <1>3, <1>1
    <3> QED  BY <3>1, <3>4, <1>3, <1>1
  <2> QED  BY <2>3, <1>3
<1>4. (CHOOSE s \in F : Rising(s)) = t
  <2> HIDE DEF F, t, Rising
  <2> QED  BY <1>2, <1>3
<1> QED  BY <1>1, <1>4 DEF Ascending

-----------------------------------------------------------------------------
(* The conversation of a block.                                             *)

(* SameTurn with its bounds in order.                                       *)
LEMMA SameTurnIs ==
    ASSUME NEW l, NEW i \in Nat, NEW j \in Nat, i <= j
    PROVE  /\ SameTurn(l, i, j) <=>
                \A k \in i..j : /\ k > i => l[k].kind \notin Separate \union Boundaries \union {"compacted"}
                                /\ k < j => l[k].kind \notin Separate \union EndsTurn \union {"compacted"}
           /\ SameTurn(l, i, j) <=> SameTurn(l, j, i)
<1>1. Min({i, j}) = i /\ Max({i, j}) = j /\ Min({j, i}) = i /\ Max({j, i}) = j
  BY MinOfTwo, MaxOfTwo
<1> QED  BY <1>1 DEF SameTurn

(* A background item is in its own group, which is one of background items  *)
(* of its turn with no prose between.                                       *)
LEMMA GroupIs ==
    ASSUME NEW l \in Seq(LogItems), NEW i \in DOMAIN l, l[i].kind \in Background
    PROVE  /\ i \in GroupOf(l, i) /\ GroupOf(l, i) \subseteq DOMAIN l
           /\ \A j \in GroupOf(l, i) : l[j].kind \in Background
           /\ \A j \in DOMAIN l : j \in GroupOf(l, i) <=>
                 /\ l[j].kind \in Background /\ SameTurn(l, i, j)
                 /\ \A k \in DOMAIN l : (i <= k /\ k <= j) \/ (j <= k /\ k <= i) => l[k].kind # "text"
<1>1. DOMAIN l = 1..Len(l) /\ Len(l) \in Nat /\ i \in Nat
  OBVIOUS
<1>2. SameTurn(l, i, i)
  BY <1>1, SameTurnIs
<1>3. ASSUME NEW j \in DOMAIN l
      PROVE  \A k : k \in Min({i, j})..Max({i, j}) <=> k \in DOMAIN l /\ ((i <= k /\ k <= j) \/ (j <= k /\ k <= i))
  <2>1. j \in Nat /\ Min({i, j}) = (IF i <= j THEN i ELSE j) /\ Max({i, j}) = (IF i <= j THEN j ELSE i)
    BY <1>1, MinOfTwo, MaxOfTwo
  <2> QED  BY <2>1, <1>1
<1>4. \A j \in DOMAIN l : j \in GroupOf(l, i) <=>
                 /\ l[j].kind \in Background /\ SameTurn(l, i, j)
                 /\ \A k \in DOMAIN l : (i <= k /\ k <= j) \/ (j <= k /\ k <= i) => l[k].kind # "text"
  BY <1>3 DEF GroupOf
<1>5. i \in GroupOf(l, i)
  <2>1. \A k \in DOMAIN l : (i <= k /\ k <= i) \/ (i <= k /\ k <= i) => k = i
    BY <1>1
  <2>2. l[i].kind # "text"
    BY DEF Background, Results
  <2> QED  BY <2>1, <2>2, <1>2, <1>4
<1> QED  BY <1>4, <1>5 DEF GroupOf

(* The members of an activity: its group, what is joined to it, and markers.*)
LEMMA MembersAre ==
    ASSUME NEW l \in Seq(LogItems), NEW g \in Groups(l)
    PROVE  /\ g # {} /\ g \subseteq DOMAIN l /\ \A i \in g : l[i].kind \in Background
           /\ g \subseteq MembersOf(l, g) /\ MembersOf(l, g) \subseteq DOMAIN l
           /\ Min(MembersOf(l, g)) \in MembersOf(l, g) /\ Min(MembersOf(l, g)) \in DOMAIN l
           /\ \A i \in MembersOf(l, g) : Min(MembersOf(l, g)) <= i
<1>1. PICK i \in DOMAIN l : l[i].kind \in Background /\ g = GroupOf(l, i)
  BY DEF Groups
<1>2. g # {} /\ g \subseteq DOMAIN l /\ \A j \in g : l[j].kind \in Background
  BY <1>1, GroupIs
<1>3. \A h \in Groups(l) : h \subseteq DOMAIN l
  BY DEF Groups, GroupOf
<1>4. g \subseteq MembersOf(l, g) /\ MembersOf(l, g) \subseteq DOMAIN l
  BY <1>2, <1>3 DEF MembersOf, WithMarkers
<1>5. MembersOf(l, g) \subseteq Nat /\ MembersOf(l, g) # {}
  BY <1>2, <1>4
<1> QED  BY <1>2, <1>4, <1>5, MinIs

(* A row ends where the last of its items does.                             *)
LEMMA RowIs ==
    ASSUME NEW l \in Seq(LogItems), NEW S, S \subseteq DOMAIN l, S # {}, NEW n \in Nat, \A i \in S : l[i].end <= n,
           NEW type \in {"activity", "message", "failure"}, NEW key \in Nat, NEW live \in BOOLEAN,
           NEW ops \in SUBSET TraceOperations, NEW r, r = Row(type, key, ItemsOf(l, S), ops, live)
    PROVE  /\ r \in Bodies /\ r.key = key /\ r.items = {l[i] : i \in S}
           /\ r.end <= n /\ \A i \in S : l[i].end <= r.end
<1> DEFINE X == ItemsOf(l, S)
           E == {x.end : x \in X}
<1>0. \A i \in S : l[i] \in LogItems
  OBVIOUS
<1>1. \A i \in S : l[i] \in LogItems /\ l[i].end \in Nat
  BY <1>0 DEF LogItems
<1>2. X = {l[i] : i \in S} /\ X \subseteq LogItems
  BY <1>1 DEF ItemsOf
<1>3. E \subseteq Nat /\ E # {} /\ (\A e \in E : e <= n) /\ \A i \in S : l[i].end \in E
  BY <1>1, <1>2
<1>4. Max(E) \in E /\ Max(E) \in Nat /\ \A e \in E : Max(E) >= e
  <2> HIDE DEF E
  <2> QED  BY <1>3, MaxIs
<1>5. Row(type, key, X, ops, live)
        = [type |-> type, key |-> key, end |-> Max(E), items |-> X, ops |-> ops, live |-> live]
  BY DEF Row
<1> HIDE DEF E, X
<1>6. \A i \in S : l[i].end <= Max(E)
  BY <1>1, <1>3, <1>4
<1>7. Max(E) <= n /\ Max(E) \in Nat
  BY <1>3, <1>4
<1>8. Row(type, key, X, ops, live) \in Bodies
  <2>1. X \in SUBSET LogItems /\ Max(E) \in Nat
    BY <1>2, <1>7
  <2>2. ASSUME NEW m \in Nat, NEW Y \in SUBSET LogItems
        PROVE  [type |-> type, key |-> key, end |-> m, items |-> Y, ops |-> ops, live |-> live] \in Bodies
    BY DEF Bodies
  <2> QED  BY <2>1, <2>2, <1>5
<1>9. /\ Row(type, key, X, ops, live).key = key
      /\ Row(type, key, X, ops, live).items = X
      /\ Row(type, key, X, ops, live).end = Max(E)
  BY <1>5
<1> QED  BY <1>2, <1>6, <1>7, <1>8, <1>9 DEF X

(* The operations of an activity.                                           *)
LEMMA OperationsAre ==
    ASSUME NEW l \in Seq(LogItems), NEW S, S \subseteq DOMAIN l, NEW live \in BOOLEAN
    PROVE  Operations(l, S, live) \in SUBSET TraceOperations
<1>1. \A i \in DOMAIN l : Outcome(l, i, live) \in {"preview", "running", "completed", "over"}
  <2> SUFFICES ASSUME NEW i \in DOMAIN l
               PROVE  Outcome(l, i, live) \in {"preview", "running", "completed", "over"}
    OBVIOUS
  <2>1. CASE l[i].kind = "progress"
    BY <2>1 DEF Outcome
  <2>2. CASE l[i].kind = "done"
    BY <2>2 DEF Outcome
  <2>3. CASE l[i].kind # "progress" /\ l[i].kind # "done"
    BY <2>3 DEF Outcome
  <2> QED  BY <2>1, <2>2, <2>3
<1>2. \A i \in DOMAIN l : l[i].key \in Nat
  <2>1. \A i \in DOMAIN l : l[i] \in LogItems
    OBVIOUS
  <2> QED  BY <2>1 DEF LogItems
<1>3. \A i \in DOMAIN l : <<l[i].key, Outcome(l, i, live)>> \in TraceOperations
  BY <1>1, <1>2 DEF TraceOperations
<1> QED  BY <1>3 DEF Operations, OwnOperations

(* What a row of the projection is made of.                                 *)
RowOver(r, l, S) ==
    /\ S \subseteq DOMAIN l /\ Min(S) \in S /\ \A i \in S : Min(S) <= i
    /\ r.key = l[Min(S)].key /\ r.items = {l[i] : i \in S}

(* The activities of a block are well-formed rows over their members.       *)
LEMMA ActivityIs ==
    ASSUME NEW l \in Seq(LogItems), NEW live \in BOOLEAN, NEW n \in Nat, \A i \in DOMAIN l : l[i].end <= n,
           NEW g \in Groups(l)
    PROVE  LET r == ActivityRow(l, g, live)
           IN /\ r \in Bodies /\ RowOver(r, l, MembersOf(l, g)) /\ r.type = "activity"
              /\ r.end <= n /\ \A x \in r.items : x.end <= r.end
<1> DEFINE S == MembersOf(l, g)
           r == ActivityRow(l, g, live)
<1>1. S \subseteq DOMAIN l /\ S # {} /\ Min(S) \in S /\ Min(S) \in DOMAIN l /\ \A i \in S : Min(S) <= i
  BY MembersAre
<1>2. l[Min(S)] \in LogItems
  BY <1>1
<1>3. l[Min(S)].key \in Nat
  BY <1>2 DEF LogItems
<1>4. Operations(l, S, live) \in SUBSET TraceOperations
  BY <1>1, OperationsAre
<1>5. IsLive(l, g, live) \in BOOLEAN
  BY DEF IsLive
<1>6. r = Row("activity", l[Min(S)].key, ItemsOf(l, S), Operations(l, S, live), IsLive(l, g, live))
  BY DEF ActivityRow
<1>7. \A i \in S : l[i].end <= n
  BY <1>1
<1> HIDE DEF S, r
<1>8. /\ r \in Bodies /\ r.key = l[Min(S)].key /\ r.items = {l[i] : i \in S} /\ r.end <= n
      /\ \A i \in S : l[i].end <= r.end
  <2>1. PICK ops \in SUBSET TraceOperations, v \in BOOLEAN : r = Row("activity", l[Min(S)].key, ItemsOf(l, S), ops, v)
    BY <1>4, <1>5, <1>6
  <2> QED  BY <1>1, <1>3, <1>7, <2>1, RowIs
<1>9. r.type = "activity"
  BY <1>6 DEF Row
<1> QED  BY <1>1, <1>8, <1>9 DEF S, r, RowOver

(* So are its messages, each over one item.                                 *)
LEMMA MessageIs ==
    ASSUME NEW l \in Seq(LogItems), NEW n \in Nat, \A i \in DOMAIN l : l[i].end <= n, NEW i \in DOMAIN l
    PROVE  LET r == Row("message", l[i].key, {l[i]}, {}, FALSE)
           IN /\ r \in Bodies /\ RowOver(r, l, {i}) /\ r.type = "message"
              /\ r.end <= n /\ \A x \in r.items : x.end <= r.end
<1> DEFINE r == Row("message", l[i].key, {l[i]}, {}, FALSE)
<1>1. {i} \subseteq DOMAIN l /\ {i} # {} /\ \A j \in {i} : l[j].end <= n
  OBVIOUS
<1>2. l[i] \in LogItems
  OBVIOUS
<1>3. l[i].key \in Nat
  BY <1>2 DEF LogItems
<1>4. {} \in SUBSET TraceOperations /\ ItemsOf(l, {i}) = {l[i]}
  BY DEF ItemsOf
<1>5. Min({i}) = i
  <2>1. {i} \subseteq Nat /\ {i} # {}
    OBVIOUS
  <2> QED  BY <2>1, MinIs
<1>6. /\ r \in Bodies /\ r.key = l[i].key /\ r.items = {l[j] : j \in {i}} /\ r.end <= n
      /\ \A j \in {i} : l[j].end <= r.end
  <2> HIDE DEF r
  <2>1. r = Row("message", l[i].key, ItemsOf(l, {i}), {}, FALSE)
    BY <1>4 DEF r
  <2>0. PICK S : S = {i}
    OBVIOUS
  <2>2. PICK ops \in SUBSET TraceOperations, v \in BOOLEAN : r = Row("message", l[i].key, ItemsOf(l, S), ops, v)
    BY <1>4, <2>0, <2>1
  <2>3. S \subseteq DOMAIN l /\ S # {} /\ \A j \in S : l[j].end <= n
    BY <1>1, <2>0
  <2>4. /\ r \in Bodies /\ r.key = l[i].key /\ r.items = {l[j] : j \in S} /\ r.end <= n
        /\ \A j \in S : l[j].end <= r.end
    BY <1>3, <2>2, <2>3, RowIs
  <2> QED  BY <2>0, <2>4
<1>7. r.type = "message"
  BY DEF Row
<1> HIDE DEF r
<1>8. \A x \in r.items : x.end <= r.end
  BY <1>6
<1>9. RowOver(r, l, {i})
  BY <1>5, <1>6 DEF RowOver
<1> QED  BY <1>6, <1>7, <1>8, <1>9 DEF r

(* So is the row of its failures.                                           *)
LEMMA FailureIs ==
    ASSUME NEW l \in Seq(LogItems), NEW live \in BOOLEAN, NEW n \in Nat, \A i \in DOMAIN l : l[i].end <= n,
           NEW r \in Failures(l, live)
    PROVE  /\ r \in Bodies /\ RowOver(r, l, {i \in DOMAIN l : l[i].kind \in Errors}) /\ r.type = "failure"
           /\ r.end <= n /\ \A x \in r.items : x.end <= r.end
<1> DEFINE S == {i \in DOMAIN l : l[i].kind \in Errors}
           completed == S # {} /\ \E i \in Max(S)..Len(l) : l[i].kind \in Results
           ops == IF completed THEN {<<0, "completed">>} ELSE {}
<1>1. S # {} /\ r = Row("failure", l[Min(S)].key, ItemsOf(l, S), ops, live)
  BY DEF Failures
<1>2. ops \in SUBSET TraceOperations
  BY DEF TraceOperations
<1>3. S \subseteq DOMAIN l /\ S \subseteq Nat
  OBVIOUS
<1> HIDE DEF S, ops
<1>4. Min(S) \in S /\ \A i \in S : Min(S) <= i
  BY <1>1, <1>3, MinIs
<1>5. l[Min(S)] \in LogItems
  BY <1>3, <1>4
<1>6. l[Min(S)].key \in Nat
  BY <1>5 DEF LogItems
<1>7. /\ r \in Bodies /\ r.key = l[Min(S)].key /\ r.items = {l[i] : i \in S} /\ r.end <= n
      /\ \A i \in S : l[i].end <= r.end
  <2>1. \A i \in S : l[i].end <= n
    BY <1>3
  <2> QED  BY <2>1, <1>1, <1>2, <1>3, <1>6, RowIs
<1>8. r.type = "failure"
  BY <1>1 DEF Row
<1> QED  BY <1>3, <1>4, <1>7, <1>8 DEF S, RowOver

(* The rows of a projection are well-formed; the key of each is the key of  *)
(* one of its items.                                                        *)
LEMMA ProjectedIs ==
    ASSUME NEW l \in Seq(LogItems), NEW live \in BOOLEAN, NEW n \in Nat, \A i \in DOMAIN l : l[i].end <= n,
           NEW r \in ProjectConversation(l, live)
    PROVE  /\ r \in Bodies /\ r.end <= n /\ \A x \in r.items : x.end <= r.end
           /\ \E S : RowOver(r, l, S)
           /\ \E i \in DOMAIN l : r.key = l[i].key /\ l[i] \in r.items
<1>1. /\ r \in Bodies /\ r.end <= n /\ \A x \in r.items : x.end <= r.end
      /\ \E S : RowOver(r, l, S)
  <2>1. CASE r \in Activities(l, live)
    <3>1. PICK g \in Groups(l) : r = ActivityRow(l, g, live)
      BY <2>1 DEF Activities
    <3> QED  BY <3>1, ActivityIs
  <2>2. CASE r \in Messages(l)
    <3>1. PICK i \in DOMAIN l : r = Row("message", l[i].key, {l[i]}, {}, FALSE)
      BY <2>2 DEF Messages
    <3> QED  BY <3>1, MessageIs
  <2>3. CASE r \in Failures(l, live)
    BY <2>3, FailureIs
  <2> QED  BY <2>1, <2>2, <2>3 DEF ProjectConversation
<1>2. PICK S : RowOver(r, l, S)
  BY <1>1
<1>3. \E i \in DOMAIN l : r.key = l[i].key /\ l[i] \in r.items
  BY <1>2 DEF RowOver
<1> QED  BY <1>1, <1>3

-----------------------------------------------------------------------------
(* The stored conversation.                                                 *)

(* The items of a block follow one another and cover its events.            *)
Covers(l, start, end) ==
    /\ start <= end + 1
    /\ \A i \in DOMAIN l : start <= l[i].key /\ l[i].key <= l[i].end /\ l[i].end <= end
    /\ \A i, j \in DOMAIN l : i < j => l[i].end < l[j].key
    /\ \A e \in start..end : \E i \in DOMAIN l : l[i].key <= e /\ e <= l[i].end

StoredOk(st, cursor) ==
    /\ st \in [rows : [Seqs -> Rows], start : Nat, items : Seq(LogItems)]
    /\ 1 <= st.start /\ Covers(st.items, st.start, cursor)
    /\ \A k \in Seqs : st.rows[k].revision <= cursor /\ st.rows[k].block <= k

(* A row that a commit changes gets a revision of the commit.               *)
Revised(old, new, from, to) ==
    \A k \in Seqs : new[k] = old[k] \/ (from < new[k].revision /\ new[k].revision <= to)

(* The fields of an item.                                                   *)
LEMMA ItemFields ==
    ASSUME NEW l \in Seq(LogItems), NEW i \in DOMAIN l
    PROVE  l[i] \in LogItems /\ l[i].key \in Nat /\ l[i].end \in Nat /\ l[i].kind \in AllKinds
<1>1. l[i] \in LogItems
  OBVIOUS
<1> QED  BY <1>1 DEF LogItems

(* The next event is added to the items of its block.                       *)
LEMMA AppendIs ==
    ASSUME NEW l \in Seq(LogItems), NEW start \in Nat, NEW c \in Nat, Covers(l, start, c), NEW kind \in AllKinds
    PROVE  /\ AppendHistoryEvent(l, kind, c + 1) \in Seq(LogItems)
           /\ Covers(AppendHistoryEvent(l, kind, c + 1), start, c + 1)
<1> DEFINE new == AppendHistoryEvent(l, kind, c + 1)
           n == Len(l)
<1>0. n \in Nat /\ DOMAIN l = 1..n
  OBVIOUS
<1>a. \A i \in DOMAIN l : start <= l[i].key /\ l[i].key <= l[i].end /\ l[i].end <= c
  BY DEF Covers
<1>b. \A i, j \in DOMAIN l : i < j => l[i].end < l[j].key
  BY DEF Covers
<1>1. CASE kind \in Prose /\ l # <<>> /\ Last(l).kind = kind
  <2>1. new = [l EXCEPT ![n].end = c + 1]
    BY <1>1 DEF AppendHistoryEvent
  <2>2. n \in DOMAIN l
    BY <1>1
  <2>3. l[n] \in LogItems /\ [l[n] EXCEPT !.end = c + 1] \in LogItems
    <3>1. l[n] \in LogItems
      BY <2>2, ItemFields
    <3>2. ASSUME NEW y \in LogItems, NEW m \in Nat PROVE [y EXCEPT !.end = m] \in LogItems
      BY DEF LogItems
    <3>3. c + 1 \in Nat
      OBVIOUS
    <3> QED  BY <3>1, <3>2, <3>3
  <2>4. new \in Seq(LogItems) /\ DOMAIN new = DOMAIN l
    BY <2>1, <2>2, <2>3
  <2>5. \A i \in DOMAIN l : /\ i # n => new[i] = l[i]
                            /\ i = n => new[i].key = l[i].key /\ new[i].end = c + 1
    BY <2>1, <2>2, <2>3 DEF LogItems
  <2> HIDE DEF new, n
  <2>6. \A i \in DOMAIN l : l[i].key \in Nat /\ l[i].end \in Nat
    BY ItemFields
  <2>7. \A i \in DOMAIN new : start <= new[i].key /\ new[i].key <= new[i].end /\ new[i].end <= c + 1
    BY <2>4, <2>5, <2>6, <1>a
  <2>8. ASSUME NEW i \in DOMAIN new, NEW j \in DOMAIN new, i < j PROVE new[i].end < new[j].key
    <3>1. i \in DOMAIN l /\ j \in DOMAIN l /\ i # n
      BY <2>4, <2>8, <1>0
    <3>2. new[i].end = l[i].end /\ new[j].key = l[j].key
      BY <3>1, <2>5
    <3> QED  BY <3>1, <3>2, <2>8, <1>b
  <2>9. \A e \in start..(c + 1) : \E i \in DOMAIN new : new[i].key <= e /\ e <= new[i].end
    <3> SUFFICES ASSUME NEW e \in start..(c + 1) PROVE \E i \in DOMAIN new : new[i].key <= e /\ e <= new[i].end
      OBVIOUS
    <3>1. CASE e = c + 1
      <4>1. n \in DOMAIN new /\ new[n].key = l[n].key /\ new[n].end = c + 1 /\ l[n].key <= l[n].end /\ l[n].end <= c
        BY <2>2, <2>4, <2>5, <1>a
      <4>2. l[n].key \in Nat /\ l[n].end \in Nat
        BY <2>2, <2>6
      <4>3. new[n].key <= e /\ e <= new[n].end
        BY <3>1, <4>1, <4>2
      <4> QED  BY <4>1, <4>3
    <3>2. CASE e # c + 1
      <4>1. PICK i \in DOMAIN l : l[i].key <= e /\ e <= l[i].end
        BY <3>2 DEF Covers
      <4> QED  BY <4>1, <2>4, <2>5, <2>6
    <3> QED  BY <3>1, <3>2
  <2>10. start <= (c + 1) + 1
    BY DEF Covers
  <2> QED  BY <2>4, <2>7, <2>8, <2>9, <2>10 DEF Covers, new
<1>2. CASE ~(kind \in Prose /\ l # <<>> /\ Last(l).kind = kind)
  <2> DEFINE x == [key |-> c + 1, end |-> c + 1, kind |-> kind]
  <2>1. new = Append(l, x)
    BY <1>2 DEF AppendHistoryEvent
  <2>2. x \in LogItems /\ x.key = c + 1 /\ x.end = c + 1
    BY DEF LogItems
  <2> HIDE DEF x
  <2>3. /\ new \in Seq(LogItems) /\ DOMAIN new = 1..(n + 1)
        /\ \A i \in DOMAIN l : i \in DOMAIN new /\ new[i] = l[i]
        /\ n + 1 \in DOMAIN new /\ new[n + 1] = x
    <3>1. Len(new) = n + 1 /\ new \in Seq(LogItems) /\ DOMAIN new = 1..Len(new)
      BY <2>1, <2>2
    <3>2. \A i \in DOMAIN l : i \in DOMAIN new /\ new[i] = l[i]
      BY <2>1, <3>1, <1>0
    <3>3. n + 1 \in DOMAIN new /\ new[n + 1] = x
      BY <2>1, <3>1, <1>0
    <3> QED  BY <3>1, <3>2, <3>3
  <2> HIDE DEF new, n
  <2>4. \A i \in DOMAIN new : i \in DOMAIN l \/ i = n + 1
    BY <2>3, <1>0
  <2>6. \A i \in DOMAIN l : l[i].key \in Nat /\ l[i].end \in Nat
    BY ItemFields
  <2>7. \A i \in DOMAIN new : start <= new[i].key /\ new[i].key <= new[i].end /\ new[i].end <= c + 1
    <3>1. start <= c + 1
      BY DEF Covers
    <3> QED  BY <2>2, <2>3, <2>4, <2>6, <1>a, <3>1
  <2>8. \A i, j \in DOMAIN new : i < j => new[i].end < new[j].key
    BY <2>2, <2>3, <2>4, <2>6, <1>0, <1>a, <1>b
  <2>9. \A e \in start..(c + 1) : \E i \in DOMAIN new : new[i].key <= e /\ e <= new[i].end
    <3> SUFFICES ASSUME NEW e \in start..(c + 1) PROVE \E i \in DOMAIN new : new[i].key <= e /\ e <= new[i].end
      OBVIOUS
    <3>1. CASE e = c + 1
      BY <3>1, <2>2, <2>3
    <3>2. CASE e # c + 1
      <4>1. PICK i \in DOMAIN l : l[i].key <= e /\ e <= l[i].end
        BY <3>2 DEF Covers
      <4> QED  BY <4>1, <2>3
    <3> QED  BY <3>1, <3>2
  <2>10. start <= (c + 1) + 1
    BY DEF Covers
  <2> QED  BY <2>3, <2>7, <2>8, <2>9, <2>10 DEF Covers, new
<1> QED  BY <1>1, <1>2

(* The row of a key before and after its block is saved with the rows at.   *)
SavedRow(old, new, k, at, start, c, revision) ==
    /\ at # {} =>
          /\ start <= k /\ k <= c /\ new.body \in at /\ new.body # None
          /\ new = old \/ new = [block |-> start, revision |-> revision, body |-> new.body]
    /\ at = {} => IF old.block = start /\ old.body # None
                  THEN new = [old EXCEPT !.revision = revision, !.body = None]
                  ELSE new = old
RowsAt(l, live, k) == {r \in ProjectConversation(l, live) : r.key = k}

(* saveBlock writes the projection of the block: the row of a key is the    *)
(* projected one, a row of the block that is gone has no body, and what is  *)
(* the same or of another block stays.                                      *)
LEMMA SaveBlockIs ==
    ASSUME NEW rows \in [Seqs -> Rows], NEW l \in Seq(LogItems), NEW start \in Nat, NEW c \in Nat, Covers(l, start, c),
           NEW revision \in Nat, NEW live \in BOOLEAN, NEW out, out = SaveBlock(rows, start, l, revision, live)
    PROVE  /\ out \in [Seqs -> Rows]
           /\ \A k \in Seqs : SavedRow(rows[k], out[k], k, RowsAt(l, live, k), start, c, revision)
<1> DEFINE At(k) == {r \in ProjectConversation(l, live) : r.key = k}
           New(k) == IF At(k) # {}
                     THEN LET body == CHOOSE r \in At(k) : TRUE
                          IN IF rows[k].body = body THEN rows[k]
                             ELSE [block |-> start, revision |-> revision, body |-> body]
                     ELSE IF rows[k].block = start /\ rows[k].body # None
                          THEN [rows[k] EXCEPT !.revision = revision, !.body = None] ELSE rows[k]
<1>1. out = [k \in Seqs |-> New(k)]
  BY DEF SaveBlock
<1>2. ASSUME NEW k \in Seqs
      PROVE  /\ out[k] \in Rows
             /\ At(k) # {} => /\ start <= k /\ k <= c /\ out[k].body \in At(k) /\ out[k].body # None
                              /\ out[k] = rows[k] \/ out[k] = [block |-> start, revision |-> revision, body |-> out[k].body]
             /\ At(k) = {} => IF rows[k].block = start /\ rows[k].body # None
                              THEN out[k] = [rows[k] EXCEPT !.revision = revision, !.body = None]
                              ELSE out[k] = rows[k]
  <2>1. out[k] = New(k) /\ rows[k] \in Rows
    BY <1>1
  <2>2. CASE At(k) # {}
    <3> DEFINE body == CHOOSE r \in At(k) : TRUE
    <3>1. body \in At(k)
      BY <2>2
    <3>2. \A i \in DOMAIN l : l[i].key \in Nat /\ l[i].end \in Nat
      BY ItemFields
    <3>3. body \in ProjectConversation(l, live) /\ body.key = k
      BY <3>1
    <3>4. body \in Bodies /\ \E i \in DOMAIN l : k = l[i].key
      <4> HIDE DEF body
      <4>1. \A i \in DOMAIN l : l[i].end <= c
        BY DEF Covers
      <4> QED  BY <3>3, <4>1, ProjectedIs
    <3>5. start <= k /\ k <= c
      BY <3>2, <3>4 DEF Covers
    <3>6. out[k] = IF rows[k].body = body THEN rows[k] ELSE [block |-> start, revision |-> revision, body |-> body]
      BY <2>1, <2>2
    <3> HIDE DEF body, New
    <3>7. [block |-> start, revision |-> revision, body |-> body] \in Rows
      BY <3>4 DEF Rows
    <3>8. out[k].body = body /\ body # None
      BY <3>4, <3>6, NoneAssumption
    <3> QED  BY <2>1, <2>2, <3>1, <3>5, <3>6, <3>7, <3>8
  <2>3. CASE At(k) = {}
    <3>1. out[k] = IF rows[k].block = start /\ rows[k].body # None
                   THEN [rows[k] EXCEPT !.revision = revision, !.body = None] ELSE rows[k]
      BY <2>1, <2>3
    <3>2. [rows[k] EXCEPT !.revision = revision, !.body = None] \in Rows
      BY <2>1 DEF Rows
    <3> HIDE DEF New
    <3> QED  BY <2>1, <2>3, <3>1, <3>2
  <2> QED  BY <2>2, <2>3
<1>3. out \in [Seqs -> Rows]
  <2> HIDE DEF New, At
  <2> QED  BY <1>1, <1>2
<1> HIDE DEF New
<1> QED  BY <1>2, <1>3 DEF RowsAt, SavedRow

(* A stored row keeps its form under saveBlock, and gets at most   *)
(* the revision of the save.                                                *)
LEMMA SaveBlockOk ==
    ASSUME NEW rows \in [Seqs -> Rows], NEW l \in Seq(LogItems), NEW start \in Nat, NEW c \in Nat, Covers(l, start, c),
           NEW revision \in Nat, NEW live \in BOOLEAN, NEW out, out = SaveBlock(rows, start, l, revision, live),
           \A k \in Seqs : rows[k].block <= k
    PROVE  /\ out \in [Seqs -> Rows]
           /\ \A k \in Seqs : out[k].block <= k /\ (out[k] = rows[k] \/ out[k].revision = revision)
<1>1. out \in [Seqs -> Rows]
  BY SaveBlockIs
<1>a. \A k \in Seqs : SavedRow(rows[k], out[k], k, RowsAt(l, live, k), start, c, revision)
  BY SaveBlockIs, Zenon
<1>2. ASSUME NEW k \in Seqs PROVE out[k].block <= k /\ (out[k] = rows[k] \/ out[k].revision = revision)
  <2> DEFINE At == RowsAt(l, live, k)
  <2>1. rows[k] \in Rows /\ rows[k].block <= k
    OBVIOUS
  <2>2. CASE At # {}
    <3>1. /\ start <= k
          /\ out[k] = rows[k] \/ out[k] = [block |-> start, revision |-> revision, body |-> out[k].body]
      BY <2>2, <1>a DEF SavedRow
    <3> QED  BY <2>1, <3>1
  <2>3. CASE At = {}
    <3>1. out[k] = rows[k] \/ out[k] = [rows[k] EXCEPT !.revision = revision, !.body = None]
      BY <2>3, <1>a DEF SavedRow
    <3> QED  BY <2>1, <3>1 DEF Rows
  <2> QED  BY <2>2, <2>3
<1> QED  BY <1>1, <1>2

(* One event.                                                               *)
LEMMA TakeOk ==
    ASSUME NEW st, NEW c \in Nat, StoredOk(st, c), NEW event, event.kind \in AllKinds, event.seq = c + 1
    PROVE  /\ StoredOk(Take(st, event), c + 1) /\ Revised(st.rows, Take(st, event).rows, c, c + 1)
           /\ Take(st, event).start <= c + 1
<1>1. /\ st.rows \in [Seqs -> Rows] /\ st.start \in Nat /\ st.items \in Seq(LogItems)
      /\ Covers(st.items, st.start, c) /\ 1 <= st.start
      /\ \A k \in Seqs : st.rows[k].revision <= c /\ st.rows[k].block <= k
  BY DEF StoredOk
<1>2. \A k \in Seqs : st.rows[k].revision \in Nat /\ st.rows[k].block \in Nat
  <2>1. \A k \in Seqs : st.rows[k] \in Rows
    BY <1>1
  <2> QED  BY <2>1 DEF Rows
<1>3. CASE event.kind \in Boundaries /\ st.items # <<>>
  <2> DEFINE out == SaveBlock(st.rows, st.start, st.items, event.seq, FALSE)
             l == AppendHistoryEvent(<<>>, event.kind, event.seq)
  <2>1. Take(st, event) = [rows |-> out, start |-> c + 1, items |-> l]
    BY <1>3 DEF Take
  <2>2. /\ out \in [Seqs -> Rows]
        /\ \A k \in Seqs : out[k].block <= k /\ (out[k] = st.rows[k] \/ out[k].revision = c + 1)
    <3>1. event.seq \in Nat /\ \A k \in Seqs : st.rows[k].block <= k
      BY <1>1
    <3>2. PICK rows \in [Seqs -> Rows], l0 \in Seq(LogItems), start \in Nat, revision \in Nat, live \in BOOLEAN :
            rows = st.rows /\ l0 = st.items /\ start = st.start /\ revision = event.seq /\ live = FALSE
      BY <1>1, <3>1
    <3>3. Covers(l0, start, c) /\ \A k \in Seqs : rows[k].block <= k
      BY <1>1, <3>2
    <3>4. PICK o : o = SaveBlock(rows, start, l0, revision, live)
      OBVIOUS
    <3>5. /\ o \in [Seqs -> Rows]
          /\ \A k \in Seqs : o[k].block <= k /\ (o[k] = rows[k] \/ o[k].revision = revision)
      BY <3>3, <3>4, SaveBlockOk
    <3>6. o = out
      BY <3>2, <3>4
    <3> QED  BY <3>2, <3>5, <3>6
  <2>3. Covers(<<>>, c + 1, c) /\ c + 1 \in Nat /\ <<>> \in Seq(LogItems)
    BY DEF Covers
  <2>4. l \in Seq(LogItems) /\ Covers(l, c + 1, c + 1)
    BY <2>3, AppendIs
  <2> HIDE DEF out, l
  <2>5. StoredOk(Take(st, event), c + 1)
    BY <2>1, <2>2, <2>3, <2>4, <1>1, <1>2 DEF StoredOk
  <2>6. Revised(st.rows, Take(st, event).rows, c, c + 1)
    BY <2>1, <2>2 DEF Revised
  <2> QED  BY <2>1, <2>3, <2>5, <2>6
<1>4. CASE ~(event.kind \in Boundaries /\ st.items # <<>>)
  <2> DEFINE l == AppendHistoryEvent(st.items, event.kind, event.seq)
  <2>1. Take(st, event) = [st EXCEPT !.items = l]
    BY <1>4 DEF Take
  <2>2. l \in Seq(LogItems) /\ Covers(l, st.start, c + 1)
    BY <1>1, AppendIs
  <2> HIDE DEF l
  <2>3. /\ Take(st, event) \in [rows : [Seqs -> Rows], start : Nat, items : Seq(LogItems)]
        /\ Take(st, event).rows = st.rows /\ Take(st, event).start = st.start /\ Take(st, event).items = l
    BY <2>1, <2>2 DEF StoredOk
  <2>4. \A k \in Seqs : st.rows[k].revision <= c + 1 /\ st.rows[k].block <= k
    BY <1>1, <1>2
  <2>5. st.start <= c + 1
    BY <1>1 DEF Covers
  <2> QED  BY <2>2, <2>3, <2>4, <2>5, <1>1 DEF StoredOk, Revised
<1> QED  BY <1>3, <1>4

(* refresh takes the events one by one, through the states f, and saves the *)
(* open block.                                                              *)
Through(f, st, events, n) ==
    /\ f[0] = st /\ \A i \in 1..n : f[i] = Take(f[i - 1], events[i])
    /\ Refresh(st, events) = [f[n] EXCEPT !.rows =
                                 SaveBlock(f[n].rows, f[n].start, f[n].items, Last(events).seq, TRUE)]

(* There are such states: the recursive function of refresh exists.         *)
LEMMA RefreshIs ==
    ASSUME NEW st, NEW events, NEW n \in Nat, Len(events) = n
    PROVE  \E f : Through(f, st, events, n)
<1> DEFINE Step(f, m) == [i \in 0..m |-> IF i = 0 THEN st ELSE Take(f[i - 1], events[i])]
           Bad == {m \in 0..n : ~\E f : f = Step(f, m)}
<1>1. \E f : f = Step(f, n)
  <2> SUFFICES ASSUME Bad # {} PROVE FALSE
    OBVIOUS
  <2>1. PICK m \in Bad : \A j \in Bad : m <= j
    BY Least, Bad \subseteq Nat
  <2>2. CASE m = 0
    <3> DEFINE g == [i \in 0..m |-> st]
    <3>1. g = Step(g, m)
      BY <2>2
    <3> QED  BY <3>1, <2>1
  <2>3. CASE m # 0
    <3>1. m - 1 \in 0..n /\ m - 1 \notin Bad
      <4>1. m \in Nat /\ m \in 0..n /\ m - 1 \in 0..n
        BY <2>1, <2>3
      <4>2. ~(m <= m - 1)
        BY <4>1
      <4> HIDE DEF Bad
      <4> QED  BY <2>1, <4>1, <4>2
    <3>2. PICK f : f = Step(f, m - 1)
      BY <3>1
    <3> DEFINE g == [i \in 0..m |-> IF i = m THEN Take(f[m - 1], events[m]) ELSE f[i]]
    <3>3. \A i \in 0..m : g[i] = IF i = 0 THEN st ELSE Take(g[i - 1], events[i])
      <4> SUFFICES ASSUME NEW i \in 0..m PROVE g[i] = IF i = 0 THEN st ELSE Take(g[i - 1], events[i])
        OBVIOUS
      <4>1. CASE i = m
        <5>1. m - 1 \in 0..m /\ m - 1 # m
          BY <2>1, <2>3
        <5>2. g[m - 1] = f[m - 1]
          BY <5>1
        <5> QED  BY <4>1, <5>2, <2>3
      <4>2. CASE i # m
        <5>1. i \in 0..(m - 1) /\ m \in Nat
          BY <4>2, <2>1
        <5>2. g[i] = f[i] /\ f[i] = IF i = 0 THEN st ELSE Take(f[i - 1], events[i])
          BY <5>1, <4>2, <3>2
        <5>3. i # 0 => i - 1 \in 0..m /\ i - 1 # m
          BY <5>1
        <5>4. i # 0 => g[i - 1] = f[i - 1]
          BY <5>3
        <5> QED  BY <5>2, <5>4
      <4> QED  BY <4>1, <4>2
    <3>4. g = Step(g, m)
      BY <3>3
    <3> QED  BY <3>4, <2>1
  <2> QED  BY <2>2, <2>3
<1> DEFINE f == CHOOSE f : f = Step(f, n)
<1>2. f = Step(f, n)
  BY <1>1
<1>3. f[0] = st /\ \A i \in 1..n : f[i] = Take(f[i - 1], events[i])
  <2> HIDE DEF f
  <2> QED  BY <1>2
<1>4. Refresh(st, events) = [f[n] EXCEPT !.rows =
                                SaveBlock(f[n].rows, f[n].start, f[n].items, Last(events).seq, TRUE)]
  BY DEF Refresh
<1> HIDE DEF f
<1> QED  BY <1>3, <1>4 DEF Through

(* Revisions grow from commit to commit.                                    *)
LEMMA RevisedTwice ==
    ASSUME NEW a, NEW b \in [Seqs -> Rows], NEW d \in [Seqs -> Rows], NEW x \in Nat, NEW y \in Nat, NEW z \in Nat,
           Revised(a, b, x, y), Revised(b, d, y, z), x <= y, y <= z
    PROVE  Revised(a, d, x, z)
<1>1. \A k \in Seqs : b[k].revision \in Nat /\ d[k].revision \in Nat
  BY DEF Rows
<1>2. ASSUME NEW k \in Seqs PROVE d[k] = a[k] \/ (x < d[k].revision /\ d[k].revision <= z)
  <2>1. b[k] = a[k] \/ (x < b[k].revision /\ b[k].revision <= y)
    BY DEF Revised
  <2>2. d[k] = b[k] \/ (y < d[k].revision /\ d[k].revision <= z)
    BY DEF Revised
  <2>3. b[k].revision \in Nat /\ d[k].revision \in Nat
    BY <1>1
  <2> QED  BY <2>1, <2>2, <2>3
<1> QED  BY <1>2 DEF Revised

(* The last part of refresh: the open block is saved as live.               *)
LEMMA SaveOpenOk ==
    ASSUME NEW st, NEW c \in Nat, c > 0, StoredOk(st, c), NEW out,
           out = [st EXCEPT !.rows = SaveBlock(st.rows, st.start, st.items, c, TRUE)]
    PROVE  /\ StoredOk(out, c) /\ Revised(st.rows, out.rows, c - 1, c)
           /\ out.start = st.start /\ out.items = st.items
           /\ \A k \in Seqs : SavedRow(st.rows[k], out.rows[k], k, RowsAt(st.items, TRUE, k), st.start, c, c)
<1>1. /\ st.rows \in [Seqs -> Rows] /\ st.start \in Nat /\ st.items \in Seq(LogItems)
      /\ Covers(st.items, st.start, c) /\ 1 <= st.start
      /\ \A k \in Seqs : st.rows[k].revision <= c /\ st.rows[k].block <= k
  BY DEF StoredOk
<1>2. PICK rows \in [Seqs -> Rows], l \in Seq(LogItems), start \in Nat, live \in BOOLEAN :
        rows = st.rows /\ l = st.items /\ start = st.start /\ live = TRUE
  BY <1>1
<1>3. PICK new : new = SaveBlock(rows, start, l, c, live)
  OBVIOUS
<1>4. Covers(l, start, c) /\ \A k \in Seqs : rows[k].revision <= c /\ rows[k].block <= k
  BY <1>1, <1>2
<1>5. /\ new \in [Seqs -> Rows]
      /\ \A k \in Seqs : new[k].block <= k /\ (new[k] = rows[k] \/ new[k].revision = c)
  BY <1>3, <1>4, SaveBlockOk
<1>6. \A k \in Seqs : SavedRow(rows[k], new[k], k, RowsAt(l, live, k), start, c, c)
  BY <1>3, <1>4, SaveBlockIs
<1>7. /\ out \in [rows : [Seqs -> Rows], start : Nat, items : Seq(LogItems)]
      /\ out.rows = new /\ out.start = st.start /\ out.items = st.items
  BY <1>2, <1>3, <1>5 DEF StoredOk
<1>8. StoredOk(out, c)
  <2>1. \A k \in Seqs : new[k].revision <= c /\ new[k].block <= k
    BY <1>4, <1>5
  <2>2. \A k \in Seqs : out.rows[k].revision <= c /\ out.rows[k].block <= k
    BY <2>1, <1>7
  <2>3. 1 <= out.start /\ Covers(out.items, out.start, c)
    BY <1>1, <1>7
  <2> QED  BY <1>7, <2>2, <2>3 DEF StoredOk
<1>9. Revised(st.rows, out.rows, c - 1, c)
  <2>1. c - 1 < c /\ c <= c
    OBVIOUS
  <2>2. Revised(rows, new, c - 1, c)
    BY <1>5, <2>1 DEF Revised
  <2> QED  BY <1>2, <1>7, <2>2
<1>10. \A k \in Seqs : SavedRow(st.rows[k], out.rows[k], k, RowsAt(st.items, TRUE, k), st.start, c, c)
  BY <1>2, <1>6, <1>7
<1> QED  BY <1>7, <1>8, <1>9, <1>10

(* A commit.                                                                *)
LEMMA RefreshOk ==
    ASSUME NEW st, NEW c \in Nat, StoredOk(st, c), NEW events, NEW n \in Nat, n > 0, Len(events) = n,
           \A i \in 1..n : events[i].kind \in AllKinds /\ events[i].seq = c + i
    PROVE  /\ StoredOk(Refresh(st, events), c + n) /\ Revised(st.rows, Refresh(st, events).rows, c, c + n)
           /\ Refresh(st, events).start <= c + n
<1>0. PICK f : Through(f, st, events, n)
  BY RefreshIs
<1>1. /\ f[0] = st /\ \A i \in 1..n : f[i] = Take(f[i - 1], events[i])
      /\ Refresh(st, events) = [f[n] EXCEPT !.rows =
                                   SaveBlock(f[n].rows, f[n].start, f[n].items, Last(events).seq, TRUE)]
  BY <1>0 DEF Through
<1> DEFINE Good(i) == StoredOk(f[i], c + i) /\ Revised(st.rows, f[i].rows, c, c + i)
           Bad == {i \in 0..n : ~Good(i)}
<1>2. Bad = {}
  <2> SUFFICES ASSUME Bad # {} PROVE FALSE
    OBVIOUS
  <2>1. PICK i \in Bad : \A j \in Bad : i <= j
    BY Least, Bad \subseteq Nat
  <2>2. i # 0
    <3>1. Revised(st.rows, st.rows, c, c) /\ c + 0 = c
      BY DEF Revised
    <3>2. Good(0)
      BY <3>1, <1>1
    <3> QED  BY <3>2, <2>1
  <2>3. i \in 1..n /\ i - 1 \in 0..n /\ ~(i <= i - 1) /\ c + (i - 1) \in Nat /\ (c + (i - 1)) + 1 = c + i
    BY <2>1, <2>2
  <2>4. Good(i - 1)
    <3> HIDE DEF Good
    <3> QED  BY <2>1, <2>3
  <2>5. f[i] = Take(f[i - 1], events[i]) /\ events[i].kind \in AllKinds /\ events[i].seq = c + i
    BY <1>1, <2>3
  <2>6. StoredOk(f[i], c + i) /\ Revised(f[i - 1].rows, f[i].rows, c + (i - 1), c + i)
    BY <2>3, <2>4, <2>5, TakeOk
  <2>7. f[i - 1].rows \in [Seqs -> Rows] /\ f[i].rows \in [Seqs -> Rows]
    BY <2>4, <2>6 DEF StoredOk
  <2>8. Revised(st.rows, f[i].rows, c, c + i)
    <3>1. c <= c + (i - 1) /\ c + (i - 1) <= c + i /\ c + i \in Nat
      BY <2>3
    <3> QED  BY <2>3, <2>4, <2>6, <2>7, <3>1, RevisedTwice
  <2> QED  BY <2>1, <2>6, <2>8
<1>3. Good(n)
  BY <1>2
<1>4. Last(events).seq = c + n /\ c + n \in Nat /\ c + n > 0
  BY DEF Last
<1>5. /\ StoredOk(Refresh(st, events), c + n) /\ Revised(f[n].rows, Refresh(st, events).rows, (c + n) - 1, c + n)
      /\ Refresh(st, events).start = f[n].start
  <2>1. Refresh(st, events) = [f[n] EXCEPT !.rows = SaveBlock(f[n].rows, f[n].start, f[n].items, c + n, TRUE)]
    BY <1>1, <1>4
  <2>a. PICK d \in Nat : d = c + n
    BY <1>4
  <2>b. PICK g, out : g = f[n] /\ out = Refresh(st, events)
    OBVIOUS
  <2>2. d = c + n /\ g = f[n] /\ out = Refresh(st, events)
    BY <2>a, <2>b
  <2>3. StoredOk(g, d) /\ d > 0 /\ out = [g EXCEPT !.rows = SaveBlock(g.rows, g.start, g.items, d, TRUE)]
    BY <1>3, <1>4, <2>1, <2>2
  <2>4. StoredOk(out, d) /\ Revised(g.rows, out.rows, d - 1, d) /\ out.start = g.start
    BY <2>3, SaveOpenOk
  <2> QED  BY <2>2, <2>4
<1>7. f[n].start <= c + n
  <2>1. n \in 1..n /\ n - 1 \in 0..n /\ c + (n - 1) \in Nat /\ (c + (n - 1)) + 1 = c + n
    OBVIOUS
  <2>2. Good(n - 1) /\ f[n] = Take(f[n - 1], events[n]) /\ events[n].kind \in AllKinds /\ events[n].seq = c + n
    BY <1>1, <1>2, <2>1
  <2> QED  BY <2>1, <2>2, TakeOk
<1>6. Revised(st.rows, Refresh(st, events).rows, c, c + n)
  <2>1. f[n].rows \in [Seqs -> Rows] /\ Refresh(st, events).rows \in [Seqs -> Rows]
    BY <1>3, <1>5 DEF StoredOk
  <2>2. \A k \in Seqs : /\ f[n].rows[k].revision \in Nat /\ Refresh(st, events).rows[k].revision \in Nat
                        /\ f[n].rows[k] = st.rows[k] \/ (c < f[n].rows[k].revision /\ f[n].rows[k].revision <= c + n)
                        /\ \/ Refresh(st, events).rows[k] = f[n].rows[k]
                           \/ /\ (c + n) - 1 < Refresh(st, events).rows[k].revision
                              /\ Refresh(st, events).rows[k].revision <= c + n
    <3>1. \A k \in Seqs : f[n].rows[k].revision \in Nat /\ Refresh(st, events).rows[k].revision \in Nat
      BY <2>1 DEF Rows
    <3> QED  BY <3>1, <1>3, <1>5 DEF Revised
  <2> QED  BY <2>2 DEF Revised
<1> QED  BY <1>5, <1>6, <1>7

-----------------------------------------------------------------------------
(* The invariant of the follower.                                           *)

TypesOk ==
    /\ format \in Formats /\ pages \in Seq(IF format = "events" THEN EventPages ELSE Pages)
    /\ stream \in Seq(Frames) \union {None}
    /\ reader \in Readers \union {None} /\ older \in Earlier \union {None}

ServerOk ==
    /\ log \in Seq(AllKinds) /\ Cursor \in 1..MaxEvents /\ workload \in Workloads
    /\ StoredOk(stored, Cursor) /\ stored.start <= Cursor

PagesOk ==
    /\ \A i \in DOMAIN pages : pages[i].cursor <= Cursor
    /\ older # None => /\ older.captured = pages /\ format = "transcript"
                       /\ older.answer # None => older.answer.cursor <= Cursor
    /\ format = "events" => /\ Len(pages) <= 1
                            /\ pages # <<>> => pages[1].items = [i \in 1..pages[1].cursor |-> i]

(* A request for changes starts at what is applied, or within one revision  *)
(* of it; its answer goes on from there and not beyond what was asked.      *)
RequestOk(q, r, f) ==
    /\ r.applied <= q.after /\ q.after <= r.applied + 1 /\ q.after <= q.through /\ q.through <= r.target
    /\ q.afterKey = 0 => q.after = r.applied /\ q.after < q.through
    /\ q.afterKey # 0 => f = "transcript"
    /\ q.answer # None =>
         /\ q.after <= q.answer.nextAfter /\ q.answer.nextAfter <= q.through
         /\ f = "transcript" /\ q.answer.nextKey = 0 => q.answer.nextAfter = q.through
         /\ f = "events" => /\ q.answer.nextKey = 0 /\ q.after < q.answer.nextAfter
                            /\ q.answer.events = [i \in 1..(q.answer.nextAfter - q.after) |-> q.after + i]

(* A target that is not reached has a request, a retry or a timer behind it.*)
CursorsOk(r, f, cursor) ==
    /\ r.applied <= r.received /\ r.received <= cursor /\ r.target <= cursor
    /\ r.pending \subseteq 1..r.received /\ Cardinality(r.pending) <= MaxPending
    /\ f = "transcript" => r.received = r.applied /\ r.pending = {} /\ ~r.overflow
ReaderOk(r, f, cursor) ==
    /\ CursorsOk(r, f, cursor)
    /\ r.recovering <=> r.catchup # None \/ r.retry
    /\ r.catchup # None => ~r.retry
    /\ r.applied < r.target => r.recovering \/ r.projection
    /\ r.catchup # None => RequestOk(r.catchup, r, f)

(* The frames under way are the last ones; behind the snapshot the reader   *)
(* knows of everything before them.                                         *)
Live(s) == s = <<>> \/ s[1].type = "event"
Base(r) == Larger(r.applied, r.target)
StreamOk(s, r, cursor) ==
    /\ Len(s) <= Larger(MaxFrames, 1)
    /\ \A i \in DOMAIN s : s[i].seq = cursor - Len(s) + i /\ (i > 1 => s[i].type = "event")
    /\ Live(s) => cursor - Len(s) <= Larger(Base(r), r.received)
    /\ ~Live(s) => r.received <= s[1].seq \/ r.received = r.applied

(* Raw events that wait to be published follow the target without a gap, or *)
(* were dropped, and then a new connection is asked for.                    *)
Fresh(r) == {x \in r.pending : x > Base(r)}
Buffered(s, r) ==
    /\ ~r.projection
    /\ Fresh(r) = {} \/ Fresh(r) = (Base(r) + 1)..r.received
    /\ s # None /\ Live(s) => ~r.overflow /\ Fresh(r) = (Base(r) + 1)..r.received
    /\ r.overflow => r.pending = {} /\ r.received > r.target /\ r.received > r.applied
    /\ s # None => \A i \in DOMAIN s : s[i].type = "event" => s[i].seq > r.target
BufferOk(s, r) ==
    /\ Buffered(s, r)
    /\ Fresh(r) # {} /\ ~r.recovering => r.animation

ClientOk ==
    /\ reader = None => stream = None /\ older = None
    /\ reader # None =>
         /\ pages # <<>> /\ reader.applied = Last(pages).cursor
         /\ ReaderOk(reader, format, Cursor)
         /\ stream # None => StreamOk(stream, reader, Cursor)
         /\ format = "events" => BufferOk(stream, reader)

FollowOk == TypesOk /\ ServerOk /\ PagesOk /\ ClientOk

(* The invariant has the properties of the runs.                            *)
LEMMA FollowImplies == FollowOk => TypeOK /\ QuietIsCurrent
<1> SUFFICES ASSUME FollowOk PROVE TypeOK /\ QuietIsCurrent
  OBVIOUS
<1> USE DEF FollowOk
<1>0. Cursor \in Nat /\ MaxEvents \in Nat
  BY StreamAssumption DEF ServerOk
<1>1. TypeOK
  <2>1. /\ stored \in [rows : [Seqs -> Rows], start : 1..Cursor, items : Seq(LogItems)]
        /\ \A k \in Seqs : stored.rows[k].revision \in 0..Cursor /\ stored.rows[k].block \in 0..k
    <3>1. /\ stored \in [rows : [Seqs -> Rows], start : Nat, items : Seq(LogItems)]
          /\ 1 <= stored.start /\ stored.start <= Cursor + 1
          /\ \A k \in Seqs : stored.rows[k].revision <= Cursor /\ stored.rows[k].block <= k
      BY DEF ServerOk, StoredOk, Covers
    <3>2. \A k \in Seqs : stored.rows[k].revision \in Nat /\ stored.rows[k].block \in Nat
      <4>1. \A k \in Seqs : stored.rows[k] \in Rows
        BY <3>1
      <4> QED  BY <4>1 DEF Rows
    <3>3. stored.start # Cursor + 1
      BY DEF ServerOk
    <3> QED  BY <3>1, <3>2, <3>3, <1>0 DEF Seqs
  <2>2. reader # None =>
         /\ reader.applied \in 0..Cursor /\ reader.target \in 0..Cursor
         /\ reader.received \in reader.applied..Cursor
         /\ reader.pending \subseteq 1..reader.received /\ Cardinality(reader.pending) <= MaxPending
         /\ pages # <<>> /\ Last(pages).cursor >= reader.applied
    BY <1>0 DEF TypesOk, ClientOk, ReaderOk, CursorsOk, Readers
  <2>3. stream # None => Len(stream) <= Larger(MaxFrames, 1)
    BY DEF ClientOk, StreamOk
  <2> QED  BY <2>1, <2>2, <2>3 DEF TypeOK, TypesOk, ServerOk, ClientOk
<1>2. QuietIsCurrent
  <2> SUFFICES ASSUME reader # None, stream = <<>>, older = None, reader.catchup = None, ~reader.projection,
                      ~reader.retry, ~reader.animation
               PROVE  reader.applied = Cursor
    BY DEF QuietIsCurrent
  <2>1. stream # None /\ Live(stream) /\ Len(stream) = 0
    <3>1. <<>> \in Seq(Frames)
      OBVIOUS
    <3> QED  BY <3>1, NoneAssumption DEF Live
  <2>2. /\ reader.applied \in Nat /\ reader.target \in Nat /\ reader.received \in Nat
    BY DEF TypesOk, Readers
  <2>3. ReaderOk(reader, format, Cursor) /\ StreamOk(stream, reader, Cursor)
    BY <2>1 DEF ClientOk
  <2>4. reader.applied >= reader.target /\ ~reader.recovering /\ reader.applied <= reader.received /\ reader.received <= Cursor
    BY <2>2, <2>3 DEF ReaderOk, CursorsOk
  <2>5. Base(reader) = reader.applied
    BY <2>2, <2>4 DEF Base, Larger
  <2>6. Cursor <= Larger(reader.applied, reader.received)
    BY <2>1, <2>3, <2>5, <1>0 DEF StreamOk
  <2>7. Cursor <= reader.received
    BY <2>2, <2>4, <2>6, <1>0 DEF Larger
  <2>8. reader.received = reader.applied
    <3>1. CASE format = "transcript"
      BY <2>3, <3>1 DEF ReaderOk, CursorsOk
    <3>2. CASE format = "events"
      <4>1. BufferOk(stream, reader)
        BY <3>2 DEF ClientOk
      <4>2. Fresh(reader) = (reader.applied + 1)..reader.received /\ Fresh(reader) = {}
        BY <4>1, <2>1, <2>4, <2>5 DEF BufferOk, Buffered
      <4> QED  BY <4>2, <2>2, <2>4
    <3> QED  BY <3>1, <3>2, StreamAssumption DEF TypesOk
  <2> QED  BY <2>2, <2>4, <2>7, <2>8, <1>0
<1> QED  BY <1>1, <1>2

(* The fields of the reader's state.                                        *)
LEMMA ReaderFields ==
    ASSUME NEW r \in Readers
    PROVE  /\ r.applied \in Nat /\ r.received \in Nat /\ r.target \in Nat /\ r.recovering \in BOOLEAN
           /\ r.pending \in SUBSET Nat /\ r.catchup \in Requests \union {None} /\ r.projection \in BOOLEAN
           /\ r.retry \in BOOLEAN /\ r.animation \in BOOLEAN /\ r.overflow \in BOOLEAN
BY DEF Readers

(* The pages, by their format.                                              *)
LEMMA PageFields ==
    ASSUME TypesOk
    PROVE  /\ format \in {"transcript", "events"}
           /\ format = "events" => pages \in Seq(EventPages)
           /\ format = "transcript" => pages \in Seq(Pages)
           /\ \A i \in DOMAIN pages : pages[i].cursor \in Nat /\ pages[i].before \in Nat
           /\ DOMAIN pages = 1..Len(pages) /\ Len(pages) \in Nat
<1>1. format \in {"transcript", "events"}
  BY StreamAssumption DEF TypesOk
<1>2. format = "events" => pages \in Seq(EventPages)
  BY DEF TypesOk
<1>3. format = "transcript" => pages \in Seq(Pages)
  BY DEF TypesOk
<1>4. CASE format = "events"
  <2>1. \A i \in DOMAIN pages : pages[i] \in EventPages
    BY <1>2, <1>4
  <2> QED  BY <1>1, <1>2, <1>3, <1>4, <2>1 DEF EventPages
<1>5. CASE format = "transcript"
  <2>1. \A i \in DOMAIN pages : pages[i] \in Pages
    BY <1>3, <1>5
  <2> QED  BY <1>1, <1>2, <1>3, <1>5, <2>1 DEF Pages
<1> QED  BY <1>1, <1>4, <1>5

(* The first state.                                                         *)
LEMMA FollowInit == Init => FollowOk
<1> SUFFICES ASSUME Init PROVE FollowOk
  OBVIOUS
<1> DEFINE st == [rows |-> [k \in Seqs |-> NoRow], start |-> 1, items |-> <<>>]
           events == <<[kind |-> "reset", seq |-> 1]>>
<1>1. StoredOk(st, 0)
  <2>1. NoRow \in Rows /\ NoRow.revision = 0 /\ NoRow.block = 0
    BY DEF NoRow, Rows
  <2>2. Covers(<<>>, 1, 0)
    BY DEF Covers
  <2> QED  BY <2>1, <2>2 DEF StoredOk, Seqs
<1>2. StoredOk(Refresh(st, events), 0 + 1) /\ Refresh(st, events).start <= 0 + 1
  <2>1. Len(events) = 1 /\ \A i \in 1..1 : events[i].kind \in AllKinds /\ events[i].seq = 0 + i
    BY DEF AllKinds
  <2> HIDE DEF st, events
  <2>2. PICK c \in Nat, n \in Nat : c = 0 /\ n = 1
    OBVIOUS
  <2>3. StoredOk(st, c) /\ n > 0 /\ Len(events) = n /\ \A i \in 1..n : events[i].kind \in AllKinds /\ events[i].seq = c + i
    BY <1>1, <2>1, <2>2
  <2>4. StoredOk(Refresh(st, events), c + n) /\ Refresh(st, events).start <= c + n
    BY <2>3, RefreshOk
  <2> QED  BY <2>2, <2>4
<1>3. ServerOk
  <2>1. log \in Seq(AllKinds) /\ Cursor = 1
    BY DEF Init, Cursor, AllKinds
  <2>2. stored = Refresh(st, events)
    BY DEF Init, Created
  <2> HIDE DEF st, events
  <2> QED  BY <2>1, <2>2, <1>2, StreamAssumption DEF ServerOk, Init
<1>4. TypesOk
  <2>1. format \in Formats /\ stream = None /\ reader = None /\ older = None
    BY DEF Init
  <2>2. CASE format = "events"
    <3>1. Checkpoint \in EventPages
      BY DEF Checkpoint, EventPages
    <3>2. pages = <<Checkpoint>>
      BY <2>2 DEF Init
    <3>3. pages \in Seq(EventPages)
      BY <3>1, <3>2
    <3> QED  BY <2>1, <2>2, <3>3 DEF TypesOk
  <2>3. CASE format # "events"
    BY <2>1, <2>3 DEF TypesOk, Init
  <2> QED  BY <2>2, <2>3
<1>5. PagesOk
  <2>1. Cursor = 1
    BY DEF Init, Cursor
  <2>2. <<1>> = [i \in 1..1 |-> i]
    OBVIOUS
  <2>3. CASE format = "events"
    <3>1. pages = <<Checkpoint>> /\ Len(pages) = 1 /\ pages[1] = Checkpoint
      BY <2>3 DEF Init
    <3> QED  BY <3>1, <2>1, <2>2 DEF PagesOk, Checkpoint, Init
  <2>4. CASE format # "events"
    BY <2>4 DEF PagesOk, Init
  <2> QED  BY <2>3, <2>4
<1>6. ClientOk
  BY DEF ClientOk, Init
<1> QED  BY <1>3, <1>4, <1>5, <1>6 DEF FollowOk

(* A commit: what it does to the server.                                    *)
LEMMA CommitServer ==
    ASSUME FollowOk, Commit
    PROVE  \E n \in Nat : \E frames \in Seq(Frames) :
              /\ n > 0 /\ ServerOk' /\ Cursor' = Cursor + n /\ Revised(stored.rows, stored'.rows, Cursor, Cursor')
              /\ Len(frames) = n /\ \A i \in 1..n : frames[i] = [type |-> "event", seq |-> Cursor + i]
              /\ stream' = Enqueue(frames)
              /\ UNCHANGED <<format, pages, reader, older, workload, troubles>>
<1>0. Cursor \in Nat /\ Cursor > 0 /\ log \in Seq(AllKinds)
  BY DEF FollowOk, ServerOk
<1>1. PICK n \in 1..MaxBatch : \E batch \in [1..n -> workload \intersect AllKinds] : AppendEvents(batch)
  BY DEF Commit
<1>2. PICK batch \in [1..n -> workload \intersect AllKinds] : AppendEvents(batch)
  BY <1>1
<1>3. n \in Nat /\ n > 0
  BY <1>1, StreamAssumption
<1>4. batch \in Seq(AllKinds) /\ Len(batch) = n /\ DOMAIN batch = 1..n
  BY <1>3
<1>5. log' \in Seq(AllKinds) /\ Cursor' = Cursor + n /\ Cursor + n <= MaxEvents
  <2>1. log' = log \o batch /\ Cursor + n <= MaxEvents
    BY <1>2, <1>4 DEF AppendEvents
  <2>2. log' \in Seq(AllKinds) /\ Len(log') = Len(log) + Len(batch)
    <3>1. ASSUME NEW S, NEW a \in Seq(S), NEW b \in Seq(S) PROVE a \o b \in Seq(S) /\ Len(a \o b) = Len(a) + Len(b)
      OBVIOUS
    <3> QED  BY <2>1, <1>0, <1>4, <3>1
  <2> QED  BY <2>1, <2>2, <1>4 DEF Cursor
<1> DEFINE events == Numbered(batch)
           frames == [i \in DOMAIN batch |-> [type |-> "event", seq |-> Cursor + i]]
<1>6. Len(events) = n /\ \A i \in 1..n : events[i].kind \in AllKinds /\ events[i].seq = Cursor + i
  BY <1>3, <1>4 DEF Numbered
<1>7. frames \in Seq(Frames) /\ Len(frames) = n /\ \A i \in 1..n : frames[i] = [type |-> "event", seq |-> Cursor + i]
  <2>1. \A i \in 1..n : [type |-> "event", seq |-> Cursor + i] \in Frames
    BY <1>0 DEF Frames
  <2>2. frames = [i \in 1..n |-> [type |-> "event", seq |-> Cursor + i]]
    BY <1>4
  <2> QED  BY <2>1, <2>2, <1>3
<1>8. /\ stored' = Refresh(stored, events) /\ stream' = Enqueue(frames)
      /\ UNCHANGED <<format, pages, reader, older, workload, troubles>>
  BY <1>2 DEF AppendEvents
<1> HIDE DEF events, frames
<1>9. StoredOk(stored', Cursor + n) /\ Revised(stored.rows, stored'.rows, Cursor, Cursor + n) /\ stored'.start <= Cursor + n
  <2>1. StoredOk(stored, Cursor)
    BY DEF FollowOk, ServerOk
  <2> QED  BY <2>1, <1>0, <1>3, <1>6, <1>8, RefreshOk
<1>10. ServerOk'
  BY <1>0, <1>3, <1>5, <1>8, <1>9, StreamAssumption DEF ServerOk, FollowOk
<1> QED  BY <1>3, <1>5, <1>7, <1>8, <1>9, <1>10

(* A commit: the frames it adds are the last ones.                          *)
LEMMA CommitStep == FollowOk /\ Commit => FollowOk'
<1> SUFFICES ASSUME FollowOk, Commit PROVE FollowOk'
  OBVIOUS
<1>1. PICK n \in Nat : \E frames \in Seq(Frames) :
              /\ n > 0 /\ ServerOk' /\ Cursor' = Cursor + n /\ Revised(stored.rows, stored'.rows, Cursor, Cursor')
              /\ Len(frames) = n /\ \A i \in 1..n : frames[i] = [type |-> "event", seq |-> Cursor + i]
              /\ stream' = Enqueue(frames)
              /\ UNCHANGED <<format, pages, reader, older, workload, troubles>>
  BY CommitServer
<1>2. PICK frames \in Seq(Frames) :
              /\ n > 0 /\ ServerOk' /\ Cursor' = Cursor + n
              /\ Len(frames) = n /\ \A i \in 1..n : frames[i] = [type |-> "event", seq |-> Cursor + i]
              /\ stream' = Enqueue(frames)
              /\ UNCHANGED <<format, pages, reader, older, workload, troubles>>
  BY <1>1
<1>0. Cursor \in Nat /\ Cursor > 0 /\ Cursor' \in Nat /\ Cursor <= Cursor'
  BY <1>2 DEF FollowOk, ServerOk
<1>3. CASE stream' = None
  <2>1. TypesOk'
    BY <1>2, <1>3 DEF FollowOk, TypesOk
  <2>2. PagesOk'
    <3>1. \A i \in DOMAIN pages : pages[i].cursor \in Nat
      BY PageFields DEF FollowOk
    <3>2. older # None /\ older.answer # None => older.answer.cursor \in Nat
      BY DEF FollowOk, TypesOk, Earlier, Pages
    <3> QED  BY <1>0, <1>2, <3>1, <3>2 DEF FollowOk, PagesOk
  <2>3. reader # None => ReaderOk(reader, format, Cursor')
    BY <1>0, ReaderFields DEF FollowOk, TypesOk, ClientOk, ReaderOk, CursorsOk
  <2>4. reader # None /\ format = "events" => BufferOk(None, reader)
    BY DEF FollowOk, ClientOk, BufferOk, Buffered
  <2>5. ClientOk'
    BY <1>2, <1>3, <2>3, <2>4 DEF FollowOk, ClientOk
  <2> QED  BY <1>2, <2>1, <2>2, <2>5 DEF FollowOk
<1>4. CASE stream' # None
  <2> DEFINE s == stream \o frames
  <2>1. stream # None /\ stream' = s /\ Len(stream) + Len(frames) <= MaxFrames
    <3>1. stream' = IF stream = None \/ Len(stream) + Len(frames) > MaxFrames THEN None ELSE stream \o frames
      BY <1>2 DEF Enqueue
    <3>2. ~(stream = None \/ Len(stream) + Len(frames) > MaxFrames)
      BY <3>1, <1>4
    <3>3. Len(stream) \in Nat /\ MaxFrames \in Nat
      BY <3>2, StreamAssumption DEF FollowOk, TypesOk
    <3> QED  BY <3>1, <3>2, <3>3, <1>2
  <2>2. stream \in Seq(Frames)
    BY <2>1 DEF FollowOk, TypesOk
  <2>3. /\ s \in Seq(Frames) /\ Len(s) = Len(stream) + n /\ DOMAIN s = 1..Len(s) /\ Len(stream) \in Nat
        /\ \A i \in 1..Len(s) : s[i] = IF i <= Len(stream) THEN stream[i] ELSE frames[i - Len(stream)]
    BY <2>2, <1>2
  <2>4. reader # None /\ reader \in Readers
    BY <2>1 DEF FollowOk, ClientOk, TypesOk
  <2>5. /\ reader.applied \in Nat /\ reader.received \in Nat /\ reader.target \in Nat
    BY <2>4, ReaderFields
  <2>6. /\ ReaderOk(reader, format, Cursor) /\ StreamOk(stream, reader, Cursor)
        /\ format = "events" => BufferOk(stream, reader)
    BY <2>1, <2>4 DEF FollowOk, ClientOk
  <2> HIDE DEF s
  <2>7. \A i \in DOMAIN s : s[i].seq = Cursor' - Len(s) + i /\ (i > 1 => s[i].type = "event")
    <3> SUFFICES ASSUME NEW i \in DOMAIN s PROVE s[i].seq = Cursor' - Len(s) + i /\ (i > 1 => s[i].type = "event")
      OBVIOUS
    <3>1. CASE i <= Len(stream)
      <4>1. i \in DOMAIN stream /\ s[i] = stream[i]
        BY <2>2, <2>3, <3>1
      <4>2. stream[i].seq = Cursor - Len(stream) + i /\ (i > 1 => stream[i].type = "event")
        BY <2>6, <4>1 DEF StreamOk
      <4> QED  BY <4>1, <4>2, <2>3, <1>0, <1>2
    <3>2. CASE ~(i <= Len(stream))
      <4>1. i - Len(stream) \in 1..n /\ s[i] = frames[i - Len(stream)]
        BY <2>3, <3>2
      <4>2. s[i] = [type |-> "event", seq |-> Cursor + (i - Len(stream))]
        BY <4>1, <1>2
      <4> QED  BY <4>2, <2>3, <1>0, <1>2
    <3> QED  BY <3>1, <3>2
  <2>8. Live(s) <=> Live(stream)
    <3>1. CASE stream = <<>>
      <4>1. s[1] = frames[1] /\ frames[1].type = "event"
        BY <3>1, <2>3, <1>2
      <4> QED  BY <4>1, <3>1 DEF Live
    <3>2. CASE stream # <<>>
      <4>1. Len(stream) >= 1 /\ Len(s) >= 1
        BY <3>2, <2>2, <2>3, <1>2
      <4>2. s[1] = stream[1] /\ s # <<>>
        BY <4>1, <2>3
      <4> QED  BY <4>2, <3>2 DEF Live
    <3> QED  BY <3>1, <3>2
  <2>9. ~Live(stream) => s[1] = stream[1]
    <3>1. ~Live(stream) => Len(stream) >= 1
      BY <2>2 DEF Live
    <3> QED  BY <3>1, <2>3, <1>2
  <2>10. Cursor' - Len(s) = Cursor - Len(stream) /\ Len(s) <= Larger(MaxFrames, 1)
    BY <2>1, <2>3, <1>0, <1>2, StreamAssumption DEF Larger
  <2>11. StreamOk(s, reader, Cursor')
    <3>1. Live(s) => Cursor' - Len(s) <= Larger(Base(reader), reader.received)
      BY <2>6, <2>8, <2>10 DEF StreamOk
    <3>2. ~Live(s) => reader.received <= s[1].seq \/ reader.received = reader.applied
      BY <2>6, <2>8, <2>9 DEF StreamOk
    <3> QED  BY <2>7, <2>10, <3>1, <3>2 DEF StreamOk
  <2>12. format = "events" => BufferOk(s, reader)
    <3> SUFFICES ASSUME format = "events" PROVE BufferOk(s, reader)
      OBVIOUS
    <3>1. BufferOk(stream, reader)
      BY <2>6
    <3>2. \A i \in DOMAIN s : s[i].type = "event" => s[i].seq > reader.target
      <4> SUFFICES ASSUME NEW i \in DOMAIN s, s[i].type = "event" PROVE s[i].seq > reader.target
        OBVIOUS
      <4>1. CASE i <= Len(stream)
        <5>1. i \in DOMAIN stream /\ s[i] = stream[i]
          BY <2>2, <2>3, <4>1
        <5> QED  BY <5>1, <3>1, <2>1 DEF BufferOk, Buffered
      <4>2. CASE ~(i <= Len(stream))
        <5>1. s[i].seq > Cursor
          BY <2>3, <2>7, <4>2, <1>0, <1>2
        <5>2. reader.target <= Cursor
          BY <2>6 DEF ReaderOk, CursorsOk
        <5> QED  BY <5>1, <5>2, <2>5, <2>7, <1>0, <2>3
      <4> QED  BY <4>1, <4>2
    <3>3. Live(s) => ~reader.overflow /\ Fresh(reader) = (Base(reader) + 1)..reader.received
      BY <3>1, <2>1, <2>8 DEF BufferOk, Buffered
    <3> QED  BY <3>1, <3>2, <3>3 DEF BufferOk, Buffered
  <2>13. ReaderOk(reader, format, Cursor')
    BY <1>0, <2>5, <2>6 DEF ReaderOk, CursorsOk
  <2>14. ClientOk'
    BY <1>2, <2>1, <2>4, <2>11, <2>12, <2>13 DEF FollowOk, ClientOk
  <2>15. TypesOk'
    BY <1>2, <2>1, <2>3 DEF FollowOk, TypesOk
  <2>16. PagesOk'
    <3>1. \A i \in DOMAIN pages : pages[i].cursor \in Nat
      BY PageFields DEF FollowOk
    <3>2. older # None /\ older.answer # None => older.answer.cursor \in Nat
      BY DEF FollowOk, TypesOk, Earlier, Pages
    <3> QED  BY <1>0, <1>2, <3>1, <3>2 DEF FollowOk, PagesOk
  <2> QED  BY <1>2, <2>14, <2>15, <2>16 DEF FollowOk
<1> QED  BY <1>3, <1>4

-----------------------------------------------------------------------------
(* Reads.                                                                   *)

(* The rows of the table.                                                   *)
LEMMA StoredFields ==
    ASSUME ServerOk
    PROVE  /\ Cursor \in Nat /\ Cursor > 0 /\ MaxEvents \in Nat /\ Cursor <= MaxEvents
           /\ \A k \in Seqs : /\ stored.rows[k] \in Rows /\ stored.rows[k].revision \in Nat
                              /\ stored.rows[k].revision <= Cursor
                              /\ stored.rows[k].body # None => stored.rows[k].body \in Bodies
           /\ Seqs \subseteq Nat /\ IsFiniteSet(Seqs) /\ \A k \in Seqs : k > 0 /\ k <= MaxEvents
<1>1. Cursor \in Nat /\ Cursor > 0 /\ MaxEvents \in Nat /\ Cursor <= MaxEvents
  BY StreamAssumption DEF ServerOk
<1>2. \A k \in Seqs : stored.rows[k] \in Rows /\ stored.rows[k].revision <= Cursor
  BY DEF ServerOk, StoredOk
<1>3. \A k \in Seqs : stored.rows[k].revision \in Nat /\ stored.rows[k].body \in Bodies \union {None}
  BY <1>2 DEF Rows
<1>4. Seqs \subseteq Nat /\ IsFiniteSet(Seqs) /\ \A k \in Seqs : k > 0 /\ k <= MaxEvents
  BY <1>1, FS_Interval DEF Seqs
<1> QED  BY <1>1, <1>2, <1>3, <1>4

(* What the server shows of a row.                                          *)
LEMMA ItemIs ==
    ASSUME ServerOk, NEW k \in Visible
    PROVE  Item(k) \in Items /\ Item(k).key = k /\ Item(k).revision = stored.rows[k].revision /\ k \in Seqs
<1>1. k \in Seqs /\ stored.rows[k].body # None
  BY DEF Visible
<1>2. stored.rows[k].body \in Bodies /\ stored.rows[k].revision \in Nat /\ k \in Nat
  BY <1>1, StoredFields
<1>3. stored.rows[k].body.end \in Nat
  BY <1>2 DEF Bodies
<1> QED  BY <1>1, <1>2, <1>3 DEF Item, Items

(* The greatest of a set of keys: with one comes every greater one.         *)
LEMMA GreatestIs ==
    ASSUME NEW S, S \subseteq Nat, NEW m \in Nat, \A k \in S : k <= m, NEW n \in Nat, n > 0
    PROVE  /\ Greatest(S, n) \subseteq S
           /\ S # {} => Greatest(S, n) # {}
           /\ \A j \in Greatest(S, n) : \A k \in S : j <= k => k \in Greatest(S, n)
<1>1. Greatest(S, n) \subseteq S
  BY DEF Greatest
<1>2. IsFiniteSet(S)
  BY FS_BoundedSetOfNaturals
<1>3. ASSUME S # {} PROVE Greatest(S, n) # {}
  <2>1. PICK x \in S : x = Max(S) /\ \A y \in S : x >= y
    BY <1>3, MaxIs
  <2>2. {j \in S : j > x} = {}
    <3>1. \A y \in S : y \in Nat /\ x \in Nat
      OBVIOUS
    <3>2. \A y \in S : ~(y > x)
      BY <2>1, <3>1
    <3> QED  BY <3>2
  <2>3. Cardinality({j \in S : j > x}) < n
    BY <2>2, FS_EmptySet
  <2> QED  BY <2>1, <2>3 DEF Greatest
<1>4. ASSUME NEW j \in Greatest(S, n), NEW k \in S, j <= k PROVE k \in Greatest(S, n)
  <2> DEFINE A == {i \in S : i > j}
             B == {i \in S : i > k}
  <2>1. j \in S /\ Cardinality(A) < n
    BY DEF Greatest
  <2>2. B \in SUBSET A
    <3>1. \A i \in S : i \in Nat /\ j \in Nat /\ k \in Nat
      BY <2>1
    <3>2. \A i \in S : i > k => i > j
      BY <1>4, <3>1
    <3> QED  BY <3>2
  <2>3. IsFiniteSet(A)
    BY <1>2, FS_Subset
  <2>4. Cardinality(B) <= Cardinality(A) /\ Cardinality(A) \in Nat /\ Cardinality(B) \in Nat
    <3> HIDE DEF A, B
    <3> QED  BY <2>2, <2>3, FS_Subset, FS_CardinalityType
  <2>5. Cardinality(B) < n
    BY <2>1, <2>4
  <2> QED  BY <2>5 DEF Greatest
<1> QED  BY <1>1, <1>3, <1>4

(* A page of the conversation: the rows before a key, without a gap down to *)
(* where the page says that earlier ones begin.                             *)
LEMMA PageIs ==
    ASSUME ServerOk, NEW before \in Nat, NEW p, p = ConversationPage(before)
    PROVE  /\ p \in Pages /\ p.cursor = Cursor
           /\ \A x \in p.items : \E k \in Visible : k < before /\ x = Item(k)
           /\ \A k \in Visible : k < before /\ p.before <= k => Item(k) \in p.items
           /\ p.before # 0 => p.before \in Visible /\ p.before < before
<1> DEFINE C == {k \in Visible : k < before}
           P == Greatest(C, PageItems)
           low == IF P = C THEN 0 ELSE Min(P)
<1>1. p = [items |-> {Item(k) : k \in P}, before |-> low, cursor |-> Cursor]
  BY DEF ConversationPage
<1>2. C \subseteq Visible /\ C \subseteq Nat /\ Visible \subseteq Seqs /\ \A k \in C : k <= before
  BY StoredFields DEF Visible
<1>3. PageItems \in Nat /\ PageItems > 0 /\ Cursor \in Nat
  BY StreamAssumption, StoredFields
<1> HIDE DEF C
<1>4. P \subseteq C /\ (C # {} => P # {}) /\ \A j \in P : \A k \in C : j <= k => k \in P
  BY <1>2, <1>3, GreatestIs
<1> HIDE DEF P
<1>5. low \in Nat /\ (low # 0 => low \in P) /\ \A k \in C : low <= k => k \in P
  <2>1. CASE P = C
    BY <2>1, <1>2
  <2>2. CASE P # C
    <3>1. P \subseteq Nat /\ P # {}
      BY <2>2, <1>2, <1>4
    <3>2. Min(P) \in P /\ Min(P) \in Nat
      BY <3>1, MinIs
    <3> QED  BY <2>2, <3>2, <1>4
  <2> QED  BY <2>1, <2>2
<1> HIDE DEF low
<1>6. \A k \in P : Item(k) \in Items /\ k \in Visible /\ k < before
  BY <1>2, <1>4, ItemIs DEF C
<1>7. p.items = {Item(k) : k \in P} /\ p.before = low /\ p.cursor = Cursor
  BY <1>1
<1>8. p \in Pages
  BY <1>1, <1>3, <1>5, <1>6 DEF Pages
<1>9. \A k \in Visible : k < before /\ low <= k => k \in P
  BY <1>5 DEF C
<1> QED  BY <1>5, <1>6, <1>7, <1>8, <1>9

(* The order of changes: by revision, then by key.                          *)
Precedes(rows, j, k) == rows[j].revision < rows[k].revision \/ (rows[j].revision = rows[k].revision /\ j < k)

(* It has a last element on every set of keys.                              *)
LEMMA LastChange ==
    ASSUME ServerOk, NEW S, S \subseteq Seqs, S # {}
    PROVE  \E k \in S : \A j \in S : j = k \/ Precedes(stored.rows, j, k)
<1> DEFINE rev(k) == stored.rows[k].revision
           R == {rev(k) : k \in S}
<1>1. \A k \in S : rev(k) \in Nat /\ rev(k) <= Cursor /\ k \in Nat /\ k <= MaxEvents
  BY StoredFields
<1>2. PICK r \in R : \A q \in R : r >= q
  <2>1. R \subseteq Nat /\ R # {} /\ \A q \in R : q <= Cursor
    BY <1>1
  <2>2. Cursor \in Nat
    BY StoredFields
  <2> HIDE DEF R
  <2> QED  BY <2>1, <2>2, MaxIs
<1> DEFINE T == {k \in S : rev(k) = r}
<1>3. PICK k \in T : \A j \in T : k >= j
  <2>1. T \subseteq Nat /\ T # {} /\ \A q \in T : q <= MaxEvents
    BY <1>1, <1>2
  <2>2. MaxEvents \in Nat
    BY StoredFields
  <2> HIDE DEF T
  <2> QED  BY <2>1, <2>2, MaxIs
<1>4. ASSUME NEW j \in S PROVE j = k \/ Precedes(stored.rows, j, k)
  <2>1. rev(j) <= r /\ rev(k) = r /\ rev(j) \in Nat /\ r \in Nat /\ j \in Nat /\ k \in Nat
    BY <1>1, <1>2, <1>3
  <2>2. CASE rev(j) = r
    BY <1>3, <2>1, <2>2 DEF Precedes
  <2>3. CASE rev(j) # r
    BY <2>1, <2>3 DEF Precedes
  <2> QED  BY <2>2, <2>3
<1> QED  BY <1>3, <1>4

(* And a first one.                                                         *)
LEMMA FirstChange ==
    ASSUME ServerOk, NEW S, S \subseteq Seqs, S # {}
    PROVE  \E k \in S : \A j \in S : ~Precedes(stored.rows, j, k)
<1> DEFINE rev(k) == stored.rows[k].revision
           R == {rev(k) : k \in S}
<1>1. \A k \in S : rev(k) \in Nat /\ k \in Nat
  BY StoredFields
<1>2. PICK r \in R : \A q \in R : r <= q
  <2>1. R \subseteq Nat /\ R # {}
    BY <1>1
  <2> HIDE DEF R
  <2> QED  BY <2>1, Least
<1> DEFINE T == {k \in S : rev(k) = r}
<1>3. PICK k \in T : \A j \in T : k <= j
  <2>1. T \subseteq Nat /\ T # {}
    BY <1>1, <1>2
  <2> HIDE DEF T
  <2> QED  BY <2>1, Least
<1>4. ASSUME NEW j \in S PROVE ~Precedes(stored.rows, j, k)
  <2>1. r <= rev(j) /\ rev(k) = r /\ rev(j) \in Nat /\ r \in Nat /\ j \in Nat /\ k \in Nat
    BY <1>1, <1>2, <1>3
  <2> QED  BY <1>3, <2>1 DEF Precedes
<1> QED  BY <1>3, <1>4

(* The keys of a request for changes, and what the server says of each.     *)
Changed(after, through, afterKey) ==
    {k \in Seqs : LET revision == stored.rows[k].revision
                  IN \/ revision > after /\ revision <= through
                     \/ afterKey # 0 /\ revision = after /\ revision > 0 /\ k > afterKey}
PatchOf(k) == [key |-> k, revision |-> stored.rows[k].revision,
               item |-> IF stored.rows[k].body = None THEN None ELSE Item(k)]

(* An answer with the changes of the keys in page: all that were asked for, *)
(* or all up to the key from which the next request goes on.                *)
AnswerOf(a, page, after, through, afterKey) ==
    /\ a \in Answers /\ page \subseteq Changed(after, through, afterKey)
    /\ a.patches = {PatchOf(k) : k \in page}
    /\ after <= a.nextAfter /\ a.nextAfter <= through
    /\ a.nextKey = 0 => a.nextAfter = through /\ page = Changed(after, through, afterKey)
    /\ a.nextKey # 0 => /\ a.nextKey \in page /\ a.nextAfter = stored.rows[a.nextKey].revision
                        /\ \A k \in Changed(after, through, afterKey) :
                              k \in page <=> k = a.nextKey \/ Precedes(stored.rows, k, a.nextKey)

(* A patch is well-formed.                                                  *)
LEMMA PatchIs ==
    ASSUME ServerOk, NEW k \in Seqs
    PROVE  /\ PatchOf(k) \in Patches /\ PatchOf(k).key = k /\ PatchOf(k).revision = stored.rows[k].revision
           /\ stored.rows[k].body = None => PatchOf(k).item = None
           /\ stored.rows[k].body # None => PatchOf(k).item = Item(k) /\ PatchOf(k).item # None
<1>1. k \in Nat /\ stored.rows[k].revision \in Nat
  BY StoredFields
<1>2. stored.rows[k].body # None => Item(k) \in Items
  BY ItemIs DEF Visible
<1> QED  BY <1>1, <1>2, NoneAssumption DEF PatchOf, Patches

(* The answer to a request for changes.                                     *)
LEMMA ChangesAre ==
    ASSUME ServerOk, NEW after \in Nat, NEW through \in Nat, NEW afterKey \in Nat, after <= through, through <= Cursor,
           NEW a, a = ConversationChanges(after, through, afterKey)
    PROVE  \E page : AnswerOf(a, page, after, through, afterKey)
<1> DEFINE rows == stored.rows
           C == Changed(after, through, afterKey)
           P == {k \in C : Cardinality({j \in C : Precedes(rows, j, k)}) < PageItems}
           last == CHOOSE k \in P : \A j \in P : j = k \/ Precedes(rows, j, k)
           more == P # C
<1>0. Cursor \in Nat /\ C \subseteq Seqs /\ PageItems \in Nat /\ PageItems > 0
  BY StoredFields, StreamAssumption DEF Changed
<1>1. Larger(after, Min({through, Cursor})) = through
  BY <1>0, MinOfTwo DEF Larger
<1>2. a = [patches |-> {PatchOf(k) : k \in P}, events |-> <<>>, through |-> through,
           nextAfter |-> IF more THEN rows[last].revision ELSE through,
           nextKey |-> IF more THEN last ELSE 0]
  <2> DEFINE e == Larger(after, Min({through, Cursor}))
             C2 == {k \in Seqs : \/ rows[k].revision > after /\ rows[k].revision <= e
                                 \/ afterKey # 0 /\ rows[k].revision = after /\ rows[k].revision > 0 /\ k > afterKey}
             P2 == {k \in C2 : Cardinality({j \in C2 : Precedes(rows, j, k)}) < PageItems}
             last2 == CHOOSE k \in P2 : \A j \in P2 : j = k \/ Precedes(rows, j, k)
  <2>1. a = [patches |-> {PatchOf(k) : k \in P2}, events |-> <<>>, through |-> e,
             nextAfter |-> IF P2 # C2 THEN rows[last2].revision ELSE e,
             nextKey |-> IF P2 # C2 THEN last2 ELSE 0]
    BY Zenon DEF ConversationChanges, PatchOf, Precedes
  <2>2. C2 = C /\ e = through
    BY <1>1 DEF Changed
  <2> HIDE DEF C2, e
  <2>3. P2 = P
    BY <2>2
  <2>4. last2 = last
    BY <2>3
  <2> HIDE DEF P2, last2
  <2> QED  BY <2>1, <2>2, <2>3, <2>4
<1>3. \A k \in C : /\ k \in Nat /\ k # 0 /\ rows[k].revision \in Nat
                   /\ after <= rows[k].revision /\ rows[k].revision <= through
  BY StoredFields DEF Changed
<1>4. \A k \in P : PatchOf(k) \in Patches
  BY <1>0, PatchIs
<1>5. IsFiniteSet(C)
  BY <1>0, StoredFields, FS_Subset
<1> HIDE DEF C
<1>6. ASSUME more
      PROVE  /\ last \in P /\ \A j \in P : j = last \/ Precedes(rows, j, last)
             /\ \A k \in C : Precedes(rows, k, last) => k \in P
  <2>1. C # {}
    BY <1>6
  <2>2. PICK k \in C : \A j \in C : ~Precedes(rows, j, k)
    BY <2>1, <1>0, FirstChange
  <2>3. {j \in C : Precedes(rows, j, k)} = {}
    BY <2>2
  <2>4. k \in P
    BY <2>2, <2>3, <1>0, FS_EmptySet
  <2>5. P \subseteq Seqs /\ P # {}
    BY <2>4, <1>0
  <2>6. \E q \in P : \A j \in P : j = q \/ Precedes(rows, j, q)
    <3> HIDE DEF P
    <3> QED  BY <2>5, LastChange
  <2>7. last \in P /\ \A j \in P : j = last \/ Precedes(rows, j, last)
    <3> HIDE DEF P
    <3> QED  BY <2>6
  <2>8. ASSUME NEW q \in C, Precedes(rows, q, last) PROVE q \in P
    <3> DEFINE A == {j \in C : Precedes(rows, j, last)}
               B == {j \in C : Precedes(rows, j, q)}
    <3>1. last \in C /\ Cardinality(A) < PageItems
      BY <2>7
    <3>2. B \in SUBSET A
      <4>1. rows[last].revision \in Nat /\ rows[q].revision \in Nat /\ last \in Nat /\ q \in Nat
        BY <3>1, <1>3
      <4>2. \A j \in C : Precedes(rows, j, q) => Precedes(rows, j, last)
        <5> HIDE DEF last
        <5>1. Precedes(rows, q, last)
          BY <2>8
        <5> QED  BY <4>1, <5>1, <1>3 DEF Precedes
      <4> QED  BY <4>2
    <3>3. IsFiniteSet(A)
      BY <1>5, FS_Subset
    <3> HIDE DEF A, B, last
    <3>4. Cardinality(B) <= Cardinality(A) /\ Cardinality(A) \in Nat /\ Cardinality(B) \in Nat
      BY <3>2, <3>3, FS_Subset, FS_CardinalityType
    <3>5. Cardinality(B) < PageItems
      BY <3>1, <3>4, <1>0
    <3> QED  BY <3>5 DEF B
  <2> QED  BY <2>7, <2>8
<1>7. P \subseteq C
  OBVIOUS
<1> HIDE DEF P, last
<1>8. CASE more
  <2>1. last \in P /\ last \in C /\ last \in Nat /\ last # 0 /\ rows[last].revision \in Nat
        /\ after <= rows[last].revision /\ rows[last].revision <= through
    BY <1>3, <1>6, <1>7, <1>8
  <2>2. a = [patches |-> {PatchOf(k) : k \in P}, events |-> <<>>, through |-> through,
             nextAfter |-> rows[last].revision, nextKey |-> last]
    BY <1>2, <1>8
  <2>3. a \in Answers
    BY <2>1, <2>2, <1>4 DEF Answers
  <2>4. a.nextKey = last /\ a.nextAfter = rows[last].revision /\ a.patches = {PatchOf(k) : k \in P}
    BY <2>2
  <2>5. \A k \in C : k \in P <=> k = last \/ Precedes(rows, k, last)
    BY <1>6, <1>8, <2>1
  <2>6. AnswerOf(a, P, after, through, afterKey)
    BY <2>1, <2>3, <2>4, <2>5, <1>7 DEF AnswerOf, C
  <2> QED  BY <2>6
<1>9. CASE ~more
  <2>1. a = [patches |-> {PatchOf(k) : k \in P}, events |-> <<>>, through |-> through, nextAfter |-> through, nextKey |-> 0]
    BY <1>2, <1>9
  <2>2. a \in Answers
    BY <2>1, <1>4 DEF Answers
  <2>3. a.nextKey = 0 /\ a.nextAfter = through /\ a.patches = {PatchOf(k) : k \in P} /\ P = C
    BY <2>1, <1>9
  <2>4. AnswerOf(a, P, after, through, afterKey)
    BY <2>2, <2>3 DEF AnswerOf, C
  <2> QED  BY <2>4
<1> QED  BY <1>8, <1>9

(* The same for raw events.                                                 *)
LEMMA HistoryIs ==
    ASSUME ServerOk, NEW after \in Nat, NEW through \in Nat, after < through, through <= Cursor,
           NEW a, a = HistoryChanges(after, through)
    PROVE  /\ a \in Answers /\ a.nextKey = 0 /\ after < a.nextAfter /\ a.nextAfter <= through
           /\ a.events = [i \in 1..(a.nextAfter - after) |-> after + i]
<1>0. Cursor \in Nat /\ PageItems \in Nat /\ PageItems > 0
  BY StoredFields, StreamAssumption
<1>1. Larger(after, Min({through, Cursor})) = through
  BY <1>0, MinOfTwo DEF Larger
<1> DEFINE last == Min({through, after + PageItems})
<1>2. last \in Nat /\ after < last /\ last <= through
  <2>1. after + PageItems \in Nat
    BY <1>0
  <2> QED  BY <2>1, <1>0, MinOfTwo
<1>3. a = [patches |-> {}, events |-> [i \in 1..(last - after) |-> after + i], through |-> through,
           nextAfter |-> last, nextKey |-> 0]
  BY <1>1 DEF HistoryChanges
<1> HIDE DEF last
<1>4. [i \in 1..(last - after) |-> after + i] \in Seq(Nat)
  BY <1>2
<1> QED  BY <1>2, <1>3, <1>4 DEF Answers

-----------------------------------------------------------------------------
(* The steps of the reader.                                                 *)

(* Two states of the reader that differ only in how they catch up.          *)
SameCursors(r, q) ==
    /\ q.applied = r.applied /\ q.received = r.received /\ q.target = r.target
    /\ q.pending = r.pending /\ q.projection = r.projection /\ q.overflow = r.overflow

(* A new request.                                                           *)
LEMMA RequestIs ==
    ASSUME NEW after \in Nat, NEW through \in Nat, NEW key \in Nat, NEW q, q = Request(after, through, key)
    PROVE  /\ q \in Requests /\ q # None
           /\ q.after = after /\ q.through = through /\ q.afterKey = key /\ q.answer = None
<1>1. q \in Requests
  BY DEF Request, Requests
<1> QED  BY <1>1, NoneAssumption DEF Request

(* beginCatchup.                                                            *)
LEMMA BeginCatchupIs ==
    ASSUME NEW r \in Readers, NEW q, q = BeginCatchup(r)
    PROVE  /\ q \in Readers /\ SameCursors(r, q)
           /\ r.catchup # None => q = r
           /\ r.catchup = None /\ r.applied >= r.target =>
                 /\ q.catchup = None /\ ~q.retry /\ ~q.recovering
                 /\ r.animation => q.animation
                 /\ older = None => q.animation
           /\ r.catchup = None /\ r.applied < r.target =>
                 /\ q.catchup # None /\ q.catchup = Request(r.applied, r.target, 0) /\ ~q.retry /\ q.recovering
                 /\ q.animation = r.animation
<1>0. /\ r.applied \in Nat /\ r.received \in Nat /\ r.target \in Nat /\ r.recovering \in BOOLEAN
      /\ r.animation \in BOOLEAN /\ r.retry \in BOOLEAN
  BY ReaderFields
<1>1. CASE r.catchup # None
  BY <1>0, <1>1 DEF BeginCatchup, SameCursors
<1>2. CASE r.catchup = None /\ r.applied >= r.target
  <2>1. q = Schedule([r EXCEPT !.retry = FALSE, !.recovering = FALSE], older)
    BY <1>2 DEF BeginCatchup
  <2> DEFINE v == r.animation \/ older = None
  <2>2. q = [r EXCEPT !.retry = FALSE, !.recovering = FALSE, !.animation = v]
    BY <2>1 DEF Schedule, Readers
  <2>3. v \in BOOLEAN /\ (r.animation => v) /\ (older = None => v)
    OBVIOUS
  <2> HIDE DEF v
  <2>4. q \in Readers
    BY <2>2, <2>3 DEF Readers
  <2>5. /\ SameCursors(r, q) /\ q.catchup = None /\ q.retry = FALSE /\ q.recovering = FALSE /\ q.animation = v
    BY <2>2, <1>2 DEF Readers, SameCursors
  <2> QED  BY <2>3, <2>4, <2>5, <1>0, <1>2
<1>3. CASE r.catchup = None /\ r.applied < r.target
  <2> DEFINE n == Request(r.applied, r.target, 0)
  <2>1. n \in Requests /\ n # None
    BY <1>0, RequestIs
  <2>2. ~(r.applied >= r.target)
    BY <1>0, <1>3
  <2>3. q = [r EXCEPT !.retry = FALSE, !.recovering = TRUE, !.catchup = n]
    BY <1>3, <2>2 DEF BeginCatchup
  <2> HIDE DEF n
  <2>4. q \in Readers
    BY <2>1, <2>3 DEF Readers
  <2>5. /\ SameCursors(r, q) /\ q.catchup = n /\ q.retry = FALSE /\ q.recovering = TRUE /\ q.animation = r.animation
    BY <2>3 DEF Readers, SameCursors
  <2> QED  BY <2>1, <2>4, <2>5, <1>3, <2>2 DEF n
<1> QED  BY <1>0, <1>1, <1>2, <1>3

(* What follows a page of changes.                                          *)
Continued(q, r, answer, request) ==
    LET again == answer.nextAfter < request.through \/ answer.nextKey # 0
    IN /\ q \in Readers
       /\ q.applied = r.applied /\ q.received = r.received /\ q.target = r.target
       /\ q.pending = r.pending /\ q.projection = r.projection /\ q.retry = r.retry
       /\ q.overflow => r.overflow
       /\ again => /\ q.catchup # None /\ q.catchup = Request(answer.nextAfter, request.through, answer.nextKey)
                   /\ q.recovering /\ q.overflow = r.overflow
       /\ ~again /\ r.applied < r.target =>
             /\ q.catchup # None /\ q.catchup = Request(r.applied, r.target, 0)
             /\ q.recovering /\ q.overflow = r.overflow
       /\ ~again /\ ~(r.applied < r.target) => q.catchup = None /\ ~q.recovering /\ ~q.overflow /\ q.animation

(* The next page, the next target or the end.                               *)
LEMMA ContinueIs ==
    ASSUME NEW r \in Readers, NEW answer \in Answers, NEW request \in Requests,
           NEW q, q = Continue(r, answer, request), r.recovering, older = None
    PROVE  Continued(q, r, answer, request)
<1>0. /\ r.applied \in Nat /\ r.target \in Nat /\ r.animation \in BOOLEAN /\ r.retry \in BOOLEAN /\ r.overflow \in BOOLEAN
      /\ answer.nextAfter \in Nat /\ answer.nextKey \in Nat /\ request.through \in Nat
  BY ReaderFields DEF Answers, Requests
<1> DEFINE again == answer.nextAfter < request.through \/ answer.nextKey # 0
<1>1. CASE again \/ r.applied < r.target
  <2> DEFINE n == IF again THEN Request(answer.nextAfter, request.through, answer.nextKey) ELSE Request(r.applied, r.target, 0)
  <2>1. n \in Requests /\ n # None
    <3>1. CASE again
      <4>1. n = Request(answer.nextAfter, request.through, answer.nextKey)
        BY <3>1
      <4> QED  BY <4>1, <1>0, RequestIs
    <3>2. CASE ~again
      <4>1. n = Request(r.applied, r.target, 0)
        BY <3>2
      <4> QED  BY <4>1, <1>0, RequestIs
    <3> QED  BY <3>1, <3>2
  <2>2. q = [r EXCEPT !.catchup = n]
    BY <1>1 DEF Continue
  <2>3. n = IF again THEN Request(answer.nextAfter, request.through, answer.nextKey) ELSE Request(r.applied, r.target, 0)
    OBVIOUS
  <2> HIDE DEF n
  <2>4. q \in Readers
    BY <2>1, <2>2 DEF Readers
  <2>5. /\ q.applied = r.applied /\ q.received = r.received /\ q.target = r.target
        /\ q.pending = r.pending /\ q.projection = r.projection /\ q.retry = r.retry
        /\ q.overflow = r.overflow /\ q.recovering = r.recovering /\ q.catchup = n
    BY <2>2 DEF Readers
  <2> QED  BY <2>1, <2>3, <2>4, <2>5, <1>1 DEF Continued
<1>2. CASE ~(again \/ r.applied < r.target)
  <2>1. q = Schedule([r EXCEPT !.catchup = None, !.recovering = FALSE, !.overflow = FALSE], older)
    BY <1>2 DEF Continue
  <2>2. q = [r EXCEPT !.catchup = None, !.recovering = FALSE, !.overflow = FALSE, !.animation = TRUE]
    BY <2>1 DEF Schedule, Readers
  <2>3. q \in Readers
    BY <2>2 DEF Readers
  <2>4. /\ q.applied = r.applied /\ q.received = r.received /\ q.target = r.target
        /\ q.pending = r.pending /\ q.projection = r.projection /\ q.retry = r.retry
        /\ q.overflow = FALSE /\ q.recovering = FALSE /\ q.catchup = None /\ q.animation = TRUE
    BY <2>2 DEF Readers
  <2> QED  BY <2>3, <2>4, <1>2 DEF Continued
<1> QED  BY <1>1, <1>2

(* A step of the client leaves the server as it is.                         *)
LEMMA ServerStays ==
    ASSUME ServerOk, UNCHANGED server
    PROVE  ServerOk' /\ Cursor' = Cursor
BY DEF ServerOk, server, Cursor

(* The invariant of the reader survives a new connection, and its end.      *)
LEMMA ConnectionStep == FollowOk /\ (Accept \/ Disconnect) => FollowOk'
<1> SUFFICES ASSUME FollowOk, Accept \/ Disconnect PROVE FollowOk'
  OBVIOUS
<1>0. ServerOk' /\ Cursor' = Cursor /\ Cursor \in Nat /\ Cursor > 0 /\ UNCHANGED <<format, pages, reader, older>>
  BY ServerStays, StoredFields DEF FollowOk, Accept, Disconnect
<1>1. PagesOk'
  BY <1>0 DEF FollowOk, PagesOk
<1>2. CASE Disconnect
  <2>1. stream' = None /\ reader # None
    BY <1>2 DEF Disconnect, FollowOk, ClientOk
  <2>2. format = "events" => BufferOk(None, reader)
    BY <2>1 DEF FollowOk, ClientOk, BufferOk, Buffered
  <2>3. ClientOk' /\ TypesOk'
    BY <1>0, <2>1, <2>2 DEF FollowOk, ClientOk, TypesOk
  <2> QED  BY <1>0, <1>1, <2>3 DEF FollowOk
<1>3. CASE Accept
  <2> DEFINE s == <<[type |-> "tasks", seq |-> Cursor]>>
  <2>1. stream' = s /\ reader # None /\ stream = None
    BY <1>3 DEF Accept
  <2>2. s \in Seq(Frames) /\ Len(s) = 1 /\ s # <<>> /\ s[1].type = "tasks" /\ s[1].seq = Cursor /\ DOMAIN s = {1}
    BY <1>0 DEF Frames
  <2> HIDE DEF s
  <2>3. reader.received <= Cursor
    BY <2>1 DEF FollowOk, ClientOk, ReaderOk, CursorsOk
  <2>4. StreamOk(s, reader, Cursor)
    <3>1. ~Live(s)
      BY <2>2 DEF Live
    <3>2. Len(s) <= Larger(MaxFrames, 1)
      BY <2>2, StreamAssumption DEF Larger
    <3> QED  BY <1>0, <2>2, <2>3, <3>1, <3>2 DEF StreamOk
  <2>5. format = "events" => BufferOk(s, reader)
    <3>1. ~Live(s)
      BY <2>2 DEF Live
    <3> QED  BY <2>1, <2>2, <3>1 DEF FollowOk, ClientOk, BufferOk, Buffered
  <2>6. ClientOk' /\ TypesOk'
    BY <1>0, <2>1, <2>2, <2>4, <2>5 DEF FollowOk, ClientOk, TypesOk
  <2> QED  BY <1>0, <1>1, <2>6 DEF FollowOk
<1> QED  BY <1>2, <1>3

(* Leaving and dropping pages.                                              *)
LEMMA AwayStep == FollowOk /\ (Leave \/ Prune) => FollowOk'
<1> SUFFICES ASSUME FollowOk, Leave \/ Prune PROVE FollowOk'
  OBVIOUS
<1>0. ServerOk' /\ Cursor' = Cursor /\ format' = format /\ reader' = None /\ stream' = None /\ older' = None
  BY ServerStays DEF FollowOk, Leave, Prune, ClientOk
<1>1. ClientOk'
  BY <1>0 DEF ClientOk
<1>2. CASE Leave
  <2>1. pages' = pages
    BY <1>2 DEF Leave
  <2> QED  BY <1>0, <1>1, <2>1 DEF FollowOk, TypesOk, PagesOk
<1>3. CASE Prune
  <2>1. pages # <<>> /\ (pages' = Tail(pages) \/ pages' = <<>>)
    BY <1>3 DEF Prune
  <2>2. ASSUME NEW S, pages \in Seq(S)
        PROVE  /\ pages' \in Seq(S) /\ Len(pages') < Len(pages) /\ Len(pages) \in Nat /\ Len(pages') \in Nat
               /\ \A i \in DOMAIN pages' : \E j \in DOMAIN pages : pages'[i] = pages[j]
    <3>1. CASE pages' = <<>>
      BY <2>1, <2>2, <3>1
    <3>2. CASE pages' = Tail(pages)
      <4>1. /\ pages' \in Seq(S) /\ Len(pages') = Len(pages) - 1 /\ Len(pages) \in Nat /\ Len(pages) > 0
            /\ \A i \in 1..(Len(pages) - 1) : pages'[i] = pages[i + 1]
        BY <2>1, <2>2, <3>2
      <4>2. \A i \in DOMAIN pages' : i + 1 \in DOMAIN pages /\ pages'[i] = pages[i + 1]
        BY <2>2, <4>1
      <4> QED  BY <4>1, <4>2
    <3> QED  BY <2>1, <3>1, <3>2
  <2>3. pages \in Seq(IF format = "events" THEN EventPages ELSE Pages)
    BY DEF FollowOk, TypesOk
  <2>4. /\ pages' \in Seq(IF format = "events" THEN EventPages ELSE Pages) /\ Len(pages') < Len(pages)
        /\ Len(pages) \in Nat /\ Len(pages') \in Nat
        /\ \A i \in DOMAIN pages' : \E j \in DOMAIN pages : pages'[i] = pages[j]
    BY <2>2, <2>3
  <2>5. TypesOk'
    BY <1>0, <2>4 DEF FollowOk, TypesOk
  <2>6. PagesOk'
    <3>1. \A i \in DOMAIN pages' : pages'[i].cursor <= Cursor
      BY <2>4 DEF FollowOk, PagesOk
    <3>2. format = "events" => Len(pages') = 0
      BY <2>4 DEF FollowOk, PagesOk
    <3>3. format = "events" => pages' = <<>>
      BY <2>4, <3>2
    <3> QED  BY <1>0, <2>4, <3>1, <3>3 DEF PagesOk
  <2> QED  BY <1>0, <1>1, <2>5, <2>6 DEF FollowOk
<1> QED  BY <1>2, <1>3

(* The reader opens the task with the pages it has, up to their cursor.     *)
LEMMA StartedIs ==
    ASSUME NEW c \in Nat, NEW ps, Last(ps).cursor = c, NEW r, r = Started(ps), NEW f, NEW cursor \in Nat, c <= cursor
    PROVE  r \in Readers /\ r # None /\ r.applied = c /\ ReaderOk(r, f, cursor) /\ BufferOk(None, r)
<1>1. r = [applied |-> c, received |-> c, target |-> c, recovering |-> FALSE, pending |-> {}, catchup |-> None,
           projection |-> FALSE, retry |-> FALSE, animation |-> FALSE, overflow |-> FALSE]
  BY DEF Started
<1>2. r \in Readers
  BY <1>1 DEF Readers
<1>3. Cardinality({}) <= MaxPending
  BY FS_EmptySet, StreamAssumption
<1>4. ReaderOk(r, f, cursor)
  BY <1>1, <1>3 DEF ReaderOk, CursorsOk
<1>5. Fresh(r) = {}
  BY <1>1 DEF Fresh
<1>7. r.applied = c /\ r.projection = FALSE /\ r.overflow = FALSE
  BY <1>1
<1>6. BufferOk(None, r)
  BY <1>5, <1>7, Zenon DEF BufferOk, Buffered
<1>8. r # None
  BY <1>2, NoneAssumption
<1> QED  BY <1>2, <1>4, <1>6, <1>7, <1>8

(* Opening the task.                                                        *)
LEMMA OpenStep == FollowOk /\ (LoadFirst \/ Return) => FollowOk'
<1> SUFFICES ASSUME FollowOk, LoadFirst \/ Return PROVE FollowOk'
  OBVIOUS
<1>0. /\ ServerOk' /\ Cursor' = Cursor /\ Cursor \in Nat /\ ServerOk /\ MaxEvents \in Nat
      /\ stream' = None /\ older' = None /\ older = None
  <2>1. ServerOk /\ UNCHANGED server /\ UNCHANGED <<stream, older>> /\ reader = None
    BY DEF FollowOk, LoadFirst, Return
  <2> QED  BY <2>1, ServerStays, StoredFields DEF FollowOk, ClientOk
<1>1. CASE LoadFirst
  <2> DEFINE p == ConversationPage(MaxEvents + 1)
  <2>1. format' = "transcript" /\ pages' = <<p>> /\ reader' = Started(pages')
    BY <1>1 DEF LoadFirst
  <2>2. p \in Pages /\ p.cursor = Cursor
    BY <1>0, PageIs, MaxEvents + 1 \in Nat
  <2> HIDE DEF p
  <2>3. pages' # <<>> /\ Len(pages') = 1 /\ pages'[1] = p /\ pages' \in Seq(Pages) /\ DOMAIN pages' = {1} /\ Last(pages') = p
    BY <2>1, <2>2 DEF Last
  <2>4. reader' \in Readers /\ reader' # None /\ reader'.applied = Cursor /\ ReaderOk(reader', format', Cursor)
    BY <1>0, <2>1, <2>2, <2>3, StartedIs
  <2>5. TypesOk'
    BY <1>0, <2>1, <2>3, <2>4, StreamAssumption DEF TypesOk
  <2>6. PagesOk'
    BY <1>0, <2>1, <2>2, <2>3 DEF PagesOk
  <2>7. ClientOk'
    BY <1>0, <2>1, <2>2, <2>3, <2>4 DEF ClientOk
  <2> QED  BY <1>0, <2>5, <2>6, <2>7 DEF FollowOk
<1>2. CASE Return
  <2>1. format' = format /\ pages' = pages /\ pages # <<>> /\ reader' = Started(pages)
    BY <1>2 DEF Return
  <2>2. Len(pages) \in DOMAIN pages
    BY <2>1, PageFields DEF FollowOk
  <2>3. Last(pages).cursor \in Nat /\ Last(pages).cursor <= Cursor
    BY <2>2, PageFields DEF FollowOk, PagesOk, Last
  <2>4. /\ reader' \in Readers /\ reader' # None /\ reader'.applied = Last(pages).cursor
        /\ ReaderOk(reader', format', Cursor) /\ BufferOk(None, reader')
    BY <1>0, <2>1, <2>3, StartedIs
  <2>5. TypesOk' /\ PagesOk'
    BY <1>0, <2>1, <2>4 DEF FollowOk, TypesOk, PagesOk
  <2>6. ClientOk'
    BY <1>0, <2>1, <2>4 DEF ClientOk
  <2> QED  BY <1>0, <2>5, <2>6 DEF FollowOk
<1> QED  BY <1>1, <1>2

(* A step that changes only how the reader catches up.                      *)
LEMMA ReaderStep ==
    ASSUME FollowOk, reader # None, UNCHANGED <<server, stream, format, pages, older>>,
           reader' \in Readers, reader'.applied = reader.applied, reader'.received = reader.received,
           reader'.target = reader.target,
           ReaderOk(reader', format, Cursor), format = "events" => BufferOk(stream, reader')
    PROVE  FollowOk'
<1>1. ServerOk' /\ Cursor' = Cursor
  BY ServerStays DEF FollowOk
<1>2. reader' # None
  BY NoneAssumption
<1>3. Base(reader') = Base(reader)
  BY DEF Base
<1>4. stream # None => StreamOk(stream, reader', Cursor)
  BY <1>3 DEF FollowOk, ClientOk, StreamOk
<1>5. ClientOk'
  <2>1. format' = format /\ pages' = pages /\ stream' = stream
    OBVIOUS
  <2>2. pages # <<>> /\ reader'.applied = Last(pages).cursor
    BY DEF FollowOk, ClientOk
  <2> QED  BY <1>1, <1>2, <1>4, <2>1, <2>2 DEF ClientOk
<1>6. TypesOk' /\ PagesOk'
  BY <1>1 DEF FollowOk, TypesOk, PagesOk
<1> QED  BY <1>1, <1>5, <1>6 DEF FollowOk

(* beginCatchup leaves nothing that is not reached without a request.       *)
LEMMA CatchupBegun ==
    ASSUME NEW r \in Readers, NEW f, NEW c \in Nat, CursorsOk(r, f, c),
           r.catchup # None => r.recovering /\ ~r.retry /\ RequestOk(r.catchup, r, f),
           NEW q, q = BeginCatchup(r)
    PROVE  /\ q \in Readers /\ SameCursors(r, q) /\ ReaderOk(q, f, c)
           /\ \A s : older = None /\ Buffered(s, r) => BufferOk(s, q)
<1>0. r.applied \in Nat /\ r.target \in Nat /\ r.received \in Nat
  BY ReaderFields
<1>1. q \in Readers /\ SameCursors(r, q)
  BY BeginCatchupIs
<1>2. CursorsOk(q, f, c)
  BY <1>1 DEF CursorsOk, SameCursors
<1>3. Fresh(q) = Fresh(r) /\ Base(q) = Base(r) /\ \A s : Buffered(s, r) => Buffered(s, q)
  <2>1. Fresh(q) = Fresh(r) /\ Base(q) = Base(r)
    BY <1>1 DEF Fresh, Base, SameCursors
  <2> QED  BY <1>1, <2>1 DEF Buffered, SameCursors
<1>4. CASE r.catchup # None
  <2>1. q = r
    BY <1>4, BeginCatchupIs
  <2> QED  BY <1>1, <1>2, <1>3, <1>4, <2>1 DEF ReaderOk, BufferOk
<1>5. CASE r.catchup = None /\ r.applied >= r.target
  <2>1. q.catchup = None /\ ~q.retry /\ ~q.recovering /\ (older = None => q.animation)
    BY <1>5, BeginCatchupIs
  <2>2. ~(q.applied < q.target)
    BY <1>0, <1>1, <1>5 DEF SameCursors
  <2>3. ReaderOk(q, f, c)
    BY <1>2, <2>1, <2>2 DEF ReaderOk
  <2> QED  BY <1>1, <1>3, <2>1, <2>3 DEF BufferOk
<1>6. CASE r.catchup = None /\ r.applied < r.target
  <2>1. q.catchup # None /\ q.catchup = Request(r.applied, r.target, 0) /\ ~q.retry /\ q.recovering
    BY <1>6, BeginCatchupIs
  <2>2. /\ q.catchup.after = r.applied /\ q.catchup.through = r.target /\ q.catchup.afterKey = 0
        /\ q.catchup.answer = None
    BY <1>0, <2>1, RequestIs
  <2>3. q.applied = r.applied /\ q.target = r.target
    BY <1>1 DEF SameCursors
  <2>4. RequestOk(q.catchup, q, f)
    BY <1>0, <1>6, <2>2, <2>3 DEF RequestOk
  <2>5. ReaderOk(q, f, c)
    BY <1>2, <2>1, <2>4 DEF ReaderOk
  <2> QED  BY <1>1, <1>3, <2>1, <2>5 DEF BufferOk
<1> QED  BY <1>0, <1>4, <1>5, <1>6

(* The timers of the reader.                                                *)
LEMMA TimerStep == FollowOk /\ (ProjectionTimer \/ RetryTimer) => FollowOk'
<1> SUFFICES ASSUME FollowOk, ProjectionTimer \/ RetryTimer PROVE FollowOk'
  OBVIOUS
<1>1. /\ reader # None /\ reader \in Readers /\ Cursor \in Nat /\ ReaderOk(reader, format, Cursor)
      /\ UNCHANGED <<server, stream, format, pages, older>> /\ format \in {"transcript", "events"}
  BY StoredFields, PageFields DEF FollowOk, TypesOk, ClientOk, ProjectionTimer, RetryTimer
<1>2. PICK r : /\ reader' = BeginCatchup(r)
               /\ \/ reader.projection /\ r = [reader EXCEPT !.projection = FALSE]
                  \/ reader.retry /\ r = [reader EXCEPT !.retry = FALSE]
  BY DEF ProjectionTimer, RetryTimer
<1>3. /\ r \in Readers /\ r.applied = reader.applied /\ r.received = reader.received /\ r.target = reader.target
      /\ r.pending = reader.pending /\ r.catchup = reader.catchup /\ r.overflow = reader.overflow
      /\ r.recovering = reader.recovering /\ (r.retry => reader.retry) /\ (r.projection => reader.projection)
  <2>1. CASE reader.projection /\ r = [reader EXCEPT !.projection = FALSE]
    BY <1>1, <2>1 DEF Readers
  <2>2. CASE reader.retry /\ r = [reader EXCEPT !.retry = FALSE]
    BY <1>1, <2>2 DEF Readers
  <2> QED  BY <1>2, <2>1, <2>2
<1>4. CursorsOk(r, format, Cursor)
  BY <1>1, <1>3 DEF ReaderOk, CursorsOk
<1>5. r.catchup # None => r.recovering /\ ~r.retry /\ RequestOk(r.catchup, r, format)
  BY <1>1, <1>3 DEF ReaderOk, RequestOk
<1>6. format = "events" => older = None /\ Buffered(stream, r)
  <2> SUFFICES ASSUME format = "events" PROVE older = None /\ Buffered(stream, r)
    OBVIOUS
  <2>1. older = None /\ Buffered(stream, reader)
    BY <1>1 DEF FollowOk, PagesOk, ClientOk, BufferOk
  <2>2. Fresh(r) = Fresh(reader) /\ Base(r) = Base(reader)
    BY <1>3 DEF Fresh, Base
  <2> QED  BY <1>3, <2>1, <2>2 DEF Buffered
<1>7. /\ reader' \in Readers /\ SameCursors(r, reader') /\ ReaderOk(reader', format, Cursor)
      /\ \A s : older = None /\ Buffered(s, r) => BufferOk(s, reader')
  <2>1. PICK f, q : f = format /\ q = reader'
    OBVIOUS
  <2>2. PICK c \in Nat : c = Cursor
    BY <1>1
  <2>3. CursorsOk(r, f, c) /\ q = BeginCatchup(r)
    BY <1>2, <1>4, <2>1, <2>2
  <2>4. r.catchup # None => r.recovering /\ ~r.retry /\ RequestOk(r.catchup, r, f)
    BY <1>5, <2>1
  <2>5. /\ q \in Readers /\ SameCursors(r, q) /\ ReaderOk(q, f, c)
        /\ \A s : older = None /\ Buffered(s, r) => BufferOk(s, q)
    BY <1>3, <2>3, <2>4, CatchupBegun
  <2> QED  BY <2>1, <2>2, <2>5
<1>8. reader'.applied = reader.applied /\ reader'.received = reader.received /\ reader'.target = reader.target
  BY <1>3, <1>7 DEF SameCursors
<1>9. format = "events" => BufferOk(stream, reader')
  BY <1>6, <1>7
<1> QED  BY <1>1, <1>7, <1>8, <1>9, ReaderStep

(* A step that changes the reader's state and the frames under way.         *)
LEMMA FrameStep ==
    ASSUME FollowOk, reader # None, UNCHANGED <<server, format, pages, older>>,
           reader' \in Readers, reader'.applied = reader.applied, ReaderOk(reader', format, Cursor),
           stream' \in Seq(Frames) \union {None}, stream' # None => StreamOk(stream', reader', Cursor),
           format = "events" => BufferOk(stream', reader')
    PROVE  FollowOk'
<1>1. ServerOk' /\ Cursor' = Cursor
  BY ServerStays DEF FollowOk
<1>2. reader' # None
  BY NoneAssumption
<1>3. ClientOk'
  <2>1. format' = format /\ pages' = pages
    OBVIOUS
  <2>2. pages # <<>> /\ reader'.applied = Last(pages).cursor
    BY DEF FollowOk, ClientOk
  <2> QED  BY <1>1, <1>2, <2>1, <2>2 DEF ClientOk
<1>4. TypesOk' /\ PagesOk'
  BY <1>1 DEF FollowOk, TypesOk, PagesOk
<1> QED  BY <1>1, <1>3, <1>4 DEF FollowOk

(* Behind the first frame only events are left.                             *)
FramesBehind(s, t, c) ==
    /\ t \in Seq(Frames) /\ Len(t) \in Nat /\ Len(s) = Len(t) + 1 /\ Len(t) <= Larger(MaxFrames, 1)
    /\ s[1].seq = c - Len(t) /\ s[1].seq \in Nat /\ s[1].seq <= c /\ Live(t)
    /\ \A i \in DOMAIN t : /\ i + 1 \in DOMAIN s /\ t[i] = s[i + 1]
                           /\ t[i].seq = c - Len(t) + i /\ t[i].type = "event"
                           /\ t[i].seq > s[1].seq

(* The frames that are left when the first one has arrived.                 *)
LEMMA FramesLeft ==
    ASSUME NEW s \in Seq(Frames), s # <<>>, NEW r, NEW c \in Nat, StreamOk(s, r, c)
    PROVE  FramesBehind(s, Tail(s), c)
<1> SUFFICES ASSUME NEW t, t = Tail(s) PROVE FramesBehind(s, t, c)
  OBVIOUS
<1>1. /\ t \in Seq(Frames) /\ Len(t) \in Nat /\ Len(s) = Len(t) + 1 /\ 1 \in DOMAIN s /\ s[1] \in Frames
      /\ DOMAIN t = 1..Len(t) /\ DOMAIN s = 1..Len(s)
      /\ \A i \in 1..Len(t) : t[i] = s[i + 1]
  OBVIOUS
<1>2. s[1].seq = c - Len(s) + 1 /\ Len(s) <= Larger(MaxFrames, 1) /\ s[1].seq \in Nat
  BY <1>1 DEF StreamOk, Frames
<1>3. \A i \in DOMAIN t : i + 1 \in DOMAIN s /\ t[i].seq = c - Len(s) + (i + 1) /\ t[i].type = "event" /\ i \in Nat /\ i > 0
  BY <1>1 DEF StreamOk
<1>4. Live(t)
  <2>1. t = <<>> \/ 1 \in DOMAIN t
    BY <1>1
  <2> QED  BY <1>3, <2>1 DEF Live
<1>5. Len(t) <= Larger(MaxFrames, 1)
  BY <1>1, <1>2, StreamAssumption DEF Larger
<1>6. s[1].seq = c - Len(t) /\ s[1].seq <= c
  BY <1>1, <1>2
<1>7. \A i \in DOMAIN t : t[i].seq = c - Len(t) + i /\ t[i].seq > s[1].seq
  <2>1. \A i \in DOMAIN t : t[i].seq = c - (Len(t) + 1) + (i + 1) /\ i \in Nat /\ i > 0
    BY <1>1, <1>3
  <2> QED  BY <1>1, <1>6, <2>1
<1>8. \A i \in DOMAIN t : i + 1 \in DOMAIN s /\ t[i] = s[i + 1] /\ t[i].type = "event"
  BY <1>1, <1>3
<1> QED  BY <1>1, <1>2, <1>4, <1>5, <1>6, <1>7, <1>8 DEF FramesBehind

(* The reader and the frames, when one arrives.                             *)
LEMMA ReceiveFields ==
    ASSUME FollowOk, Receive
    PROVE  /\ reader # None /\ reader \in Readers /\ Cursor \in Nat /\ ReaderOk(reader, format, Cursor)
           /\ UNCHANGED <<server, format, pages, older>> /\ format \in {"transcript", "events"}
           /\ stream # None /\ stream \in Seq(Frames) /\ stream # <<>> /\ StreamOk(stream, reader, Cursor)
           /\ Tail(stream) # None /\ FramesBehind(stream, Tail(stream), Cursor)
           /\ format = "events" => BufferOk(stream, reader) /\ older = None
           /\ Head(stream) = stream[1]
<1>1. reader # None /\ stream # None /\ stream # <<>> /\ UNCHANGED <<server, format, pages, older>>
  BY DEF Receive
<1>2. /\ reader \in Readers /\ Cursor \in Nat /\ ReaderOk(reader, format, Cursor) /\ format \in {"transcript", "events"}
      /\ stream \in Seq(Frames) /\ StreamOk(stream, reader, Cursor)
      /\ format = "events" => BufferOk(stream, reader) /\ older = None
  BY <1>1, StoredFields, PageFields DEF FollowOk, TypesOk, ClientOk, PagesOk
<1>3. Tail(stream) \in Seq(Frames)
  BY <1>1, <1>2
<1>4. Head(stream) = stream[1]
  BY <1>1, <1>2
<1>5. FramesBehind(stream, Tail(stream), Cursor)
  <2>1. PICK c \in Nat : c = Cursor
    BY <1>2
  <2>2. StreamOk(stream, reader, c)
    BY <1>2, <2>1
  <2>3. FramesBehind(stream, Tail(stream), c)
    BY <1>1, <1>2, <2>2, FramesLeft
  <2> QED  BY <2>1, <2>3
<1> QED  BY <1>1, <1>2, <1>3, <1>4, <1>5, NoneAssumption

(* The snapshot of a new connection.                                        *)
LEMMA SnapshotStep == FollowOk /\ Receive /\ ReceiveSnapshot(Head(stream)) => FollowOk'
<1> SUFFICES ASSUME FollowOk, Receive, ReceiveSnapshot(Head(stream)) PROVE FollowOk'
  OBVIOUS
<1>1. /\ reader # None /\ reader \in Readers /\ Cursor \in Nat /\ ReaderOk(reader, format, Cursor)
      /\ UNCHANGED <<server, format, pages, older>> /\ format \in {"transcript", "events"}
      /\ stream # None /\ stream \in Seq(Frames) /\ stream # <<>> /\ StreamOk(stream, reader, Cursor)
      /\ Tail(stream) # None /\ FramesBehind(stream, Tail(stream), Cursor)
      /\ format = "events" => BufferOk(stream, reader) /\ older = None
      /\ Head(stream) = stream[1]
  BY ReceiveFields
<1>2. PICK t : t = Tail(stream)
  OBVIOUS
<1>3. /\ t \in Seq(Frames) /\ Len(t) \in Nat /\ Len(stream) = Len(t) + 1 /\ Len(t) <= Larger(MaxFrames, 1)
      /\ stream[1].seq = Cursor - Len(t) /\ stream[1].seq \in Nat /\ stream[1].seq <= Cursor /\ Live(t)
      /\ \A i \in DOMAIN t : /\ i + 1 \in DOMAIN stream /\ t[i] = stream[i + 1]
                             /\ t[i].seq = Cursor - Len(t) + i /\ t[i].type = "event" /\ t[i].seq > stream[1].seq
  BY <1>1, <1>2 DEF FramesBehind
<1>4. /\ stream[1].type = "tasks" /\ stream' = t /\ t # None
      /\ reader' = IF stream[1].seq > reader.applied
                   THEN BeginCatchup([reader EXCEPT !.target = Larger(@, stream[1].seq), !.recovering = TRUE, !.overflow = FALSE])
                   ELSE reader
  BY <1>1, <1>2 DEF ReceiveSnapshot
<1>5. PICK seq \in Nat : seq = stream[1].seq
  BY <1>3
<1>6. /\ reader.applied \in Nat /\ reader.received \in Nat /\ reader.target \in Nat /\ reader.pending \subseteq 1..reader.received
      /\ reader.applied <= reader.received
  BY <1>1, ReaderFields DEF ReaderOk, CursorsOk
<1>7. ~Live(stream) /\ (reader.received <= seq \/ reader.received = reader.applied)
  <2>1. ~Live(stream)
    BY <1>1, <1>4 DEF Live
  <2> QED  BY <1>1, <1>5, <2>1 DEF StreamOk
<1>8. CASE ~(seq > reader.applied)
  <2>1. reader' = reader
    BY <1>4, <1>5, <1>8
  <2>2. StreamOk(t, reader, Cursor)
    <3>1. Cursor - Len(t) <= Larger(Base(reader), reader.received)
      BY <1>3, <1>5, <1>6, <1>8 DEF Larger, Base
    <3> QED  BY <1>3, <3>1 DEF StreamOk
  <2>3. ASSUME format = "events" PROVE BufferOk(t, reader)
    <3>1. reader.received = reader.applied
      BY <1>6, <1>7, <1>8
    <3>2. Base(reader) >= reader.applied /\ Base(reader) \in Nat
      BY <1>6 DEF Base, Larger
    <3>3. \A x \in reader.pending : ~(x > Base(reader))
      BY <1>6, <3>1, <3>2
    <3>4. Fresh(reader) = {} /\ (Base(reader) + 1)..reader.received = {}
      BY <1>6, <3>1, <3>2, <3>3 DEF Fresh
    <3>5. ~reader.overflow
      BY <1>1, <1>6, <2>3, <3>1 DEF BufferOk, Buffered
    <3>6. \A i \in DOMAIN t : t[i].seq > reader.target
      BY <1>1, <1>3, <2>3 DEF BufferOk, Buffered
    <3> QED  BY <1>1, <2>3, <3>4, <3>5, <3>6 DEF BufferOk, Buffered
  <2>4. t \in Seq(Frames) \union {None}
    BY <1>3
  <2> QED  BY <1>1, <1>4, <2>1, <2>2, <2>3, <2>4, FrameStep
<1>9. CASE seq > reader.applied
  <2> DEFINE r == [reader EXCEPT !.target = Larger(@, seq), !.recovering = TRUE, !.overflow = FALSE]
  <2>1. reader' = BeginCatchup(r)
    BY <1>4, <1>5, <1>9
  <2>2. /\ r \in Readers /\ r.applied = reader.applied /\ r.received = reader.received /\ r.target = Larger(reader.target, seq)
        /\ r.pending = reader.pending /\ r.catchup = reader.catchup /\ r.overflow = FALSE
        /\ r.recovering = TRUE /\ r.retry = reader.retry /\ r.projection = reader.projection
    <3>1. Larger(reader.target, seq) \in Nat
      BY <1>6 DEF Larger
    <3> QED  BY <1>1, <3>1 DEF Readers
  <2> HIDE DEF r
  <2>3. r.target >= seq /\ r.target >= reader.target /\ r.target <= Cursor /\ r.target \in Nat
    BY <1>1, <1>3, <1>5, <1>6, <2>2 DEF Larger, ReaderOk, CursorsOk
  <2>4. CursorsOk(r, format, Cursor)
    BY <1>1, <2>2, <2>3 DEF ReaderOk, CursorsOk
  <2>5. r.catchup # None => r.recovering /\ ~r.retry /\ RequestOk(r.catchup, r, format)
    <3> SUFFICES ASSUME r.catchup # None PROVE r.recovering /\ ~r.retry /\ RequestOk(r.catchup, r, format)
      OBVIOUS
    <3>1. ~reader.retry /\ RequestOk(reader.catchup, reader, format) /\ reader.catchup \in Requests
      BY <1>1, <2>2, ReaderFields DEF ReaderOk
    <3>2. reader.catchup.through \in Nat
      BY <3>1 DEF Requests
    <3>3. reader.catchup.through <= r.target
      BY <3>1, <3>2, <2>3, <1>6 DEF RequestOk
    <3> QED  BY <2>2, <3>1, <3>3 DEF RequestOk
  <2>6. Base(r) \in Nat /\ seq <= Base(r) /\ (reader.received <= Base(r))
    BY <1>6, <1>7, <2>2, <2>3 DEF Base, Larger
  <2>7. format = "events" => older = None /\ Buffered(t, r)
    <3> SUFFICES ASSUME format = "events" PROVE older = None /\ Buffered(t, r)
      OBVIOUS
    <3>1. \A x \in r.pending : ~(x > Base(r))
      BY <1>6, <2>2, <2>6
    <3>2. Fresh(r) = {} /\ (Base(r) + 1)..r.received = {}
      BY <1>6, <2>2, <2>6, <3>1 DEF Fresh
    <3>3. ~r.projection /\ older = None
      BY <1>1, <2>2 DEF BufferOk, Buffered
    <3>4. \A i \in DOMAIN t : t[i].seq > r.target
      <4>1. \A i \in DOMAIN t : t[i].seq > reader.target /\ t[i].seq > seq
        BY <1>1, <1>3, <1>5 DEF BufferOk, Buffered
      <4> QED  BY <4>1, <2>2 DEF Larger
    <3> QED  BY <2>2, <3>2, <3>3, <3>4 DEF Buffered
  <2>8. /\ reader' \in Readers /\ SameCursors(r, reader') /\ ReaderOk(reader', format, Cursor)
        /\ \A s : older = None /\ Buffered(s, r) => BufferOk(s, reader')
    <3>1. PICK f, q : f = format /\ q = reader'
      OBVIOUS
    <3>2. PICK c \in Nat : c = Cursor
      BY <1>1
    <3>3. CursorsOk(r, f, c) /\ q = BeginCatchup(r)
      BY <2>1, <2>4, <3>1, <3>2
    <3>4. r.catchup # None => r.recovering /\ ~r.retry /\ RequestOk(r.catchup, r, f)
      BY <2>5, <3>1
    <3>5. /\ q \in Readers /\ SameCursors(r, q) /\ ReaderOk(q, f, c)
          /\ \A s : older = None /\ Buffered(s, r) => BufferOk(s, q)
      BY <2>2, <3>3, <3>4, CatchupBegun
    <3> QED  BY <3>1, <3>2, <3>5
  <2>9. StreamOk(t, reader', Cursor)
    <3>1. Base(reader') = Base(r) /\ reader'.received = reader.received
      BY <2>2, <2>8 DEF SameCursors, Base
    <3>2. Cursor - Len(t) <= Larger(Base(reader'), reader'.received)
      BY <1>3, <1>5, <1>6, <2>6, <3>1 DEF Larger
    <3> QED  BY <1>3, <3>2 DEF StreamOk
  <2>10. reader'.applied = reader.applied /\ t \in Seq(Frames) \union {None}
    BY <1>3, <2>2, <2>8 DEF SameCursors
  <2>11. format = "events" => BufferOk(t, reader')
    BY <2>7, <2>8
  <2> QED  BY <1>1, <1>4, <2>8, <2>9, <2>10, <2>11, FrameStep
<1> QED  BY <1>8, <1>9

(* A notice of a change of the conversation.                                *)
LEMMA ChangeStep == FollowOk /\ Receive /\ ReceiveChange(Head(stream)) => FollowOk'
<1> SUFFICES ASSUME FollowOk, Receive, ReceiveChange(Head(stream)) PROVE FollowOk'
  OBVIOUS
<1>1. /\ reader # None /\ reader \in Readers /\ Cursor \in Nat /\ ReaderOk(reader, format, Cursor)
      /\ UNCHANGED <<server, format, pages, older>>
      /\ Tail(stream) # None /\ FramesBehind(stream, Tail(stream), Cursor)
      /\ Head(stream) = stream[1]
  BY ReceiveFields
<1>2. PICK t : t = Tail(stream)
  OBVIOUS
<1>3. /\ t \in Seq(Frames) /\ Len(t) \in Nat /\ Len(t) <= Larger(MaxFrames, 1)
      /\ stream[1].seq = Cursor - Len(t) /\ stream[1].seq \in Nat /\ stream[1].seq <= Cursor /\ Live(t)
      /\ \A i \in DOMAIN t : t[i].seq = Cursor - Len(t) + i /\ t[i].type = "event"
  BY <1>1, <1>2 DEF FramesBehind
<1>4. PICK seq \in Nat : seq = stream[1].seq
  BY <1>3
<1>5. /\ stream' = t /\ t # None /\ format = "transcript"
      /\ reader' = [reader EXCEPT !.target = Larger(@, seq), !.projection = TRUE]
  BY <1>1, <1>2, <1>4 DEF ReceiveChange
<1>6. reader.applied \in Nat /\ reader.received \in Nat /\ reader.target \in Nat
  BY <1>1, ReaderFields
<1>7. PICK n \in Nat : n = Larger(reader.target, seq) /\ n >= reader.target /\ n >= seq /\ n <= Cursor
  BY <1>1, <1>3, <1>4, <1>6 DEF Larger, ReaderOk, CursorsOk
<1>8. /\ reader' \in Readers /\ reader'.applied = reader.applied /\ reader'.received = reader.received /\ reader'.target = n
      /\ reader'.pending = reader.pending /\ reader'.catchup = reader.catchup /\ reader'.overflow = reader.overflow
      /\ reader'.recovering = reader.recovering /\ reader'.retry = reader.retry /\ reader'.projection = TRUE
  BY <1>1, <1>5, <1>7 DEF Readers
<1>9. CursorsOk(reader', format, Cursor)
  BY <1>1, <1>7, <1>8 DEF ReaderOk, CursorsOk
<1>10. reader'.catchup # None => RequestOk(reader'.catchup, reader', format)
  <2> SUFFICES ASSUME reader.catchup # None PROVE RequestOk(reader.catchup, reader', format)
    BY <1>8
  <2>1. RequestOk(reader.catchup, reader, format) /\ reader.catchup \in Requests
    BY <1>1, ReaderFields DEF ReaderOk
  <2>2. reader.catchup.through \in Nat
    BY <2>1 DEF Requests
  <2>3. reader.catchup.through <= n
    BY <2>1, <2>2, <1>6, <1>7 DEF RequestOk
  <2> QED  BY <1>8, <2>1, <2>3 DEF RequestOk
<1>11. ReaderOk(reader', format, Cursor)
  BY <1>1, <1>8, <1>9, <1>10 DEF ReaderOk
<1>12. StreamOk(t, reader', Cursor)
  <2>1. Cursor - Len(t) <= Larger(Base(reader'), reader'.received)
    BY <1>3, <1>4, <1>6, <1>7, <1>8 DEF Larger, Base
  <2> QED  BY <1>3, <2>1 DEF StreamOk
<1>13. t \in Seq(Frames) \union {None} /\ format # "events"
  BY <1>3, <1>5
<1> QED  BY <1>1, <1>5, <1>8, <1>11, <1>12, <1>13, FrameStep

(* A raw event: known already, one too many, or the next one.               *)
LEMMA EventStep == FollowOk /\ Receive /\ ReceiveEvent(Head(stream)) => FollowOk'
<1> SUFFICES ASSUME FollowOk, Receive, ReceiveEvent(Head(stream)) PROVE FollowOk'
  OBVIOUS
<1>1. /\ reader # None /\ reader \in Readers /\ Cursor \in Nat /\ ReaderOk(reader, format, Cursor)
      /\ UNCHANGED <<server, format, pages, older>>
      /\ stream # None /\ StreamOk(stream, reader, Cursor)
      /\ Tail(stream) # None /\ FramesBehind(stream, Tail(stream), Cursor)
      /\ Head(stream) = stream[1] /\ format = "events" /\ stream \in Seq(Frames) /\ stream # <<>>
      /\ BufferOk(stream, reader) /\ older = None
  <2>1. format = "events"
    BY DEF ReceiveEvent
  <2> QED  BY <2>1, ReceiveFields
<1>2. PICK t : t = Tail(stream)
  OBVIOUS
<1>3. /\ t \in Seq(Frames) /\ Len(t) \in Nat /\ Len(t) <= Larger(MaxFrames, 1) /\ Len(stream) = Len(t) + 1
      /\ stream[1].seq = Cursor - Len(t) /\ stream[1].seq \in Nat /\ stream[1].seq <= Cursor /\ Live(t)
      /\ \A i \in DOMAIN t : /\ t[i].seq = Cursor - Len(t) + i /\ t[i].type = "event"
                             /\ i + 1 \in DOMAIN stream /\ t[i] = stream[i + 1]
  BY <1>1, <1>2 DEF FramesBehind
<1>4. PICK seq \in Nat : seq = stream[1].seq
  BY <1>3
<1>5. /\ stream[1].type = "event" /\ t # None
      /\ IF seq <= Larger(reader.applied, reader.received) THEN reader' = reader /\ stream' = t
         ELSE IF Cardinality(reader.pending) >= MaxPending
         THEN /\ reader' = [reader EXCEPT !.received = seq, !.pending = {}, !.overflow = TRUE]
              /\ stream' = IF reader.overflow THEN t ELSE None
         ELSE /\ reader' = Schedule([reader EXCEPT !.received = seq, !.pending = @ \union {seq}], older)
              /\ stream' = t
  BY <1>1, <1>2, <1>4 DEF ReceiveEvent
<1>6. /\ reader.applied \in Nat /\ reader.received \in Nat /\ reader.target \in Nat
      /\ reader.pending \subseteq 1..reader.received /\ reader.applied <= reader.received
      /\ reader.animation \in BOOLEAN /\ reader.recovering \in BOOLEAN
  BY <1>1, ReaderFields DEF ReaderOk, CursorsOk
<1>7. /\ Live(stream) /\ Cursor - Len(stream) <= Larger(Base(reader), reader.received)
      /\ ~reader.overflow /\ Fresh(reader) = (Base(reader) + 1)..reader.received
      /\ seq > reader.target /\ \A i \in DOMAIN t : t[i].seq > reader.target
  <2>1. Live(stream)
    BY <1>5 DEF Live
  <2>2. 1 \in DOMAIN stream
    BY <1>1
  <2> QED  BY <1>1, <1>3, <1>4, <1>5, <2>1, <2>2 DEF StreamOk, BufferOk, Buffered
<1>8. Larger(reader.applied, reader.received) = reader.received
  BY <1>6 DEF Larger
<1>9. t \in Seq(Frames) \union {None} /\ None \in Seq(Frames) \union {None}
  BY <1>3
<1>10. CASE seq <= reader.received
  <2>1. reader' = reader /\ stream' = t
    BY <1>5, <1>8, <1>10
  <2>2. StreamOk(t, reader, Cursor)
    <3>1. Cursor - Len(t) <= Larger(Base(reader), reader.received)
      BY <1>3, <1>4, <1>6, <1>10 DEF Larger, Base
    <3> QED  BY <1>3, <3>1 DEF StreamOk
  <2>3. BufferOk(t, reader)
    BY <1>1, <1>7 DEF BufferOk, Buffered
  <2> QED  BY <1>1, <1>9, <2>1, <2>2, <2>3, FrameStep
<1>11. ASSUME NEW r \in Readers, seq > reader.received, r.applied = reader.applied, r.received = seq, r.target = reader.target,
              r.recovering = reader.recovering, r.catchup = reader.catchup, r.projection = reader.projection,
              r.retry = reader.retry, r.pending \subseteq 1..seq, Cardinality(r.pending) <= MaxPending
       PROVE  ReaderOk(r, format, Cursor)
  <2>1. CursorsOk(r, format, Cursor)
    BY <1>1, <1>3, <1>4, <1>6, <1>11 DEF ReaderOk, CursorsOk
  <2>2. r.catchup # None => RequestOk(r.catchup, r, format)
    BY <1>1, <1>11 DEF ReaderOk, RequestOk
  <2> QED  BY <1>1, <1>11, <2>1, <2>2 DEF ReaderOk
<1>12. CASE seq > reader.received /\ Cardinality(reader.pending) >= MaxPending
  <2>1. reader' = [reader EXCEPT !.received = seq, !.pending = {}, !.overflow = TRUE] /\ stream' = None
    BY <1>5, <1>6, <1>7, <1>8, <1>12
  <2>2. /\ reader' \in Readers /\ reader'.applied = reader.applied /\ reader'.received = seq /\ reader'.target = reader.target
        /\ reader'.recovering = reader.recovering /\ reader'.catchup = reader.catchup
        /\ reader'.projection = reader.projection /\ reader'.retry = reader.retry /\ reader'.pending = {}
        /\ reader'.overflow = TRUE
    BY <1>1, <2>1 DEF Readers
  <2>3. reader'.pending \subseteq 1..seq /\ Cardinality(reader'.pending) <= MaxPending
    BY <2>2, FS_EmptySet, StreamAssumption
  <2>4. ReaderOk(reader', format, Cursor)
    BY <1>11, <1>12, <2>2, <2>3
  <2>5. BufferOk(None, reader')
    <3>1. Fresh(reader') = {}
      BY <2>2 DEF Fresh
    <3>2. reader'.received > reader'.target /\ reader'.received > reader'.applied
      BY <1>6, <1>7, <1>12, <2>2
    <3> QED  BY <1>1, <2>2, <3>1, <3>2 DEF BufferOk, Buffered
  <2> QED  BY <1>1, <1>9, <2>1, <2>2, <2>4, <2>5, FrameStep
<1>13. CASE seq > reader.received /\ ~(Cardinality(reader.pending) >= MaxPending)
  <2> DEFINE v == reader.animation \/ ~reader.recovering
  <2>1. reader' = Schedule([reader EXCEPT !.received = seq, !.pending = @ \union {seq}], older) /\ stream' = t
    BY <1>5, <1>6, <1>8, <1>13
  <2>2. reader' = [reader EXCEPT !.received = seq, !.pending = @ \union {seq}, !.animation = v]
    BY <1>1, <2>1 DEF Schedule, Readers
  <2>3. v \in BOOLEAN /\ (~reader.recovering => v)
    OBVIOUS
  <2> HIDE DEF v
  <2>4. /\ reader' \in Readers /\ reader'.applied = reader.applied /\ reader'.received = seq /\ reader'.target = reader.target
        /\ reader'.recovering = reader.recovering /\ reader'.catchup = reader.catchup
        /\ reader'.projection = reader.projection /\ reader'.retry = reader.retry
        /\ reader'.pending = reader.pending \union {seq} /\ reader'.overflow = reader.overflow /\ reader'.animation = v
    BY <1>1, <2>2, <2>3 DEF Readers
  <2>5. reader'.pending \subseteq 1..seq /\ Cardinality(reader'.pending) <= MaxPending
    <3>1. IsFiniteSet(1..reader.received)
      BY <1>6, FS_Interval
    <3>2. IsFiniteSet(reader.pending)
      BY <1>6, <3>1, FS_Subset
    <3>3. seq \notin reader.pending
      BY <1>6, <1>13
    <3>4. Cardinality(reader.pending \union {seq}) = Cardinality(reader.pending) + 1 /\ Cardinality(reader.pending) \in Nat
      BY <3>2, <3>3, FS_AddElement, FS_CardinalityType
    <3>5. MaxPending \in Nat
      BY StreamAssumption
    <3>6. Cardinality(reader'.pending) <= MaxPending
      BY <1>13, <2>4, <3>4, <3>5
    <3>7. seq \in 1..seq
      BY <1>6, <1>13
    <3>8. \A x \in reader.pending : x \in 1..seq
      BY <1>6, <1>13
    <3> QED  BY <2>4, <3>6, <3>7, <3>8
  <2>6. ReaderOk(reader', format, Cursor)
    BY <1>11, <1>13, <2>4, <2>5
  <2>7. Base(reader') = Base(reader) /\ Base(reader) \in Nat /\ seq > Base(reader)
    BY <1>6, <1>7, <1>13, <2>4 DEF Base, Larger
  <2>8. seq - 1 = Larger(Base(reader), reader.received)
    <3>1. Cursor - Len(stream) = seq - 1
      BY <1>1, <1>3, <1>4
    <3>2. PICK b \in Nat : b = Base(reader)
      BY <2>7
    <3>3. seq - 1 <= Larger(b, reader.received) /\ seq > b
      BY <1>7, <2>7, <3>1, <3>2
    <3> QED  BY <1>6, <1>13, <3>2, <3>3 DEF Larger
  <2>9. Fresh(reader') = (Base(reader') + 1)..reader'.received
    <3>1. Fresh(reader') = Fresh(reader) \union {seq}
      BY <2>4, <2>7 DEF Fresh
    <3>2. (Base(reader) + 1)..seq = ((Base(reader) + 1)..reader.received) \union {seq}
      BY <1>6, <2>7, <2>8 DEF Larger
    <3> QED  BY <1>7, <2>4, <2>7, <3>1, <3>2
  <2>10. StreamOk(t, reader', Cursor)
    <3>1. Cursor - Len(t) <= Larger(Base(reader'), reader'.received)
      BY <1>3, <1>4, <2>4, <2>7 DEF Larger
    <3> QED  BY <1>3, <3>1 DEF StreamOk
  <2>11. BufferOk(t, reader')
    BY <1>1, <1>7, <2>3, <2>4, <2>9 DEF BufferOk, Buffered
  <2> QED  BY <1>1, <1>9, <2>1, <2>4, <2>6, <2>10, <2>11, FrameStep
<1> QED  BY <1>6, <1>10, <1>12, <1>13

(* A frame arrives.                                                         *)
LEMMA ReceiveStep == FollowOk /\ Receive => FollowOk'
BY SnapshotStep, ChangeStep, EventStep DEF Receive

(* The server's answer to the reader's request.                             *)
LEMMA AnswerIs ==
    ASSUME FollowOk, reader # None, reader.catchup # None, NEW a, a = Changes(reader.catchup)
    PROVE  LET q == reader.catchup
           IN /\ a \in Answers /\ q \in Requests
              /\ q.after <= a.nextAfter /\ a.nextAfter <= q.through
              /\ format = "transcript" =>
                    /\ a.nextKey = 0 => a.nextAfter = q.through
                    /\ \E page : AnswerOf(a, page, q.after, q.through, q.afterKey)
              /\ format = "events" => /\ a.nextKey = 0 /\ q.after < a.nextAfter
                                      /\ a.events = [i \in 1..(a.nextAfter - q.after) |-> q.after + i]
<1>1. /\ reader \in Readers /\ Cursor \in Nat /\ ReaderOk(reader, format, Cursor)
      /\ format \in {"transcript", "events"} /\ ServerOk
  BY StoredFields, PageFields DEF FollowOk, TypesOk, ClientOk
<1>2. PICK q \in Requests : q = reader.catchup
  BY <1>1, ReaderFields
<1>3. /\ q.after \in Nat /\ q.through \in Nat /\ q.afterKey \in Nat /\ reader.target \in Nat /\ reader.target <= Cursor
      /\ RequestOk(q, reader, format)
  BY <1>1, <1>2, ReaderFields DEF Requests, ReaderOk, CursorsOk
<1>4. PICK after \in Nat, through \in Nat, key \in Nat : after = q.after /\ through = q.through /\ key = q.afterKey
  BY <1>3
<1>5. after <= through /\ through <= Cursor
  BY <1>1, <1>3, <1>4 DEF RequestOk
<1>6. CASE format = "transcript"
  <2>1. a = ConversationChanges(after, through, key)
    BY <1>2, <1>4, <1>6 DEF Changes
  <2>2. PICK page : AnswerOf(a, page, after, through, key)
    BY <1>1, <1>5, <2>1, ChangesAre
  <2>3. /\ a \in Answers /\ after <= a.nextAfter /\ a.nextAfter <= through /\ (a.nextKey = 0 => a.nextAfter = through)
    BY <2>2 DEF AnswerOf
  <2> QED  BY <1>2, <1>4, <1>6, <2>2, <2>3
<1>7. CASE format = "events"
  <2>1. key = 0 /\ after < through
    BY <1>3, <1>4, <1>7 DEF RequestOk
  <2>2. a = HistoryChanges(after, through)
    BY <1>2, <1>4, <1>7 DEF Changes
  <2>3. /\ a \in Answers /\ a.nextKey = 0 /\ after < a.nextAfter /\ a.nextAfter <= through
        /\ a.events = [i \in 1..(a.nextAfter - after) |-> after + i]
    BY <1>1, <1>5, <2>1, <2>2, HistoryIs
  <2>4. a.nextAfter \in Nat
    BY <2>3 DEF Answers
  <2>5. after <= a.nextAfter
    BY <2>3, <2>4
  <2> QED  BY <1>2, <1>4, <1>7, <2>3, <2>5
<1> QED  BY <1>1, <1>6, <1>7

(* The answer to the reader's request, and its failure.                     *)
LEMMA RequestStep == FollowOk /\ (CatchupAnswered \/ CatchupFails) => FollowOk'
<1> SUFFICES ASSUME FollowOk, CatchupAnswered \/ CatchupFails PROVE FollowOk'
  OBVIOUS
<1>1. /\ reader # None /\ reader \in Readers /\ Cursor \in Nat /\ ReaderOk(reader, format, Cursor)
      /\ UNCHANGED <<server, stream, format, pages, older>> /\ reader.catchup # None
      /\ format \in {"transcript", "events"}
  BY StoredFields, PageFields DEF FollowOk, TypesOk, ClientOk, CatchupAnswered, CatchupFails
<1>2. ASSUME SameCursors(reader, reader'), reader'.recovering = reader.recovering, reader'.animation = reader.animation,
             format = "events"
      PROVE  BufferOk(stream, reader')
  <2>1. BufferOk(stream, reader)
    BY <1>1, <1>2 DEF FollowOk, ClientOk
  <2>2. Fresh(reader') = Fresh(reader) /\ Base(reader') = Base(reader)
    BY <1>2 DEF SameCursors, Fresh, Base
  <2> QED  BY <1>2, <2>1, <2>2 DEF SameCursors, BufferOk, Buffered
<1>3. CASE CatchupFails
  <2>1. reader' = [reader EXCEPT !.catchup = None, !.retry = TRUE]
    BY <1>3 DEF CatchupFails
  <2>2. /\ reader' \in Readers /\ SameCursors(reader, reader') /\ reader'.recovering = reader.recovering
        /\ reader'.animation = reader.animation /\ reader'.catchup = None /\ reader'.retry = TRUE
    BY <1>1, <2>1 DEF Readers, SameCursors
  <2>3. ReaderOk(reader', format, Cursor)
    BY <1>1, <2>2 DEF SameCursors, ReaderOk, CursorsOk
  <2> QED  BY <1>1, <1>2, <2>2, <2>3, ReaderStep DEF SameCursors
<1>4. CASE CatchupAnswered
  <2>1. PICK a : a = Changes(reader.catchup)
    OBVIOUS
  <2>2. PICK q \in Requests : q = reader.catchup
    BY <1>1, ReaderFields
  <2>3. /\ a \in Answers /\ q.after <= a.nextAfter /\ a.nextAfter <= q.through
        /\ format = "transcript" => (a.nextKey = 0 => a.nextAfter = q.through)
        /\ format = "events" => /\ a.nextKey = 0 /\ q.after < a.nextAfter
                                /\ a.events = [i \in 1..(a.nextAfter - q.after) |-> q.after + i]
    BY <1>1, <2>1, <2>2, AnswerIs
  <2> DEFINE n == [q EXCEPT !.answer = a]
  <2>4. n \in Requests /\ n.after = q.after /\ n.through = q.through /\ n.afterKey = q.afterKey /\ n.answer = a
    BY <2>3 DEF Requests
  <2>5. reader' = [reader EXCEPT !.catchup = n]
    BY <1>4, <2>1, <2>2 DEF CatchupAnswered
  <2> HIDE DEF n
  <2>6. n # None
    BY <2>4, NoneAssumption
  <2>7. /\ reader' \in Readers /\ SameCursors(reader, reader') /\ reader'.recovering = reader.recovering
        /\ reader'.animation = reader.animation /\ reader'.catchup = n /\ reader'.retry = reader.retry
    BY <1>1, <2>4, <2>5 DEF Readers, SameCursors
  <2>8. RequestOk(n, reader', format)
    <3>1. RequestOk(q, reader, format)
      BY <1>1, <2>2 DEF ReaderOk
    <3> QED  BY <2>3, <2>4, <2>7, <3>1 DEF RequestOk, SameCursors
  <2>9. ReaderOk(reader', format, Cursor)
    BY <1>1, <2>6, <2>7, <2>8 DEF SameCursors, ReaderOk, CursorsOk
  <2> QED  BY <1>1, <1>2, <2>7, <2>9, ReaderStep DEF SameCursors
<1> QED  BY <1>3, <1>4

(* An animation frame asked for.                                            *)
LEMMA ScheduleIs ==
    ASSUME NEW r \in Readers, NEW o, NEW q, q = Schedule(r, o)
    PROVE  /\ q \in Readers /\ SameCursors(r, q)
           /\ q.catchup = r.catchup /\ q.retry = r.retry /\ q.recovering = r.recovering
           /\ r.animation => q.animation
           /\ ~r.recovering /\ o = None => q.animation
<1> DEFINE v == r.animation \/ (~r.recovering /\ o = None)
<1>1. q = [r EXCEPT !.animation = v]
  BY DEF Schedule, Readers
<1>2. v \in BOOLEAN /\ (r.animation => v) /\ (~r.recovering /\ o = None => v)
  OBVIOUS
<1> HIDE DEF v
<1>3. /\ q \in Readers /\ SameCursors(r, q) /\ q.catchup = r.catchup /\ q.retry = r.retry
      /\ q.recovering = r.recovering /\ q.animation = v
  BY <1>1, <1>2 DEF Readers, SameCursors
<1> QED  BY <1>2, <1>3

(* Earlier pages are asked for.                                             *)
LEMMA AskEarlierStep == FollowOk /\ (LoadEarlier \/ EarlierAnswered) => FollowOk'
<1> SUFFICES ASSUME FollowOk, LoadEarlier \/ EarlierAnswered PROVE FollowOk'
  OBVIOUS
<1>1. UNCHANGED <<server, stream, format, pages, reader>>
  BY DEF LoadEarlier, EarlierAnswered
<1>2. ServerOk' /\ Cursor' = Cursor /\ ServerOk /\ TypesOk
  BY <1>1, ServerStays DEF FollowOk
<1>3. /\ reader # None /\ older' \in Earlier /\ older'.captured = pages /\ format = "transcript"
      /\ older'.answer # None => older'.answer.cursor <= Cursor
  <2>1. CASE LoadEarlier
    <3>1. reader # None /\ pages[1].before # 0 /\ older' = [before |-> pages[1].before, captured |-> pages, answer |-> None]
      BY <2>1 DEF LoadEarlier
    <3>2. 1 \in DOMAIN pages
      BY <1>2, <3>1, PageFields DEF FollowOk, ClientOk
    <3>3. format = "transcript"
      <4>1. format # "events"
        <5> SUFFICES ASSUME format = "events" PROVE FALSE
          OBVIOUS
        <5>1. pages[1] \in EventPages
          BY <1>2, <3>2, PageFields
        <5> QED  BY <3>1, <5>1 DEF EventPages
      <4> QED  BY <1>2, <4>1, PageFields
    <3>4. pages \in Seq(Pages) /\ pages[1].before \in Nat
      BY <1>2, <3>2, <3>3, PageFields
    <3> QED  BY <3>1, <3>3, <3>4 DEF Earlier
  <2>2. CASE EarlierAnswered
    <3>1. older # None /\ older' = [older EXCEPT !.answer = ConversationPage(older.before)]
      BY <2>2 DEF EarlierAnswered
    <3>2. older \in Earlier /\ older.captured = pages /\ format = "transcript" /\ reader # None
      BY <3>1 DEF FollowOk, TypesOk, PagesOk, ClientOk
    <3>3. PICK before \in Nat : before = older.before
      BY <3>2 DEF Earlier
    <3>4. PICK p : p = ConversationPage(before)
      OBVIOUS
    <3>5. p \in Pages /\ p.cursor = Cursor
      BY <1>2, <3>4, PageIs
    <3>6. older' = [older EXCEPT !.answer = p]
      BY <3>1, <3>3, <3>4
    <3>7. Cursor \in Nat
      BY <1>2, StoredFields
    <3> QED  BY <3>2, <3>5, <3>6, <3>7 DEF Earlier
  <2> QED  BY <2>1, <2>2
<1>4. older' # None
  BY <1>3, NoneAssumption
<1>5. TypesOk'
  BY <1>1, <1>2, <1>3 DEF TypesOk
<1>6. PagesOk'
  BY <1>1, <1>2, <1>3, <1>4 DEF FollowOk, PagesOk
<1>7. ClientOk'
  BY <1>1, <1>2, <1>3 DEF FollowOk, ClientOk
<1> QED  BY <1>2, <1>5, <1>6, <1>7 DEF FollowOk

(* Earlier pages arrive, or do not.                                         *)
LEMMA GetEarlierStep == FollowOk /\ (EarlierArrives \/ EarlierFails) => FollowOk'
<1> SUFFICES ASSUME FollowOk, EarlierArrives \/ EarlierFails PROVE FollowOk'
  OBVIOUS
<1>1. UNCHANGED <<server, stream, format>> /\ older # None /\ older' = None /\ reader' = Schedule(reader, None)
  BY DEF EarlierArrives, EarlierFails
<1>2. /\ ServerOk' /\ Cursor' = Cursor /\ ServerOk /\ TypesOk /\ reader # None /\ reader \in Readers
      /\ older \in Earlier /\ older.captured = pages /\ format = "transcript" /\ pages \in Seq(Pages)
      /\ pages # <<>> /\ reader.applied = Last(pages).cursor /\ ReaderOk(reader, format, Cursor)
  BY <1>1, ServerStays, PageFields DEF FollowOk, TypesOk, PagesOk, ClientOk
<1>3. /\ reader' \in Readers /\ SameCursors(reader, reader') /\ reader'.catchup = reader.catchup
      /\ reader'.retry = reader.retry /\ reader'.recovering = reader.recovering
  BY <1>1, <1>2, ScheduleIs
<1>4. ReaderOk(reader', format, Cursor)
  <2>1. CursorsOk(reader', format, Cursor)
    BY <1>2, <1>3 DEF SameCursors, ReaderOk, CursorsOk
  <2>2. reader'.catchup # None => RequestOk(reader'.catchup, reader', format)
    BY <1>2, <1>3 DEF SameCursors, ReaderOk, RequestOk
  <2> QED  BY <1>2, <1>3, <2>1, <2>2 DEF SameCursors, ReaderOk
<1>5. stream # None => StreamOk(stream, reader', Cursor)
  <2>1. Base(reader') = Base(reader) /\ reader'.received = reader.received /\ reader'.applied = reader.applied
    BY <1>3 DEF SameCursors, Base
  <2> QED  BY <1>2, <2>1 DEF FollowOk, ClientOk, StreamOk
<1>6. /\ pages' \in Seq(Pages) /\ pages' # <<>> /\ Last(pages') = Last(pages)
      /\ \A i \in DOMAIN pages' : pages'[i].cursor <= Cursor
  <2>1. CASE EarlierFails
    <3>1. pages' = pages
      BY <2>1 DEF EarlierFails
    <3> QED  BY <1>2, <3>1 DEF FollowOk, PagesOk
  <2>2. CASE EarlierArrives
    <3>1. pages' = <<older.answer>> \o pages /\ older.answer # None
      BY <1>2, <2>2 DEF EarlierArrives
    <3>2. PICK p \in Pages : p = older.answer
      BY <1>2, <3>1 DEF Earlier
    <3>3. p.cursor <= Cursor
      BY <1>1, <3>1, <3>2 DEF FollowOk, PagesOk
    <3>4. /\ pages' \in Seq(Pages) /\ Len(pages') = Len(pages) + 1 /\ pages'[1] = p /\ Len(pages) \in Nat /\ Len(pages) > 0
          /\ \A i \in 2..Len(pages') : pages'[i] = pages[i - 1]
      BY <1>2, <3>1, <3>2
    <3>5. \A i \in 2..Len(pages') : i - 1 \in DOMAIN pages
      BY <1>2, <3>4
    <3>6. \A i \in DOMAIN pages' : pages'[i].cursor <= Cursor
      <4>1. \A i \in DOMAIN pages' : i = 1 \/ i \in 2..Len(pages')
        BY <3>4
      <4> QED  BY <3>3, <3>4, <3>5, <4>1 DEF FollowOk, PagesOk
    <3>7. Last(pages') = Last(pages) /\ pages' # <<>>
      BY <3>4 DEF Last
    <3> QED  BY <3>4, <3>6, <3>7
  <2> QED  BY <2>1, <2>2
<1>7. TypesOk' /\ PagesOk'
  BY <1>1, <1>2, <1>3, <1>6 DEF TypesOk, PagesOk
<1>8. ClientOk'
  <2>1. reader'.applied = Last(pages').cursor /\ reader' # None
    BY <1>2, <1>3, <1>6, NoneAssumption DEF SameCursors
  <2> QED  BY <1>1, <1>2, <1>4, <1>5, <1>6, <2>1 DEF ClientOk
<1> QED  BY <1>2, <1>7, <1>8 DEF FollowOk

-----------------------------------------------------------------------------
(* The pages are written.                                                   *)

(* A sequence and its elements.                                             *)
LEMMA SeqFields ==
    ASSUME NEW S, NEW ps \in Seq(S)
    PROVE  /\ DOMAIN ps = 1..Len(ps) /\ Len(ps) \in Nat /\ \A i \in 1..Len(ps) : ps[i] \in S
           /\ ps # <<>> <=> Len(ps) > 0
OBVIOUS

(* The same pages, except for the cursor of the latest.                     *)
CursorRaised(ps, q, c) ==
    /\ Len(q) = Len(ps) /\ DOMAIN q = DOMAIN ps
    /\ \A i \in DOMAIN ps : /\ q[i].items = ps[i].items /\ q[i].before = ps[i].before
                            /\ i # Len(ps) => q[i].cursor = ps[i].cursor
    /\ q[Len(ps)].cursor = Larger(ps[Len(ps)].cursor, c)

(* The cursor of the latest page.                                           *)
LEMMA WithCursorIs ==
    ASSUME NEW A, NEW B, NEW S, S = [items : A, before : B, cursor : Nat], NEW ps \in Seq(S), ps # <<>>, NEW c \in Nat
    PROVE  WithCursor(ps, c) \in Seq(S) /\ CursorRaised(ps, WithCursor(ps, c), c)
<1>0. DOMAIN ps = 1..Len(ps) /\ Len(ps) \in Nat /\ Len(ps) > 0 /\ \A i \in 1..Len(ps) : ps[i] \in S
  BY SeqFields
<1>1. PICK n \in Nat : n = Len(ps) /\ n > 0 /\ DOMAIN ps = 1..n /\ \A i \in 1..n : ps[i] \in S
  BY <1>0
<1>2. ps[n] \in S
  BY <1>1
<1>3. ps[n].cursor \in Nat
  BY <1>2
<1>4. Larger(ps[n].cursor, c) \in Nat
  BY <1>3 DEF Larger
<1>5. PICK p : p = [ps[n] EXCEPT !.cursor = Larger(@, c)]
  OBVIOUS
<1>6. p \in S /\ p.items = ps[n].items /\ p.before = ps[n].before /\ p.cursor = Larger(ps[n].cursor, c)
  BY <1>2, <1>4, <1>5
<1>7. PICK q : q = WithCursor(ps, c)
  OBVIOUS
<1>8. q = [ps EXCEPT ![n] = p]
  BY <1>1, <1>5, <1>7 DEF WithCursor
<1>9. q \in Seq(S) /\ Len(q) = n /\ DOMAIN q = 1..n /\ \A i \in 1..n : q[i] = IF i = n THEN p ELSE ps[i]
  <2>1. p \in S
    BY <1>6
  <2> QED  BY <1>1, <1>8, <2>1
<1>10. CursorRaised(ps, q, c)
  BY <1>1, <1>6, <1>9 DEF CursorRaised
<1> QED  BY <1>7, <1>9, <1>10

(* The one page of the former format, up to an event.                       *)
UpTo(ps, n) == ps \in Seq(EventPages) /\ Len(ps) = 1 /\ ps[1].cursor = n /\ ps[1].items = [i \in 1..n |-> i]
Between(a, b) == [i \in 1..(b - a) |-> a + i]

(* Raw events at its end.                                                   *)
LEMMA AppendItemsIs ==
    ASSUME NEW ps, NEW a \in Nat, NEW b \in Nat, a <= b, UpTo(ps, a)
    PROVE  UpTo(AppendItems(ps, Between(a, b), b), b)
<1>0. ps \in Seq(EventPages) /\ Len(ps) = 1 /\ ps[1].cursor = a
  BY DEF UpTo
<1>00. PICK e : e = ps[1].items /\ e = [i \in 1..a |-> i]
  BY DEF UpTo
<1>000. PICK seqs, q : seqs = [i \in 1..(b - a) |-> a + i] /\ seqs = Between(a, b) /\ q = AppendItems(ps, seqs, b)
  BY DEF Between
<1> DEFINE all == [i \in 1..b |-> i]
           p == [ps[1] EXCEPT !.items = all]
           m == [ps EXCEPT ![1] = p]
<1>1. ps[1] \in EventPages /\ ps # <<>> /\ 1 \in DOMAIN ps
  <2>1. DOMAIN ps = 1..1 /\ (\A i \in 1..1 : ps[i] \in EventPages) /\ ps # <<>>
    <3>1. PICK S : S = EventPages
      OBVIOUS
    <3>2. PICK s \in Seq(S) : s = ps
      BY <1>0, <3>1
    <3>3. DOMAIN s = 1..Len(s) /\ (\A i \in 1..Len(s) : s[i] \in S) /\ (s # <<>> <=> Len(s) > 0)
      BY SeqFields
    <3> QED  BY <1>0, <3>1, <3>2, <3>3
  <2> QED  BY <2>1
<1>2. e \o seqs = all
  <2>1. e \in Seq(Nat) /\ Len(e) = a
    BY <1>00
  <2>2. seqs \in Seq(Nat) /\ Len(seqs) = b - a
    BY <1>000
  <2>3. all \in Seq(Nat) /\ Len(all) = b
    OBVIOUS
  <2> DEFINE x == e \o seqs
  <2>4. x \in Seq(Nat) /\ Len(x) = b
    BY <2>1, <2>2
  <2>5. \A i \in 1..b : x[i] = i
    <3> TAKE i \in 1..b
    <3>1. CASE i <= a
      <4>1. x[i] = e[i] /\ i \in 1..a
        BY <2>1, <2>2, <3>1
      <4> QED  BY <1>00, <4>1
    <3>2. CASE i > a
      <4>1. x[i] = seqs[i - a] /\ i - a \in 1..(b - a)
        BY <2>1, <2>2, <3>2
      <4>2. seqs[i - a] = a + (i - a)
        BY <1>000, <4>1
      <4> HIDE DEF x
      <4> QED  BY <4>1, <4>2
    <3> HIDE DEF x
    <3>3. i <= a \/ i > a
      OBVIOUS
    <3> QED  BY <3>1, <3>2, <3>3
  <2> HIDE DEF x
  <2>6. x = all
    BY <2>3, <2>4, <2>5
  <2> QED  BY <2>6 DEF x
<1>3. all \in Seq(Nat)
  OBVIOUS
<1>4. q = WithCursor(m, b)
  BY <1>0, <1>00, <1>000, <1>2 DEF AppendItems
<1> HIDE DEF all
<1>5. p \in EventPages /\ p.items = all /\ p.cursor = a
  BY <1>0, <1>1, <1>3 DEF EventPages
<1> HIDE DEF p
<1>6. m \in Seq(EventPages) /\ Len(m) = 1 /\ m # <<>> /\ m[1] = p /\ DOMAIN m = {1}
  BY <1>0, <1>1, <1>5
<1> HIDE DEF m
<1>7. /\ q \in Seq(EventPages) /\ Len(q) = Len(m) /\ q[1].items = m[1].items
      /\ q[Len(m)].cursor = Larger(m[Len(m)].cursor, b)
  <2>1. q \in Seq(EventPages) /\ CursorRaised(m, q, b)
    <3>1. PICK S : S = EventPages /\ S = [items : Seq(Nat), before : {0}, cursor : Nat]
      BY DEF EventPages
    <3>2. m \in Seq(S)
      BY <1>6, <3>1
    <3>3. WithCursor(m, b) \in Seq(S) /\ CursorRaised(m, WithCursor(m, b), b)
      BY <1>6, <3>1, <3>2, WithCursorIs
    <3> QED  BY <1>4, <3>1, <3>3
  <2> QED  BY <1>6, <2>1 DEF CursorRaised
<1>8. Larger(a, b) = b
  BY DEF Larger
<1>9. UpTo(q, b)
  BY <1>5, <1>6, <1>7, <1>8 DEF UpTo, all
<1> QED  BY <1>00, <1>000, <1>9

(* The parts of mergeConversationChanges.                                   *)
FloorOf(ps) == IF Retained(ps) = {} THEN ps[1].before ELSE Min({x.key : x \in Retained(ps)})
OwnersOf(ps, p) == {i \in DOMAIN ps : \E x \in ps[i].items : x.key = p.key}
StaleIn(ps, p) == OwnersOf(ps, p) # {} /\ \E x \in ps[Min(OwnersOf(ps, p))].items : x.key = p.key /\ x.revision > p.revision
HomeOf(ps, p) == IF OwnersOf(ps, p) # {} THEN Min(OwnersOf(ps, p)) ELSE Len(ps)
EffectiveIn(ps, patches) == {p \in patches : ~StaleIn(ps, p)}
PlacedIn(ps, patches) ==
    {p \in EffectiveIn(ps, patches) : p.item # None /\ (OwnersOf(ps, p) # {} \/ p.item.end >= FloorOf(ps))}
ItemsMerged(ps, patches, i) ==
    {x \in ps[i].items : \A p \in EffectiveIn(ps, patches) : p.key # x.key}
      \union {p.item : p \in {q \in PlacedIn(ps, patches) : HomeOf(ps, q) = i}}

(* What is merged.                                                          *)
LEMMA MergeIs ==
    ASSUME NEW ps \in Seq(Pages), ps # <<>>, NEW patches, patches \subseteq Patches, NEW c \in Nat,
           NEW q, q = Merge(ps, patches, c)
    PROVE  /\ q \in Seq(Pages) /\ Len(q) = Len(ps) /\ DOMAIN q = DOMAIN ps
           /\ \A i \in DOMAIN ps : /\ q[i].items = ItemsMerged(ps, patches, i) /\ q[i].before = ps[i].before
                                   /\ i # Len(ps) => q[i].cursor = ps[i].cursor
           /\ q[Len(ps)].cursor = Larger(ps[Len(ps)].cursor, c)
<1> DEFINE m == [i \in DOMAIN ps |-> [ps[i] EXCEPT !.items = ItemsMerged(ps, patches, i)]]
<1>1. q = WithCursor(m, c)
  BY DEF Merge, FloorOf, OwnersOf, StaleIn, HomeOf, EffectiveIn, PlacedIn, ItemsMerged
<1>2. \A i \in DOMAIN ps : ItemsMerged(ps, patches, i) \subseteq Items
  <2> TAKE i \in DOMAIN ps
  <2>1. ps[i].items \subseteq Items
    <3>1. ps[i] \in Pages
      OBVIOUS
    <3> QED  BY <3>1 DEF Pages
  <2>2. \A p \in PlacedIn(ps, patches) : p.item \in Items
    <3>1. \A p \in PlacedIn(ps, patches) : p \in Patches /\ p.item # None
      BY DEF PlacedIn, EffectiveIn
    <3> QED  BY <3>1 DEF Patches
  <2> QED  BY <2>1, <2>2 DEF ItemsMerged
<1>3. \A i \in DOMAIN ps : /\ m[i] \in Pages /\ m[i].items = ItemsMerged(ps, patches, i)
                           /\ m[i].before = ps[i].before /\ m[i].cursor = ps[i].cursor
  <2> TAKE i \in DOMAIN ps
  <2>1. ps[i] \in Pages
    OBVIOUS
  <2> QED  BY <1>2, <2>1 DEF Pages
<1>4. m \in Seq(Pages) /\ Len(m) = Len(ps) /\ DOMAIN m = DOMAIN ps /\ m # <<>> /\ Len(ps) \in DOMAIN ps
  <2>1. DOMAIN ps = 1..Len(ps) /\ Len(ps) \in Nat /\ Len(ps) > 0
    OBVIOUS
  <2>2. DOMAIN m = 1..Len(ps)
    BY <2>1
  <2> HIDE DEF m
  <2>3. m = [i \in 1..Len(ps) |-> m[i]]
    BY <2>1 DEF m
  <2>4. \A i \in 1..Len(ps) : m[i] \in Pages
    BY <1>3, <2>1
  <2>5. m \in Seq(Pages)
    BY <2>1, <2>3, <2>4
  <2>6. Len(m) = Len(ps)
    BY <2>1, <2>2, <2>5
  <2> QED  BY <2>1, <2>2, <2>5, <2>6
<1> HIDE DEF m
<1>5. /\ q \in Seq(Pages) /\ Len(q) = Len(m) /\ DOMAIN q = DOMAIN m
      /\ \A i \in DOMAIN m : /\ q[i].items = m[i].items /\ q[i].before = m[i].before
                             /\ i # Len(m) => q[i].cursor = m[i].cursor
      /\ q[Len(m)].cursor = Larger(m[Len(m)].cursor, c)
  <2>1. q \in Seq(Pages) /\ CursorRaised(m, q, c)
    <3>1. PICK S : S = Pages /\ S = [items : SUBSET Items, before : Nat, cursor : Nat]
      BY DEF Pages
    <3>2. m \in Seq(S)
      BY <1>4, <3>1
    <3>3. WithCursor(m, c) \in Seq(S) /\ CursorRaised(m, WithCursor(m, c), c)
      BY <1>4, <3>1, <3>2, WithCursorIs
    <3> QED  BY <1>1, <3>1, <3>3
  <2> QED  BY <2>1 DEF CursorRaised
<1> QED  BY <1>3, <1>4, <1>5

(* A step that writes the pages.                                            *)
LEMMA PagesStep ==
    ASSUME FollowOk, reader # None, older = None, UNCHANGED <<server, stream, format, older>>,
           pages' \in Seq(IF format = "events" THEN EventPages ELSE Pages), pages' # <<>>,
           \A i \in DOMAIN pages' : pages'[i].cursor <= Cursor,
           format = "events" => Len(pages') = 1 /\ pages'[1].items = [i \in 1..pages'[1].cursor |-> i],
           reader' \in Readers, reader'.applied = Last(pages').cursor, ReaderOk(reader', format, Cursor),
           stream # None => StreamOk(stream, reader', Cursor), format = "events" => BufferOk(stream, reader')
    PROVE  FollowOk'
<1>1. ServerOk' /\ Cursor' = Cursor
  BY ServerStays DEF FollowOk
<1>2. reader' # None
  BY NoneAssumption
<1>3. TypesOk'
  BY DEF FollowOk, TypesOk
<1>4. PagesOk'
  BY <1>1 DEF PagesOk
<1>5. ClientOk'
  <2>1. format' = format /\ stream' = stream
    OBVIOUS
  <2> QED  BY <1>1, <1>2, <2>1 DEF ClientOk
<1> QED  BY <1>1, <1>3, <1>4, <1>5 DEF FollowOk

(* The reader after a page of changes: its cursor has moved no further than *)
(* the target, and what it still lacks has a request.                       *)
AppliedOk(q, r, f, c, n) ==
    /\ n \in Nat /\ r.applied <= n /\ n <= r.target /\ n <= c
    /\ q \in Readers /\ q.applied = n /\ ReaderOk(q, f, c)
    /\ \A s : StreamOk(s, r, c) => StreamOk(s, q, c)
    /\ f = "events" => \A s : BufferOk(s, r) => BufferOk(s, q)

(* Applying a page of changes.                                              *)
LEMMA AppliedIs ==
    ASSUME NEW r \in Readers, NEW f \in {"transcript", "events"}, NEW c \in Nat, ReaderOk(r, f, c), older = None,
           r.catchup # None, r.catchup.answer # None,
           NEW n, n = SafeCursor(r, r.catchup.answer),
           NEW q, q = Continue([r EXCEPT !.applied = n, !.received = Larger(@, n)], r.catchup.answer, r.catchup)
    PROVE  AppliedOk(q, r, f, c, n)
<1>1. /\ r.applied \in Nat /\ r.received \in Nat /\ r.target \in Nat /\ r.catchup \in Requests
      /\ r.recovering \in BOOLEAN /\ r.retry \in BOOLEAN
  BY ReaderFields
<1>2. PICK q0 \in Requests : q0 = r.catchup
  BY <1>1
<1>3. PICK a \in Answers : a = r.catchup.answer
  BY <1>1 DEF Requests
<1>4. /\ q0.after \in Nat /\ q0.through \in Nat /\ q0.afterKey \in Nat /\ a.nextAfter \in Nat /\ a.nextKey \in Nat
  BY DEF Requests, Answers
<1>5. /\ r.applied <= q0.after /\ q0.after <= q0.through /\ q0.through <= r.target
      /\ q0.after <= a.nextAfter /\ a.nextAfter <= q0.through
      /\ f = "transcript" /\ a.nextKey = 0 => a.nextAfter = q0.through
      /\ f = "events" => a.nextKey = 0
      /\ q0.after <= r.applied + 1
  BY <1>2, <1>3 DEF ReaderOk, RequestOk
<1>6. n = IF a.nextKey = 0 THEN a.nextAfter ELSE Larger(r.applied, a.nextAfter - 1)
  BY <1>3 DEF SafeCursor
<1>7. n \in Nat /\ r.applied <= n /\ n <= r.target /\ n <= a.nextAfter /\ a.nextAfter <= n + 1 /\ (a.nextKey = 0 => n = a.nextAfter)
  <2>1. CASE a.nextKey = 0
    BY <1>1, <1>4, <1>5, <1>6, <2>1
  <2>2. CASE a.nextKey # 0
    BY <1>1, <1>4, <1>5, <1>6, <2>2 DEF Larger
  <2> QED  BY <2>1, <2>2
<1>8. r.recovering /\ ~r.retry /\ CursorsOk(r, f, c)
  BY <1>1 DEF ReaderOk
<1>9. PICK m \in Nat : m = Larger(r.received, n) /\ m >= r.received /\ m >= n /\ (m = r.received \/ (m = n /\ r.received < n))
  BY <1>1, <1>7 DEF Larger
<1>10. PICK r1 : r1 = [r EXCEPT !.applied = n, !.received = Larger(@, n)]
  OBVIOUS
<1>11. /\ r1 \in Readers /\ r1.applied = n /\ r1.received = m /\ r1.target = r.target /\ r1.pending = r.pending
       /\ r1.projection = r.projection /\ r1.retry = r.retry /\ r1.overflow = r.overflow /\ r1.recovering = r.recovering
  BY <1>7, <1>9, <1>10 DEF Readers
<1> DEFINE again == a.nextAfter < q0.through \/ a.nextKey # 0
<1>12. /\ q \in Readers
       /\ q.applied = n /\ q.received = m /\ q.target = r.target
       /\ q.pending = r.pending /\ q.projection = r.projection /\ q.retry = r.retry
       /\ q.overflow => r.overflow
       /\ again => /\ q.catchup # None /\ q.catchup = Request(a.nextAfter, q0.through, a.nextKey) /\ q.recovering
       /\ ~again /\ n < r.target => q.catchup # None /\ q.catchup = Request(n, r.target, 0) /\ q.recovering
       /\ ~again /\ ~(n < r.target) => q.catchup = None /\ ~q.recovering /\ ~q.overflow /\ q.animation
  <2>1. q = Continue(r1, a, q0)
    BY <1>2, <1>3, <1>10
  <2>2. Continued(q, r1, a, q0)
    BY <1>8, <1>11, <2>1, ContinueIs
  <2> QED  BY <1>11, <2>2 DEF Continued
<1>13. CursorsOk(q, f, c)
  <2>1. n <= c
    BY <1>1, <1>7, <1>8 DEF CursorsOk
  <2>2. m <= c
    BY <1>8, <1>9, <2>1 DEF CursorsOk
  <2>3. q.pending \subseteq 1..q.received
    <3>1. r.pending \subseteq 1..r.received
      BY <1>8 DEF CursorsOk
    <3> QED  BY <1>1, <1>9, <1>12, <3>1
  <2>4. f = "transcript" => m = n
    BY <1>1, <1>7, <1>8, <1>9 DEF CursorsOk
  <2>5. q.target <= c /\ Cardinality(q.pending) <= MaxPending /\ (f = "transcript" => q.pending = {} /\ ~q.overflow)
    BY <1>8, <1>12 DEF CursorsOk
  <2> QED  BY <1>9, <1>12, <2>2, <2>3, <2>4, <2>5 DEF CursorsOk
<1>14. ReaderOk(q, f, c)
  <2>1. CASE again
    <3>1. /\ q.catchup.after = a.nextAfter /\ q.catchup.through = q0.through /\ q.catchup.afterKey = a.nextKey
          /\ q.catchup.answer = None /\ q.catchup # None /\ q.recovering
      <4>1. PICK x : x = Request(a.nextAfter, q0.through, a.nextKey)
        OBVIOUS
      <4>2. x.after = a.nextAfter /\ x.through = q0.through /\ x.afterKey = a.nextKey /\ x.answer = None
        BY <4>1 DEF Request
      <4> QED  BY <1>12, <2>1, <4>1, <4>2
    <3>2. RequestOk(q.catchup, q, f)
      BY <1>5, <1>7, <1>12, <2>1, <3>1 DEF RequestOk
    <3> QED  BY <1>8, <1>12, <1>13, <3>1, <3>2 DEF ReaderOk
  <2>2. CASE ~again /\ n < r.target
    <3>1. /\ q.catchup.after = n /\ q.catchup.through = r.target /\ q.catchup.afterKey = 0
          /\ q.catchup.answer = None /\ q.catchup # None /\ q.recovering
      <4>1. PICK x : x = Request(n, r.target, 0)
        OBVIOUS
      <4>2. x.after = n /\ x.through = r.target /\ x.afterKey = 0 /\ x.answer = None
        BY <4>1 DEF Request
      <4> QED  BY <1>12, <2>2, <4>1, <4>2
    <3>2. RequestOk(q.catchup, q, f)
      <4>1. /\ q.applied <= q.catchup.after /\ q.catchup.after <= q.applied + 1 /\ q.catchup.after <= q.catchup.through
            /\ q.catchup.through <= q.target /\ q.catchup.after = q.applied /\ q.catchup.after < q.catchup.through
        <5>1. q.applied = n /\ q.target = r.target /\ q.catchup.after = n /\ q.catchup.through = r.target
          BY <1>12, <3>1
        <5>2. n <= n /\ n <= n + 1 /\ n <= r.target /\ r.target <= r.target /\ n < r.target
          BY <1>1, <1>7, <2>2
        <5> QED  BY <5>1, <5>2
      <4> QED  BY <3>1, <4>1 DEF RequestOk
    <3> QED  BY <1>8, <1>12, <1>13, <3>1, <3>2 DEF ReaderOk
  <2>3. CASE ~again /\ ~(n < r.target)
    BY <1>8, <1>12, <1>13, <2>3 DEF ReaderOk
  <2> QED  BY <2>1, <2>2, <2>3
<1>15. Base(q) = r.target /\ Base(r) = r.target
  BY <1>1, <1>4, <1>5, <1>7, <1>12 DEF Base, Larger
<1>16. ASSUME NEW s, StreamOk(s, r, c) PROVE StreamOk(s, q, c)
  <2>1. Larger(Base(r), r.received) = Larger(Base(q), q.received)
    BY <1>1, <1>7, <1>9, <1>12, <1>15 DEF Larger
  <2>2. r.received <= s[1].seq \/ r.received = r.applied => q.received <= s[1].seq \/ q.received = q.applied
    BY <1>1, <1>7, <1>9, <1>12
  <2> QED  BY <1>16, <2>1, <2>2 DEF StreamOk
<1>17. ASSUME NEW s, f = "events", BufferOk(s, r) PROVE BufferOk(s, q)
  <2>1. Fresh(q) = Fresh(r)
    BY <1>12, <1>15 DEF Fresh
  <2>2. r.pending \subseteq 1..r.received
    BY <1>8 DEF CursorsOk
  <2>3. (Base(q) + 1)..q.received = (Base(r) + 1)..r.received
    BY <1>1, <1>7, <1>9, <1>12, <1>15
  <2>4. q.overflow => q.pending = {} /\ q.received > q.target /\ q.received > q.applied
    <3>1. r.overflow => r.pending = {} /\ r.received > r.target
      BY <1>17 DEF BufferOk, Buffered
    <3> QED  BY <1>1, <1>7, <1>9, <1>12, <3>1
  <2>5. Buffered(s, q)
    <3>1. s # None /\ Live(s) => ~q.overflow /\ Fresh(q) = (Base(q) + 1)..q.received
      BY <1>12, <1>17, <2>1, <2>3 DEF BufferOk, Buffered
    <3> QED  BY <1>12, <1>17, <2>1, <2>3, <2>4, <3>1 DEF BufferOk, Buffered
  <2>6. ~q.recovering => q.animation
    BY <1>12
  <2> QED  BY <2>5, <2>6 DEF BufferOk
<1>18. n <= c
  BY <1>1, <1>7, <1>8 DEF CursorsOk
<1> QED  BY <1>7, <1>12, <1>14, <1>16, <1>17, <1>18 DEF AppliedOk

(* What the steps that write the pages start from.                          *)
LEMMA WriterFields ==
    ASSUME FollowOk, reader # None
    PROVE  /\ reader \in Readers /\ Cursor \in Nat /\ ReaderOk(reader, format, Cursor)
           /\ format \in {"transcript", "events"}
           /\ stream # None => StreamOk(stream, reader, Cursor)
           /\ format = "events" => BufferOk(stream, reader) /\ older = None
           /\ Len(pages) \in Nat /\ Len(pages) > 0 /\ DOMAIN pages = 1..Len(pages) /\ pages # <<>>
           /\ reader.applied = pages[Len(pages)].cursor
           /\ \A i \in DOMAIN pages : pages[i].cursor <= Cursor
           /\ format = "transcript" => pages \in Seq(Pages)
           /\ format = "events" => /\ pages \in Seq(EventPages) /\ Len(pages) = 1 /\ pages[1].cursor = reader.applied
                                   /\ pages[1].items = [i \in 1..reader.applied |-> i]
<1>1. /\ reader \in Readers /\ Cursor \in Nat /\ ReaderOk(reader, format, Cursor)
      /\ stream # None => StreamOk(stream, reader, Cursor)
      /\ format = "events" => BufferOk(stream, reader) /\ older = None
      /\ pages # <<>> /\ reader.applied = Last(pages).cursor
      /\ \A i \in DOMAIN pages : pages[i].cursor <= Cursor
  BY StoredFields DEF FollowOk, TypesOk, ClientOk, PagesOk
<1>2. /\ format \in {"transcript", "events"}
      /\ format = "events" => pages \in Seq(EventPages)
      /\ format = "transcript" => pages \in Seq(Pages)
      /\ DOMAIN pages = 1..Len(pages) /\ Len(pages) \in Nat
  BY PageFields DEF FollowOk
<1>3. Len(pages) > 0
  <2>1. CASE format = "events"
    BY <1>1, <1>2, <2>1
  <2>2. CASE format = "transcript"
    BY <1>1, <1>2, <2>2
  <2> QED  BY <1>2, <2>1, <2>2
<1>4. reader.applied = pages[Len(pages)].cursor
  BY <1>1 DEF Last
<1>5. ASSUME format = "events"
      PROVE  Len(pages) = 1 /\ pages[1].cursor = reader.applied /\ pages[1].items = [i \in 1..reader.applied |-> i]
  <2>1. Len(pages) <= 1 /\ pages[1].items = [i \in 1..pages[1].cursor |-> i]
    BY <1>1, <1>5 DEF FollowOk, PagesOk
  <2>2. Len(pages) = 1
    BY <1>2, <1>3, <2>1
  <2> QED  BY <1>4, <2>1, <2>2
<1> QED  BY <1>1, <1>2, <1>3, <1>4, <1>5

(* A page of changes is written.                                            *)
LEMMA CatchupStep == FollowOk /\ CatchupApplies => FollowOk'
<1> SUFFICES ASSUME FollowOk, CatchupApplies PROVE FollowOk'
  OBVIOUS
<1>1. PICK a, n : a = reader.catchup.answer /\ n = SafeCursor(reader, a)
  OBVIOUS
<1>2. /\ reader # None /\ reader.catchup # None /\ a # None /\ older = None
      /\ pages' = IF format = "transcript" THEN Merge(pages, a.patches, n) ELSE AppendItems(pages, a.events, n)
      /\ reader' = Continue([reader EXCEPT !.applied = n, !.received = Larger(@, n)], a, reader.catchup)
      /\ UNCHANGED <<server, stream, format, older>>
  BY <1>1 DEF CatchupApplies, MayWrite
<1>3. /\ reader \in Readers /\ Cursor \in Nat /\ ReaderOk(reader, format, Cursor)
      /\ format \in {"transcript", "events"}
      /\ stream # None => StreamOk(stream, reader, Cursor)
      /\ format = "events" => BufferOk(stream, reader)
      /\ Len(pages) \in Nat /\ Len(pages) > 0 /\ DOMAIN pages = 1..Len(pages) /\ pages # <<>>
      /\ reader.applied = pages[Len(pages)].cursor
      /\ \A i \in DOMAIN pages : pages[i].cursor <= Cursor
      /\ format = "transcript" => pages \in Seq(Pages)
      /\ format = "events" => /\ pages \in Seq(EventPages) /\ Len(pages) = 1 /\ pages[1].cursor = reader.applied
                              /\ pages[1].items = [i \in 1..reader.applied |-> i]
  BY <1>2, WriterFields
<1>4. /\ n \in Nat /\ reader.applied <= n /\ n <= reader.target /\ n <= Cursor
      /\ reader' \in Readers /\ reader'.applied = n /\ ReaderOk(reader', format, Cursor)
      /\ \A s : StreamOk(s, reader, Cursor) => StreamOk(s, reader', Cursor)
      /\ format = "events" => \A s : BufferOk(s, reader) => BufferOk(s, reader')
  <2>1. PICK f \in {"transcript", "events"}, c \in Nat : f = format /\ c = Cursor
    BY <1>3
  <2>2. PICK q : q = reader'
    OBVIOUS
  <2>3. q = Continue([reader EXCEPT !.applied = n, !.received = Larger(@, n)], reader.catchup.answer, reader.catchup)
    BY <1>1, <1>2, <2>2
  <2>4. ReaderOk(reader, f, c) /\ reader.catchup.answer # None /\ n = SafeCursor(reader, reader.catchup.answer)
    BY <1>1, <1>2, <1>3, <2>1
  <2>5. AppliedOk(q, reader, f, c, n)
    BY <1>2, <1>3, <2>3, <2>4, AppliedIs
  <2> QED  BY <2>1, <2>2, <2>5 DEF AppliedOk
<1>5. reader.applied \in Nat /\ reader.catchup \in Requests /\ a \in Answers
  <2>1. reader.applied \in Nat /\ reader.catchup \in Requests
    BY <1>2, <1>3, ReaderFields
  <2> QED  BY <1>1, <1>2, <2>1 DEF Requests
<1>6. CASE format = "transcript"
  <2>1. /\ pages' \in Seq(Pages) /\ Len(pages') = Len(pages) /\ DOMAIN pages' = DOMAIN pages
        /\ \A i \in DOMAIN pages : i # Len(pages) => pages'[i].cursor = pages[i].cursor
        /\ pages'[Len(pages)].cursor = Larger(pages[Len(pages)].cursor, n)
    <3>1. a.patches \subseteq Patches
      BY <1>5 DEF Answers
    <3>2. pages' = Merge(pages, a.patches, n)
      BY <1>2, <1>6
    <3> QED  BY <1>3, <1>4, <1>6, <3>1, <3>2, MergeIs
  <2>2. pages'[Len(pages)].cursor = n
    BY <1>3, <1>4, <1>5, <2>1 DEF Larger
  <2>3. \A i \in DOMAIN pages' : pages'[i].cursor <= Cursor
    BY <1>3, <1>4, <2>1, <2>2
  <2>4. Last(pages').cursor = n /\ pages' # <<>>
    <3>1. pages' # <<>>
      BY <1>3, <2>1
    <3> QED  BY <2>1, <2>2, <3>1 DEF Last
  <2>5. pages' \in Seq(IF format = "events" THEN EventPages ELSE Pages)
    BY <1>6, <2>1
  <2> QED  BY <1>2, <1>3, <1>4, <1>6, <2>3, <2>4, <2>5, PagesStep
<1>7. CASE format = "events"
  <2>1. /\ a.nextKey = 0 /\ a.events = [i \in 1..(a.nextAfter - reader.catchup.after) |-> reader.catchup.after + i]
        /\ reader.catchup.after = reader.applied
    BY <1>1, <1>2, <1>3, <1>7 DEF ReaderOk, RequestOk
  <2>2. n = a.nextAfter /\ a.events = [i \in 1..(n - reader.applied) |-> reader.applied + i]
    BY <1>1, <2>1 DEF SafeCursor
  <2>3. pages' = AppendItems(pages, a.events, n)
    BY <1>2, <1>7
  <2>4. pages' \in Seq(EventPages) /\ Len(pages') = 1 /\ pages'[1].cursor = n /\ pages'[1].items = [i \in 1..n |-> i]
    <3>1. UpTo(pages, reader.applied) /\ a.events = Between(reader.applied, n)
      BY <1>3, <1>7, <2>2 DEF UpTo, Between
    <3>2. UpTo(pages', n)
      BY <1>4, <1>5, <2>3, <3>1, AppendItemsIs
    <3> QED  BY <3>2 DEF UpTo
  <2>5. DOMAIN pages' = {1} /\ pages' # <<>>
    BY <2>4
  <2>6. Last(pages').cursor = n
    BY <2>4 DEF Last
  <2>7. pages' \in Seq(IF format = "events" THEN EventPages ELSE Pages)
    BY <1>7, <2>4
  <2>8. \A i \in DOMAIN pages' : pages'[i].cursor <= Cursor
    BY <1>4, <2>4, <2>5
  <2> QED  BY <1>2, <1>3, <1>4, <1>7, <2>4, <2>5, <2>6, <2>7, <2>8, PagesStep
<1> QED  BY <1>3, <1>6, <1>7

(* The buffered events are published.                                       *)
LEMMA PublishStep == FollowOk /\ Publish => FollowOk'
<1> SUFFICES ASSUME FollowOk, Publish PROVE FollowOk'
  OBVIOUS
<1>1. reader # None /\ reader.animation /\ UNCHANGED <<server, stream, format, older>>
  BY DEF Publish
<1>2. /\ reader \in Readers /\ Cursor \in Nat /\ ReaderOk(reader, format, Cursor)
      /\ format \in {"transcript", "events"}
      /\ stream # None => StreamOk(stream, reader, Cursor)
      /\ format = "events" => BufferOk(stream, reader) /\ older = None
      /\ Len(pages) \in Nat /\ Len(pages) > 0 /\ DOMAIN pages = 1..Len(pages) /\ pages # <<>>
      /\ reader.applied = pages[Len(pages)].cursor
      /\ \A i \in DOMAIN pages : pages[i].cursor <= Cursor
      /\ format = "transcript" => pages \in Seq(Pages)
      /\ format = "events" => /\ pages \in Seq(EventPages) /\ Len(pages) = 1 /\ pages[1].cursor = reader.applied
                              /\ pages[1].items = [i \in 1..reader.applied |-> i]
  BY <1>1, WriterFields
<1>3. /\ reader.applied \in Nat /\ reader.received \in Nat /\ reader.target \in Nat /\ reader.recovering \in BOOLEAN
      /\ reader.applied <= reader.received /\ reader.received <= Cursor
  BY <1>2, ReaderFields DEF ReaderOk, CursorsOk
<1>4. CASE reader.recovering \/ ~MayWrite
  <2>1. reader' = [reader EXCEPT !.animation = FALSE] /\ pages' = pages
    BY <1>4 DEF Publish
  <2>2. /\ reader' \in Readers /\ SameCursors(reader, reader') /\ reader'.catchup = reader.catchup
        /\ reader'.retry = reader.retry /\ reader'.recovering = reader.recovering
    BY <1>2, <2>1 DEF Readers, SameCursors
  <2>3. ReaderOk(reader', format, Cursor)
    <3>1. CursorsOk(reader', format, Cursor)
      BY <1>2, <2>2 DEF SameCursors, ReaderOk, CursorsOk
    <3>2. reader'.catchup # None => RequestOk(reader'.catchup, reader', format)
      BY <1>2, <2>2 DEF SameCursors, ReaderOk, RequestOk
    <3> QED  BY <1>2, <2>2, <3>1, <3>2 DEF SameCursors, ReaderOk
  <2>4. format = "events" => BufferOk(stream, reader')
    <3> SUFFICES ASSUME format = "events" PROVE BufferOk(stream, reader')
      OBVIOUS
    <3>1. reader.recovering
      BY <1>2, <1>4 DEF MayWrite
    <3>2. Fresh(reader') = Fresh(reader) /\ Base(reader') = Base(reader)
      BY <2>2 DEF SameCursors, Fresh, Base
    <3> QED  BY <1>2, <2>2, <3>1, <3>2 DEF SameCursors, BufferOk, Buffered
  <2> QED  BY <1>1, <2>1, <2>2, <2>3, <2>4, ReaderStep DEF SameCursors
<1>5. CASE ~reader.recovering /\ MayWrite
  <2>0. older = None
    BY <1>5 DEF MayWrite
  <2>1. PICK fresh : fresh = {s \in reader.pending : s > reader.applied}
    OBVIOUS
  <2>2. PICK n : n = Max(fresh \union {reader.applied})
    OBVIOUS
  <2>3. /\ pages' = IF fresh = {} THEN pages ELSE AppendItems(pages, Ascending(fresh), n)
        /\ reader' = [reader EXCEPT !.animation = FALSE, !.pending = {}, !.applied = n, !.received = Larger(@, n)]
    BY <1>5, <2>1, <2>2 DEF Publish
  <2>4. Cardinality({}) <= MaxPending
    BY FS_EmptySet, StreamAssumption
  <2>5. reader.catchup = None /\ ~reader.retry
    BY <1>2, <1>5 DEF ReaderOk
  <2>6. CASE fresh = {}
    <3>1. n = reader.applied
      <4>1. fresh \union {reader.applied} = {reader.applied, reader.applied}
        BY <2>6
      <4> QED  BY <1>3, <2>2, <4>1, MaxOfTwo
    <3>2. Larger(reader.received, n) = reader.received
      BY <1>3, <3>1 DEF Larger
    <3>3. /\ reader' \in Readers /\ reader'.applied = reader.applied /\ reader'.received = reader.received
          /\ reader'.target = reader.target /\ reader'.pending = {} /\ reader'.catchup = reader.catchup
          /\ reader'.retry = reader.retry /\ reader'.recovering = reader.recovering
          /\ reader'.projection = reader.projection /\ reader'.overflow = reader.overflow
      BY <1>2, <2>3, <3>1, <3>2 DEF Readers
    <3>4. ReaderOk(reader', format, Cursor)
      <4>1. CursorsOk(reader', format, Cursor)
        BY <1>2, <2>4, <3>3 DEF ReaderOk, CursorsOk
      <4> QED  BY <1>2, <2>5, <3>3, <4>1 DEF ReaderOk
    <3>5. format = "events" => BufferOk(stream, reader')
      <4> SUFFICES ASSUME format = "events" PROVE BufferOk(stream, reader')
        OBVIOUS
      <4>1. ~reader.projection /\ reader.applied >= reader.target
        BY <1>2, <1>3, <1>5 DEF BufferOk, Buffered, ReaderOk
      <4>2. Base(reader) = reader.applied /\ Base(reader') = reader.applied
        BY <1>3, <3>3, <4>1 DEF Base, Larger
      <4>3. Fresh(reader) = {} /\ Fresh(reader') = {}
        BY <2>1, <2>6, <3>3, <4>2 DEF Fresh
      <4> QED  BY <1>2, <3>3, <4>2, <4>3 DEF BufferOk, Buffered
    <3> QED  BY <1>1, <2>3, <2>6, <3>3, <3>4, <3>5, ReaderStep
  <2>7. CASE fresh # {}
    <3>1. format = "events"
      BY <1>2, <2>1, <2>7 DEF ReaderOk, CursorsOk
    <3>2. ~reader.projection /\ reader.applied >= reader.target
      BY <1>2, <1>3, <1>5, <3>1 DEF BufferOk, Buffered, ReaderOk
    <3>3. Base(reader) = reader.applied
      BY <1>3, <3>2 DEF Base, Larger
    <3>4. Fresh(reader) = fresh
      BY <2>1, <3>3 DEF Fresh
    <3>5. fresh = (reader.applied + 1)..reader.received /\ reader.pending # {}
      BY <1>2, <2>1, <2>7, <3>1, <3>3, <3>4 DEF BufferOk, Buffered
    <3>6. reader.applied < reader.received
      BY <1>3, <2>7, <3>5
    <3>7. n = reader.received
      <4> DEFINE S == fresh \union {reader.applied}
      <4>1. S \subseteq Nat /\ S # {} /\ (\A y \in S : y <= reader.received) /\ reader.received \in S
        BY <1>3, <3>5, <3>6
      <4> HIDE DEF S
      <4>2. Max(S) \in S /\ \A y \in S : Max(S) >= y
        BY <1>3, <4>1, MaxIs
      <4>3. Max(S) <= reader.received /\ Max(S) >= reader.received /\ Max(S) \in Nat
        BY <4>1, <4>2
      <4> QED  BY <1>3, <2>2, <4>3 DEF S
    <3>8. pages' = AppendItems(pages, Ascending(fresh), n)
      BY <2>3, <2>7
    <3>9. Ascending(fresh) = [i \in 1..(n - reader.applied) |-> reader.applied + i]
      BY <1>3, <3>5, <3>6, <3>7, AscendingIs
    <3>10. pages' \in Seq(EventPages) /\ Len(pages') = 1 /\ pages'[1].cursor = n /\ pages'[1].items = [i \in 1..n |-> i]
      <4>1. UpTo(pages, reader.applied) /\ Ascending(fresh) = Between(reader.applied, n)
        BY <1>2, <3>1, <3>9 DEF UpTo, Between
      <4>2. UpTo(pages', n)
        BY <1>3, <3>7, <3>8, <4>1, AppendItemsIs
      <4> QED  BY <4>2 DEF UpTo
    <3>11. Larger(reader.received, n) = n
      BY <3>7 DEF Larger
    <3>12. /\ reader' \in Readers /\ reader'.applied = reader.received /\ reader'.received = reader.received
           /\ reader'.target = reader.target /\ reader'.pending = {} /\ reader'.catchup = reader.catchup
           /\ reader'.retry = reader.retry /\ reader'.recovering = reader.recovering
           /\ reader'.projection = reader.projection /\ reader'.overflow = reader.overflow
      BY <1>2, <1>3, <2>3, <3>7, <3>11 DEF Readers
    <3>13. ~reader.overflow
      BY <1>2, <3>1, <3>5 DEF BufferOk, Buffered
    <3>14. ReaderOk(reader', format, Cursor)
      <4>1. CursorsOk(reader', format, Cursor)
        BY <1>2, <1>3, <2>4, <3>1, <3>12 DEF ReaderOk, CursorsOk
      <4>2. ~(reader'.applied < reader'.target)
        BY <1>3, <3>2, <3>6, <3>12
      <4> QED  BY <1>2, <2>5, <3>12, <4>1, <4>2 DEF ReaderOk
    <3>15. Base(reader') = reader.received
      BY <1>3, <3>2, <3>6, <3>12 DEF Base, Larger
    <3>16. Larger(Base(reader), reader.received) = reader.received /\ Larger(Base(reader'), reader'.received) = reader.received
      BY <1>3, <3>3, <3>6, <3>12, <3>15 DEF Larger
    <3>17. stream # None => StreamOk(stream, reader', Cursor)
      BY <1>2, <3>12, <3>16 DEF StreamOk
    <3>18. BufferOk(stream, reader')
      <4>1. Fresh(reader') = {} /\ (Base(reader') + 1)..reader'.received = {}
        BY <1>3, <3>12, <3>15 DEF Fresh
      <4> QED  BY <1>2, <3>1, <3>12, <3>13, <4>1 DEF BufferOk, Buffered
    <3>19. DOMAIN pages' = {1} /\ pages' # <<>>
      BY <3>10
    <3>20. reader'.applied = Last(pages').cursor
      BY <3>7, <3>10, <3>12 DEF Last
    <3>21. \A i \in DOMAIN pages' : pages'[i].cursor <= Cursor
      BY <1>3, <3>7, <3>10, <3>19
    <3>22. pages' \in Seq(IF format = "events" THEN EventPages ELSE Pages)
      BY <3>1, <3>10
    <3> QED  BY <1>1, <2>0, <3>1, <3>10, <3>12, <3>14, <3>17, <3>18, <3>19, <3>20, <3>21, <3>22, PagesStep
  <2> QED  BY <2>6, <2>7
<1> QED  BY <1>4, <1>5

-----------------------------------------------------------------------------
(* Every step.                                                              *)
LEMMA FollowNext == FollowOk /\ [Next]_vars => FollowOk'
<1>1. FollowOk /\ UNCHANGED vars => FollowOk'
  BY DEF vars, FollowOk, TypesOk, ServerOk, PagesOk, ClientOk, Cursor
<1> QED
  BY <1>1, CommitStep, ConnectionStep, ReceiveStep, TimerStep, RequestStep, CatchupStep, PublishStep,
     AskEarlierStep, GetEarlierStep, OpenStep, AwayStep DEF Next

(* The invariant of the follower.                                           *)
THEOREM FollowInvariant == Spec => []FollowOk
BY FollowInit, FollowNext, PTL DEF Spec


(* Every variable of the server and of the client keeps its type, and the   *)
(* limits of the two queues and of the cursors hold.                        *)
THEOREM StreamTypes == Spec => []TypeOK
BY FollowInvariant, FollowImplies, PTL

(* A connected client that waits for nothing has everything the server has  *)
(* committed, whatever was lost, retried or left in between.                *)
THEOREM QuietInvariant == Spec => []QuietIsCurrent
BY FollowInvariant, FollowImplies, PTL

-----------------------------------------------------------------------------
(* The groups of a block (presentTranscript).                               *)


(* The turns of a block: two items are of the same one if nothing between   *)
(* them begins or ends a turn.                                              *)
Begins == Separate \union Boundaries \union {"compacted"}
Ends == Separate \union EndsTurn \union {"compacted"}
Turn(l, i, j) ==
    \A k \in DOMAIN l : /\ (i < k /\ k <= j) \/ (j < k /\ k <= i) => l[k].kind \notin Begins
                        /\ (i <= k /\ k < j) \/ (j <= k /\ k < i) => l[k].kind \notin Ends
NoText(l, i, j) == \A k \in DOMAIN l : (i <= k /\ k <= j) \/ (j <= k /\ k <= i) => l[k].kind # "text"
Near(l, i, j) == Turn(l, i, j) /\ NoText(l, i, j)

(* That is what SameTurn says.                                              *)
LEMMA TurnIs ==
    ASSUME NEW l \in Seq(LogItems), NEW i \in DOMAIN l, NEW j \in DOMAIN l
    PROVE  SameTurn(l, i, j) <=> Turn(l, i, j)
<1>1. DOMAIN l = 1..Len(l) /\ Len(l) \in Nat /\ i \in Nat /\ j \in Nat
  OBVIOUS
<1>2. ASSUME NEW a \in DOMAIN l, NEW b \in DOMAIN l, a <= b
      PROVE  SameTurn(l, a, b) <=> Turn(l, a, b)
  <2>1. a \in Nat /\ b \in Nat /\ a..b \subseteq DOMAIN l
    BY <1>1
  <2>2. SameTurn(l, a, b) <=> \A k \in a..b : /\ k > a => l[k].kind \notin Begins
                                              /\ k < b => l[k].kind \notin Ends
    BY <1>2, <2>1, SameTurnIs DEF Begins, Ends
  <2>3. \A k \in DOMAIN l : k \in Nat /\ (k \in a..b <=> a <= k /\ k <= b)
    BY <1>1, <2>1
  <2>4. Turn(l, a, b) <=> \A k \in a..b : /\ k > a => l[k].kind \notin Begins
                                          /\ k < b => l[k].kind \notin Ends
    <3>1. ASSUME Turn(l, a, b), NEW k \in a..b
          PROVE  (k > a => l[k].kind \notin Begins) /\ (k < b => l[k].kind \notin Ends)
      BY <2>1, <3>1 DEF Turn
    <3>2. ASSUME \A k \in a..b : /\ k > a => l[k].kind \notin Begins
                                 /\ k < b => l[k].kind \notin Ends
          PROVE  Turn(l, a, b)
      <4> SUFFICES ASSUME NEW k \in DOMAIN l
                   PROVE  /\ (a < k /\ k <= b) \/ (b < k /\ k <= a) => l[k].kind \notin Begins
                          /\ (a <= k /\ k < b) \/ (b <= k /\ k < a) => l[k].kind \notin Ends
        BY DEF Turn
      <4>1. k \in Nat /\ (k \in a..b <=> a <= k /\ k <= b)
        BY <2>3
      <4>2. k \in a..b => (k > a => l[k].kind \notin Begins) /\ (k < b => l[k].kind \notin Ends)
        BY <3>2
      <4> QED  BY <1>2, <2>1, <4>1, <4>2
    <3> QED  BY <3>1, <3>2
  <2> QED  BY <2>2, <2>4
<1>3. CASE i <= j
  BY <1>2, <1>3
<1>4. CASE j <= i
  <2>1. SameTurn(l, j, i) <=> Turn(l, j, i)
    BY <1>2, <1>4
  <2>2. SameTurn(l, j, i) <=> SameTurn(l, i, j)
    BY <1>1, <1>4, SameTurnIs
  <2>3. Turn(l, j, i) <=> Turn(l, i, j)
    BY DEF Turn
  <2> QED  BY <2>1, <2>2, <2>3
<1> QED  BY <1>1, <1>3, <1>4

(* Being near is an equivalence, and so is being of one turn; both hold for *)
(* what lies between.                                                       *)
LEMMA NearIs ==
    ASSUME NEW l \in Seq(LogItems), NEW i \in DOMAIN l, NEW j \in DOMAIN l, NEW k \in DOMAIN l
    PROVE  /\ Turn(l, i, i) /\ (Turn(l, i, j) => Turn(l, j, i))
           /\ Turn(l, i, j) /\ Turn(l, j, k) => Turn(l, i, k)
           /\ Turn(l, i, k) /\ i <= j /\ j <= k => Turn(l, i, j) /\ Turn(l, j, k)
           /\ l[i].kind # "text" => Near(l, i, i)
           /\ Near(l, i, j) => Near(l, j, i)
           /\ Near(l, i, j) /\ Near(l, j, k) => Near(l, i, k)
           /\ Near(l, i, k) /\ i <= j /\ j <= k => Near(l, i, j) /\ Near(l, j, k)
<1>1. \A m \in DOMAIN l : m \in Nat
  OBVIOUS
<1>2. Turn(l, i, i) /\ (l[i].kind # "text" => NoText(l, i, i))
  BY <1>1 DEF Turn, NoText
<1>3. (Turn(l, i, j) => Turn(l, j, i)) /\ (NoText(l, i, j) => NoText(l, j, i))
  BY DEF Turn, NoText
<1>4. ASSUME Turn(l, i, j), Turn(l, j, k) PROVE Turn(l, i, k)
  <2> SUFFICES ASSUME NEW m \in DOMAIN l
               PROVE  /\ (i < m /\ m <= k) \/ (k < m /\ m <= i) => l[m].kind \notin Begins
                      /\ (i <= m /\ m < k) \/ (k <= m /\ m < i) => l[m].kind \notin Ends
    BY DEF Turn
  <2>1. m \in Nat /\ i \in Nat /\ j \in Nat /\ k \in Nat
    BY <1>1
  <2>2. /\ (i < m /\ m <= j) \/ (j < m /\ m <= i) => l[m].kind \notin Begins
        /\ (i <= m /\ m < j) \/ (j <= m /\ m < i) => l[m].kind \notin Ends
    BY <1>4 DEF Turn
  <2>3. /\ (j < m /\ m <= k) \/ (k < m /\ m <= j) => l[m].kind \notin Begins
        /\ (j <= m /\ m < k) \/ (k <= m /\ m < j) => l[m].kind \notin Ends
    BY <1>4 DEF Turn
  <2> QED  BY <2>1, <2>2, <2>3
<1>5. ASSUME NoText(l, i, j), NoText(l, j, k) PROVE NoText(l, i, k)
  <2> SUFFICES ASSUME NEW m \in DOMAIN l, (i <= m /\ m <= k) \/ (k <= m /\ m <= i) PROVE l[m].kind # "text"
    BY DEF NoText
  <2>1. m \in Nat /\ i \in Nat /\ j \in Nat /\ k \in Nat
    BY <1>1
  <2>2. (i <= m /\ m <= j) \/ (j <= m /\ m <= i) \/ (j <= m /\ m <= k) \/ (k <= m /\ m <= j)
    BY <2>1
  <2> QED  BY <1>5, <2>2 DEF NoText
<1>6. ASSUME i <= j, j <= k
      PROVE  /\ Turn(l, i, k) => Turn(l, i, j) /\ Turn(l, j, k)
             /\ NoText(l, i, k) => NoText(l, i, j) /\ NoText(l, j, k)
  <2>1. ASSUME NEW m \in DOMAIN l
        PROVE  /\ (i < m /\ m <= j) \/ (j < m /\ m <= i) => i < m /\ m <= k
               /\ (i <= m /\ m < j) \/ (j <= m /\ m < i) => i <= m /\ m < k
               /\ (j < m /\ m <= k) \/ (k < m /\ m <= j) => i < m /\ m <= k
               /\ (j <= m /\ m < k) \/ (k <= m /\ m < j) => i <= m /\ m < k
               /\ (i <= m /\ m <= j) \/ (j <= m /\ m <= i) => i <= m /\ m <= k
               /\ (j <= m /\ m <= k) \/ (k <= m /\ m <= j) => i <= m /\ m <= k
    BY <1>1, <1>6
  <2>2. Turn(l, i, k) => Turn(l, i, j) /\ Turn(l, j, k)
    BY <2>1 DEF Turn
  <2>3. NoText(l, i, k) => NoText(l, i, j) /\ NoText(l, j, k)
    BY <2>1 DEF NoText
  <2> QED  BY <2>2, <2>3
<1> QED  BY <1>2, <1>3, <1>4, <1>5, <1>6 DEF Near

(* A group is all that is near to any of its members.                       *)
LEMMA GroupsAre ==
    ASSUME NEW l \in Seq(LogItems), NEW g \in Groups(l)
    PROVE  /\ g # {} /\ g \subseteq DOMAIN l /\ Min(g) \in g /\ Min(g) \in Nat /\ (\A i \in g : Min(g) <= i)
           /\ \A i \in g : l[i].kind \in Background
           /\ \A i \in g : \A j \in DOMAIN l : j \in g <=> l[j].kind \in Background /\ Near(l, i, j)
<1>1. PICK i0 \in DOMAIN l : l[i0].kind \in Background /\ g = GroupOf(l, i0)
  BY DEF Groups
<1>2. \A j \in DOMAIN l : j \in g <=> l[j].kind \in Background /\ Near(l, i0, j)
  <2>1. \A j \in DOMAIN l : SameTurn(l, i0, j) <=> Turn(l, i0, j)
    BY TurnIs
  <2> QED  BY <1>1, <2>1, GroupIs DEF Near, NoText
<1>3. g # {} /\ g \subseteq DOMAIN l /\ (\A i \in g : l[i].kind \in Background)
  BY <1>1, GroupIs
<1>4. ASSUME NEW i \in g, NEW j \in DOMAIN l PROVE j \in g <=> l[j].kind \in Background /\ Near(l, i, j)
  <2>1. i \in DOMAIN l /\ Near(l, i0, i)
    BY <1>2, <1>3
  <2>2. Near(l, i, i0)
    BY <2>1, NearIs
  <2>3. Near(l, i0, j) => Near(l, i, j)
    BY <2>1, <2>2, NearIs
  <2>4. Near(l, i, j) => Near(l, i0, j)
    BY <2>1, <2>2, NearIs
  <2> QED  BY <1>2, <2>3, <2>4
<1>5. g \subseteq Nat
  BY <1>3
<1>6. Min(g) \in g /\ (\A i \in g : Min(g) <= i)
  BY <1>3, <1>5, MinIs
<1> QED  BY <1>3, <1>4, <1>5, <1>6

(* Every background item is in a group, and in no other.                    *)
LEMMA GroupsApart ==
    ASSUME NEW l \in Seq(LogItems)
    PROVE  /\ \A i \in DOMAIN l : l[i].kind \in Background => GroupOf(l, i) \in Groups(l) /\ i \in GroupOf(l, i)
           /\ \A g, h \in Groups(l) : (\E i \in g : i \in h) => g = h
<1>1. ASSUME NEW g \in Groups(l), NEW h \in Groups(l), NEW i \in g, i \in h PROVE g = h
  <2>1. g \subseteq DOMAIN l /\ h \subseteq DOMAIN l
    BY GroupsAre
  <2>2. \A j \in DOMAIN l : j \in g <=> l[j].kind \in Background /\ Near(l, i, j)
    BY GroupsAre
  <2>3. \A j \in DOMAIN l : j \in h <=> l[j].kind \in Background /\ Near(l, i, j)
    BY <1>1, GroupsAre
  <2> QED  BY <2>1, <2>2, <2>3
<1>2. ASSUME NEW i \in DOMAIN l, l[i].kind \in Background PROVE GroupOf(l, i) \in Groups(l) /\ i \in GroupOf(l, i)
  BY <1>2, GroupIs DEF Groups
<1> QED  BY <1>1, <1>2


(* The groups with work of a turn, and the one a group without work joins.  *)
Works(l, h) == {g \in Groups(l) : IsWork(l, g) /\ Turn(l, Min(g), Min(h))}
Joins(l, h, g) ==
    /\ g \in Works(l, h)
    /\ \/ Min(h) < Min(g) /\ \A w \in Works(l, h) : Min(h) < Min(w) => Min(g) <= Min(w)
       \/ \A w \in Works(l, h) : ~(Min(h) < Min(w)) /\ Min(w) <= Min(g)

(* Groups with the same first item are the same.                            *)
LEMMA GroupsByMin ==
    ASSUME NEW l \in Seq(LogItems), NEW g \in Groups(l), NEW h \in Groups(l), Min(g) = Min(h)
    PROVE  g = h
<1>1. Min(g) \in g /\ Min(h) \in h
  BY GroupsAre
<1> QED  BY <1>1, GroupsApart

(* JoinedTo finds that group.                                               *)
LEMMA JoinedIs ==
    ASSUME NEW l \in Seq(LogItems), NEW h \in Groups(l), NEW g \in Groups(l)
    PROVE  JoinedTo(l, h) = g <=> Joins(l, h, g)
<1> DEFINE W == Works(l, h)
           L == {w \in W : Min(w) > Min(h)}
           Near1(x) == \A y \in L : Min(x) <= Min(y)
           Last1(x) == \A y \in W : Min(x) >= Min(y)
<1>1. \A w \in W : w \in Groups(l) /\ Min(w) \in Nat /\ Min(w) \in DOMAIN l /\ w # {}
  BY GroupsAre DEF Works
<1>2. Min(h) \in Nat /\ Min(h) \in DOMAIN l /\ Min(g) \in Nat
  BY GroupsAre
<1>3. W = {x \in Groups(l) : IsWork(l, x) /\ SameTurn(l, Min(x), Min(h))}
  <2>1. \A x \in Groups(l) : Min(x) \in DOMAIN l
    BY GroupsAre
  <2> QED  BY <1>2, <2>1, TurnIs DEF Works
<1>4. JoinedTo(l, h) = IF W = {} THEN {} ELSE IF L # {} THEN CHOOSE x \in L : Near1(x) ELSE CHOOSE x \in W : Last1(x)
  BY <1>3 DEF JoinedTo
<1> HIDE DEF W
<1>5. CASE W = {}
  <2>1. JoinedTo(l, h) = {} /\ g # {}
    BY <1>4, <1>5, GroupsAre
  <2> QED  BY <1>5, <2>1 DEF Joins, W
<1>6. CASE L # {}
  <2>1. \E x \in L : Near1(x)
    <3> DEFINE N == {Min(w) : w \in L}
    <3>1. N \subseteq Nat /\ N # {}
      BY <1>1, <1>6
    <3>2. PICK n \in N : \A m \in N : n <= m
      BY <3>1, Least
    <3> QED  BY <3>2
  <2> DEFINE j == CHOOSE x \in L : Near1(x)
  <2>2. j \in L /\ Near1(j) /\ JoinedTo(l, h) = j
    BY <1>4, <1>6, <2>1
  <2> HIDE DEF j
  <2>3. j \in W /\ Min(j) > Min(h) /\ \A w \in W : Min(h) < Min(w) => Min(j) <= Min(w)
    BY <1>1, <1>2, <2>2
  <2>4. Joins(l, h, j)
    BY <1>1, <1>2, <2>3 DEF Joins, W
  <2>5. ASSUME Joins(l, h, g) PROVE g = j
    <3>1. g \in W
      BY <2>5 DEF Joins, W
    <3>2. Min(h) < Min(g) /\ \A w \in W : Min(h) < Min(w) => Min(g) <= Min(w)
      BY <1>1, <1>2, <2>3, <2>5 DEF Joins, W
    <3>3. Min(g) = Min(j)
      BY <1>1, <1>2, <2>3, <3>1, <3>2
    <3> QED  BY <1>1, <2>3, <3>3, GroupsByMin
  <2> QED  BY <2>2, <2>4, <2>5
<1>7. CASE W # {} /\ L = {}
  <2>1. \E x \in W : Last1(x)
    <3> DEFINE N == {Min(w) : w \in W}
    <3>1. N \subseteq Nat /\ N # {} /\ Len(l) \in Nat /\ \A n \in N : n <= Len(l)
      BY <1>1, <1>7
    <3>2. Max(N) \in N /\ \A m \in N : Max(N) >= m
      <4> HIDE DEF N
      <4> QED  BY <3>1, MaxIs
    <3> QED  BY <3>2
  <2> DEFINE j == CHOOSE x \in W : Last1(x)
  <2>2. j \in W /\ Last1(j) /\ JoinedTo(l, h) = j
    BY <1>4, <1>7, <2>1
  <2> HIDE DEF j
  <2>3. \A w \in W : ~(Min(h) < Min(w)) /\ Min(w) <= Min(j)
    BY <1>1, <1>2, <1>7, <2>2
  <2>4. Joins(l, h, j)
    BY <2>2, <2>3 DEF Joins, W
  <2>5. ASSUME Joins(l, h, g) PROVE g = j
    <3>1. g \in W /\ \A w \in W : Min(w) <= Min(g)
      BY <2>3, <2>5 DEF Joins, W
    <3>2. Min(g) = Min(j)
      BY <1>1, <1>2, <2>2, <2>3, <3>1
    <3> QED  BY <1>1, <2>2, <3>2, GroupsByMin
  <2> QED  BY <2>2, <2>4, <2>5
<1> QED  BY <1>5, <1>6, <1>7

(* The groups whose items are those of an activity.                         *)
PartOf(l, h, g) == h \in Groups(l) /\ (h = g \/ (~IsWork(l, h) /\ Joins(l, h, g)))

(* The first item of an activity is a background item: markers come after   *)
(* the group they belong to.                                                *)
LEMMA MembersBy ==
    ASSUME NEW l \in Seq(LogItems), NEW g \in Groups(l)
    PROVE  /\ \A h : PartOf(l, h, g) => h \subseteq MembersOf(l, g)
           /\ \A i \in MembersOf(l, g) : \E h : /\ PartOf(l, h, g)
                                                /\ i \in h \/ (l[i].kind = "marker" /\ \E j \in h : j < i)
<1>1. MembersOf(l, g) = UNION {WithMarkers(l, h) : h \in {h \in Groups(l) : PartOf(l, h, g)}}
  <2>1. \A h \in Groups(l) : JoinedTo(l, h) = g <=> Joins(l, h, g)
    BY JoinedIs
  <2>2. \A h \in Groups(l) : PartOf(l, h, g) <=> h = g \/ (~IsWork(l, h) /\ JoinedTo(l, h) = g)
    BY <2>1 DEF PartOf
  <2> QED  BY <2>2 DEF MembersOf
<1>2. \A h \in Groups(l) : h \subseteq WithMarkers(l, h)
  BY DEF WithMarkers
<1>3. ASSUME NEW h \in Groups(l), NEW i \in WithMarkers(l, h)
      PROVE  i \in h \/ (l[i].kind = "marker" /\ \E j \in h : j < i)
  <2> SUFFICES ASSUME i \notin h PROVE l[i].kind = "marker" /\ \E j \in h : j < i
    OBVIOUS
  <2> DEFINE E == {j \in 1..(i - 1) : l[j].kind \in Background /\ SameTurn(l, j, i)}
  <2>1. i \in DOMAIN l /\ l[i].kind = "marker" /\ E # {} /\ Max(E) \in h
    BY DEF WithMarkers
  <2>2. i \in Nat /\ E \subseteq Nat /\ \A j \in E : j <= i /\ j < i
    BY <2>1
  <2>3. Max(E) \in E
    <3> HIDE DEF E
    <3> QED  BY <2>1, <2>2, MaxIs
  <2> QED  BY <2>1, <2>2, <2>3
<1> QED  BY <1>1, <1>2, <1>3 DEF PartOf

(* The first item of an activity.                                           *)
LEMMA LeadIs ==
    ASSUME NEW l \in Seq(LogItems), NEW g \in Groups(l), NEW m, m = Min(MembersOf(l, g))
    PROVE  /\ m \in Nat /\ m \in DOMAIN l /\ l[m].kind \in Background
           /\ \E h : PartOf(l, h, g) /\ m \in h /\ m = Min(h)
           /\ \A h : PartOf(l, h, g) => m <= Min(h)
<1>1. m \in MembersOf(l, g) /\ m \in DOMAIN l /\ m \in Nat /\ \A i \in MembersOf(l, g) : m <= i
  BY MembersAre
<1>2. PICK h : PartOf(l, h, g) /\ (m \in h \/ (l[m].kind = "marker" /\ \E j \in h : j < m))
  BY <1>1, MembersBy
<1>3. h \subseteq MembersOf(l, g)
  BY <1>2, MembersBy
<1>4. h \subseteq DOMAIN l /\ Min(h) \in h /\ Min(h) \in Nat /\ (\A i \in h : Min(h) <= i) /\ \A i \in h : l[i].kind \in Background
  BY <1>2, GroupsAre DEF PartOf
<1>5. m \in h
  <2>1. \A j \in h : m <= j /\ j \in Nat
    BY <1>1, <1>3, <1>4
  <2>2. ~\E j \in h : j < m
    BY <1>1, <2>1
  <2> QED  BY <1>2, <2>2
<1>6. m = Min(h)
  BY <1>1, <1>3, <1>4, <1>5
<1>7. ASSUME NEW x, PartOf(l, x, g) PROVE m <= Min(x)
  <2>1. x \subseteq MembersOf(l, g) /\ Min(x) \in x
    BY <1>7, MembersBy, GroupsAre DEF PartOf
  <2> QED  BY <1>1, <2>1
<1> QED  BY <1>1, <1>2, <1>4, <1>5, <1>6, <1>7


-----------------------------------------------------------------------------
(* Blocks that grow.                                                        *)

(* More items follow, the last one may have grown.                          *)
Extends(l, m) ==
    /\ Len(l) <= Len(m)
    /\ \A i \in DOMAIN l : i \in DOMAIN m /\ m[i].key = l[i].key /\ m[i].kind = l[i].kind

(* What lies near to what is not changed by what follows.                   *)
LEMMA NearStays ==
    ASSUME NEW l \in Seq(LogItems), NEW m \in Seq(LogItems), Extends(l, m)
    PROVE  /\ \A i, j \in DOMAIN l : (Turn(l, i, j) <=> Turn(m, i, j)) /\ (Near(l, i, j) <=> Near(m, i, j))
           /\ \A j \in DOMAIN m : j \notin DOMAIN l => \A i \in DOMAIN l : i < j
           /\ \A j \in DOMAIN m : \A i \in DOMAIN l : j <= i => j \in DOMAIN l
<1>1. /\ DOMAIN l = 1..Len(l) /\ DOMAIN m = 1..Len(m) /\ Len(l) \in Nat /\ Len(m) \in Nat /\ Len(l) <= Len(m)
      /\ \A i \in DOMAIN l : i \in DOMAIN m /\ m[i].kind = l[i].kind
  BY DEF Extends
<1>2. ASSUME NEW i \in DOMAIN l, NEW j \in DOMAIN l
      PROVE  /\ \A k \in DOMAIN m : (i <= k /\ k <= j) \/ (j <= k /\ k <= i) => k \in DOMAIN l
             /\ \A k \in DOMAIN m : (i < k /\ k <= j) \/ (j < k /\ k <= i) => k \in DOMAIN l
             /\ \A k \in DOMAIN m : (i <= k /\ k < j) \/ (j <= k /\ k < i) => k \in DOMAIN l
  BY <1>1
<1>3. ASSUME NEW i \in DOMAIN l, NEW j \in DOMAIN l
      PROVE  (Turn(l, i, j) <=> Turn(m, i, j)) /\ (NoText(l, i, j) <=> NoText(m, i, j))
  <2>1. Turn(l, i, j) => Turn(m, i, j)
    BY <1>1, <1>2 DEF Turn
  <2>2. Turn(m, i, j) => Turn(l, i, j)
    BY <1>1 DEF Turn
  <2>3. NoText(l, i, j) => NoText(m, i, j)
    BY <1>1, <1>2 DEF NoText
  <2>4. NoText(m, i, j) => NoText(l, i, j)
    BY <1>1 DEF NoText
  <2> QED  BY <2>1, <2>2, <2>3, <2>4
<1>4. \A j \in DOMAIN m : j \notin DOMAIN l => \A i \in DOMAIN l : i < j
  BY <1>1
<1>5. \A j \in DOMAIN m : \A i \in DOMAIN l : j <= i => j \in DOMAIN l
  BY <1>1
<1> QED  BY <1>3, <1>4, <1>5 DEF Near

(* A group grows at its end: h is what i's group was and w what it is.      *)
Grows(l, m, h, w) ==
    /\ h \in Groups(l) /\ w \in Groups(m) /\ h \subseteq w /\ Min(w) = Min(h)
    /\ \A j \in w : j \in DOMAIN l => j \in h
    /\ IsWork(l, h) => IsWork(m, w)

(* Each group goes on in the longer block, *)
LEMMA GroupGoesOn ==
    ASSUME NEW l \in Seq(LogItems), NEW m \in Seq(LogItems), Extends(l, m), NEW h \in Groups(l)
    PROVE  \E w : Grows(l, m, h, w)
<1> DEFINE a == Min(h)
           w == GroupOf(m, a)
<1>1. /\ a \in h /\ a \in Nat /\ h \subseteq DOMAIN l /\ (\A i \in h : a <= i) /\ l[a].kind \in Background
      /\ \A j \in DOMAIN l : j \in h <=> l[j].kind \in Background /\ Near(l, a, j)
  BY GroupsAre
<1>2. \A i \in DOMAIN l : i \in DOMAIN m /\ m[i].kind = l[i].kind
  BY DEF Extends
<1>3. w \in Groups(m) /\ a \in w
  BY <1>1, <1>2, GroupsApart
<1>4. /\ w \subseteq DOMAIN m /\ Min(w) \in w /\ Min(w) \in Nat /\ (\A i \in w : Min(w) <= i)
      /\ \A j \in DOMAIN m : j \in w <=> m[j].kind \in Background /\ Near(m, a, j)
  BY <1>3, GroupsAre
<1>5. \A j \in DOMAIN l : j \in w <=> j \in h
  BY <1>1, <1>2, <1>4, NearStays
<1>6. Min(w) = a
  <2>1. Min(w) <= a /\ Min(w) \in DOMAIN m
    BY <1>3, <1>4
  <2>2. Min(w) \in DOMAIN l
    BY <1>1, <2>1, NearStays
  <2>3. a <= Min(w)
    BY <1>1, <1>4, <1>5, <2>2
  <2> QED  BY <1>1, <1>4, <2>1, <2>3
<1>7. IsWork(l, h) => IsWork(m, w)
  BY <1>1, <1>2, <1>5 DEF IsWork
<1> QED  BY <1>1, <1>3, <1>5, <1>6, <1>7 DEF Grows

(* and a group of the longer block that begins in the shorter one was one.  *)
LEMMA GroupWas ==
    ASSUME NEW l \in Seq(LogItems), NEW m \in Seq(LogItems), Extends(l, m), NEW w \in Groups(m), Min(w) \in DOMAIN l
    PROVE  \E h : Grows(l, m, h, w)
<1> DEFINE a == Min(w)
           h == GroupOf(l, a)
<1>1. a \in w /\ w \subseteq DOMAIN m /\ m[a].kind \in Background
  BY GroupsAre
<1>2. l[a].kind \in Background
  BY <1>1 DEF Extends
<1>3. h \in Groups(l) /\ a \in h
  BY <1>2, GroupsApart
<1>4. PICK v : Grows(l, m, h, v)
  BY <1>3, GroupGoesOn
<1>5. v = w
  BY <1>1, <1>3, <1>4, GroupsApart DEF Grows
<1> QED  BY <1>4, <1>5

(* A group with a group of the same block behind it has got no more items.  *)
LEMMA GroupClosed ==
    ASSUME NEW l \in Seq(LogItems), NEW m \in Seq(LogItems), Extends(l, m), NEW h, NEW w, Grows(l, m, h, w),
           NEW g \in Groups(l), Min(h) < Min(g)
    PROVE  w = h
<1>1. /\ h \in Groups(l) /\ w \in Groups(m) /\ h \subseteq w /\ Min(w) = Min(h)
      /\ \A j \in w : j \in DOMAIN l => j \in h
  BY DEF Grows
<1>2. /\ Min(h) \in h /\ h \subseteq DOMAIN l /\ Min(g) \in g /\ g \subseteq DOMAIN l /\ Min(h) \in Nat /\ Min(g) \in Nat
      /\ (\A i \in h : Min(h) <= i) /\ (\A i \in g : Min(g) <= i) /\ l[Min(g)].kind \in Background /\ w \subseteq DOMAIN m
  BY <1>1, GroupsAre
<1>3. \A i \in DOMAIN l : i \in DOMAIN m
  BY DEF Extends
<1>4. ASSUME NEW j \in w, j \notin DOMAIN l PROVE FALSE
  <2>1. Min(g) < j
    BY <1>2, <1>4, NearStays
  <2>2. Near(m, Min(h), j)
    BY <1>1, <1>2, GroupsAre
  <2>3. Min(h) \in DOMAIN m /\ Min(g) \in DOMAIN m /\ j \in DOMAIN m /\ j \in Nat
    BY <1>2, <1>3
  <2>4. Near(m, Min(h), Min(g))
    <3>1. PICK x \in DOMAIN m, y \in DOMAIN m : x = Min(h) /\ y = Min(g)
      BY <2>3
    <3>2. Near(m, x, j) /\ x <= y /\ y <= j
      BY <1>2, <2>1, <2>2, <2>3, <3>1
    <3> QED  BY <2>3, <3>1, <3>2, NearIs
  <2>5. Near(l, Min(h), Min(g))
    BY <1>2, <2>4, NearStays
  <2>6. Min(g) \in h
    BY <1>1, <1>2, <2>5, GroupsAre
  <2>7. g = h
    BY <1>1, <1>2, <2>6, GroupsApart
  <2> QED  BY <1>2, <2>7
<1> QED  BY <1>1, <1>4


(* An activity keeps its first item.                                        *)
LEMMA LeadStays ==
    ASSUME NEW l \in Seq(LogItems), NEW m \in Seq(LogItems), Extends(l, m), NEW g, NEW v, Grows(l, m, g, v),
           IsWork(l, g)
    PROVE  Min(MembersOf(m, v)) = Min(MembersOf(l, g))
<1>1. PICK a, b : a = Min(MembersOf(l, g)) /\ b = Min(MembersOf(m, v))
  OBVIOUS
<1>2. /\ g \in Groups(l) /\ v \in Groups(m) /\ g \subseteq v /\ Min(v) = Min(g) /\ IsWork(m, v)
      /\ Min(g) \in Nat /\ Min(g) \in DOMAIN l
  BY GroupsAre DEF Grows
<1>3. /\ a \in Nat /\ a \in DOMAIN l /\ (\E h : PartOf(l, h, g) /\ a = Min(h))
      /\ \A h : PartOf(l, h, g) => a <= Min(h)
  BY <1>1, <1>2, LeadIs
<1>4. /\ b \in Nat /\ b \in DOMAIN m /\ (\E h : PartOf(m, h, v) /\ b = Min(h))
      /\ \A h : PartOf(m, h, v) => b <= Min(h)
  BY <1>1, <1>2, LeadIs
<1>5. a <= Min(g) /\ b <= Min(g)
  BY <1>2, <1>3, <1>4 DEF PartOf
<1>6. ASSUME NEW h, NEW w, Grows(l, m, h, w) 
      PROVE  /\ h \in Groups(l) /\ w \in Groups(m) /\ Min(w) = Min(h) /\ Min(h) \in Nat /\ Min(h) \in DOMAIN l
             /\ (IsWork(l, h) => IsWork(m, w)) /\ Min(h) \in DOMAIN m
  <2>1. /\ h \in Groups(l) /\ w \in Groups(m) /\ Min(w) = Min(h) /\ (IsWork(l, h) => IsWork(m, w))
    BY <1>6 DEF Grows
  <2>2. Min(h) \in h /\ h \subseteq DOMAIN l /\ Min(h) \in Nat
    BY <2>1, GroupsAre
  <2> QED  BY <2>1, <2>2 DEF Extends
<1>7. ASSUME NEW h \in Groups(l), NEW k \in Groups(l), NEW w, NEW x, Grows(l, m, h, w), Grows(l, m, k, x)
      PROVE  Turn(m, Min(x), Min(w)) <=> Turn(l, Min(k), Min(h))
  BY <1>6, <1>7, NearStays
<1>8. a <= b
  <2>1. PICK w : PartOf(m, w, v) /\ b = Min(w)
    BY <1>4
  <2>2. CASE w = v
    BY <1>2, <1>5, <2>1, <2>2
  <2>3. CASE w # v
    <3>1. w \in Groups(m) /\ ~IsWork(m, w) /\ Joins(m, w, v)
      BY <2>1, <2>3 DEF PartOf
    <3>2. b \in DOMAIN l
      BY <1>2, <1>4, <1>5, NearStays
    <3>3. PICK h : Grows(l, m, h, w)
      BY <2>1, <3>1, <3>2, GroupWas
    <3>4. h \in Groups(l) /\ Min(h) = b /\ ~IsWork(l, h)
      BY <1>6, <2>1, <3>1, <3>3
    <3>5. Min(h) # Min(g)
      <4>1. w = v <=> Min(w) = Min(v)
        BY <1>2, <3>1, GroupsByMin
      <4> QED  BY <1>2, <2>1, <2>3, <3>4, <4>1
    <3>6. Min(h) < Min(g)
      BY <1>2, <1>4, <1>5, <3>4, <3>5
    <3>7. v \in Works(m, w) /\ \A x \in Works(m, w) : Min(w) < Min(x) => Min(v) <= Min(x)
      BY <1>2, <1>6, <3>1, <3>3, <3>4, <3>6 DEF Joins
    <3>8. g \in Works(l, h)
      BY <1>2, <1>7, <3>3, <3>4, <3>7 DEF Works
    <3>9. ASSUME NEW k \in Works(l, h), Min(h) < Min(k) PROVE Min(g) <= Min(k)
      <4>1. k \in Groups(l) /\ IsWork(l, k) /\ Turn(l, Min(k), Min(h))
        BY DEF Works
      <4>2. PICK x : Grows(l, m, k, x)
        BY <4>1, GroupGoesOn
      <4>3. x \in Works(m, w) /\ Min(x) = Min(k)
        BY <1>6, <1>7, <3>3, <3>4, <4>1, <4>2 DEF Works
      <4> QED  BY <1>2, <2>1, <3>4, <3>7, <3>9, <4>3
    <3>10. PartOf(l, h, g)
      BY <3>4, <3>6, <3>8, <3>9 DEF PartOf, Joins
    <3> QED  BY <1>3, <3>4, <3>10
  <2> QED  BY <2>2, <2>3
<1>9. b <= a
  <2>1. PICK h : PartOf(l, h, g) /\ a = Min(h)
    BY <1>3
  <2>2. CASE h = g
    BY <1>5, <2>1, <2>2
  <2>3. CASE ~(Min(h) < Min(g))
    BY <1>2, <1>3, <1>4, <1>5, <2>1, <2>3
  <2>4. CASE h # g /\ Min(h) < Min(g)
    <3>1. h \in Groups(l) /\ ~IsWork(l, h) /\ Joins(l, h, g)
      BY <2>1, <2>4 DEF PartOf
    <3>2. PICK w : Grows(l, m, h, w)
      BY <3>1, GroupGoesOn
    <3>3. w = h /\ w \in Groups(m) /\ Min(w) = a
      BY <1>2, <1>6, <2>1, <2>4, <3>2, GroupClosed
    <3>4. ~IsWork(m, w)
      <4>1. h \subseteq DOMAIN l
        BY <3>1, GroupsAre
      <4> QED  BY <3>1, <3>3, <4>1 DEF IsWork, Extends
    <3>5. g \in Works(l, h) /\ \A k \in Works(l, h) : Min(h) < Min(k) => Min(g) <= Min(k)
      BY <1>2, <2>4, <3>1 DEF Joins
    <3>6. v \in Works(m, w)
      BY <1>2, <1>7, <3>1, <3>2, <3>5 DEF Works
    <3>7. ASSUME NEW x \in Works(m, w), Min(w) < Min(x), Min(x) < Min(v) PROVE FALSE
      <4>1. x \in Groups(m) /\ IsWork(m, x) /\ Turn(m, Min(x), Min(w)) /\ Min(x) \in DOMAIN m
        BY GroupsAre DEF Works
      <4>2. Min(x) \in DOMAIN l
        <5>1. Min(x) <= Min(g)
          BY <1>2, <3>7, <4>1
        <5> QED  BY <1>2, <4>1, <5>1, NearStays
      <4>3. PICK k : Grows(l, m, k, x)
        BY <4>1, <4>2, GroupWas
      <4>4. k \in Groups(l) /\ Min(k) = Min(x) /\ Min(k) < Min(g)
        BY <1>2, <1>6, <3>7, <4>3
      <4>5. x = k
        BY <1>2, <4>3, <4>4, GroupClosed
      <4>6. IsWork(l, k)
        <5>1. k \subseteq DOMAIN l
          BY <4>4, GroupsAre
        <5> QED  BY <4>1, <4>5, <5>1 DEF IsWork, Extends
      <4>7. k \in Works(l, h)
        BY <1>7, <3>1, <3>2, <4>1, <4>3, <4>4, <4>6 DEF Works
      <4>8. Min(g) <= Min(k)
        BY <2>1, <3>3, <3>5, <3>7, <4>4, <4>7
      <4> QED  BY <1>2, <1>6, <4>3, <4>4, <4>8
    <3>8. \A x \in Works(m, w) : Min(w) < Min(x) => Min(v) <= Min(x)
      <4>1. \A x \in Works(m, w) : Min(x) \in Nat
        BY GroupsAre DEF Works
      <4> QED  BY <1>2, <3>7, <4>1
    <3>9. PartOf(m, w, v)
      BY <1>2, <2>1, <2>4, <3>3, <3>4, <3>6, <3>8 DEF PartOf, Joins
    <3> QED  BY <1>4, <3>3, <3>9
  <2> QED  BY <2>2, <2>3, <2>4
<1> QED  BY <1>1, <1>3, <1>4, <1>8, <1>9

(* The call a result belongs to lies before it.                             *)
LEMMA CallStays ==
    ASSUME NEW l \in Seq(LogItems), NEW m \in Seq(LogItems), Extends(l, m), NEW i \in DOMAIN l
    PROVE  CallOf(m, i) = CallOf(l, i)
<1>1. DOMAIN l = 1..Len(l) /\ Len(l) \in Nat /\ i \in Nat /\ i <= Len(l)
  OBVIOUS
<1>2. \A j \in 1..i : m[j].kind = l[j].kind
  BY <1>1 DEF Extends
<1>3. \A j \in 1..(i - 1) : /\ m[j].kind = l[j].kind
                            /\ (\A k \in j..i : m[k].kind \notin Terminal) <=> (\A k \in j..i : l[k].kind \notin Terminal)
  <2> TAKE j \in 1..(i - 1)
  <2>1. j..i \subseteq 1..i /\ j \in 1..i
    BY <1>1
  <2> QED  BY <1>2, <2>1
<1> DEFINE C(x) == {j \in 1..(i - 1) : x[j].kind = "tool" /\ \A k \in j..i : x[k].kind \notin Terminal}
<1>4. C(m) = C(l)
  BY <1>3
<1> HIDE DEF C
<1>5. CallOf(m, i) = IF C(m) = {} THEN i ELSE Max(C(m))
  BY DEF CallOf, C
<1>6. CallOf(l, i) = IF C(l) = {} THEN i ELSE Max(C(l))
  BY DEF CallOf, C
<1> QED  BY <1>4, <1>5, <1>6

(* An operation of an activity is in the group with the work.               *)
LEMMA OperationIn ==
    ASSUME NEW l \in Seq(LogItems), NEW g \in Groups(l), NEW i \in OwnOperations(l, MembersOf(l, g))
    PROVE  i \in g /\ i \in DOMAIN l /\ l[i].kind \in {"tool", "progress", "done"}
<1>1. i \in MembersOf(l, g) /\ l[i].kind \in {"tool", "progress", "done"}
  BY DEF OwnOperations
<1>2. PICK h : PartOf(l, h, g) /\ i \in h
  BY <1>1, MembersBy
<1>3. IsWork(l, h)
  BY <1>1, <1>2 DEF IsWork
<1> QED  BY <1>1, <1>2, <1>3, GroupsAre DEF PartOf


(* The keys of the rows of a block.                                         *)
Own(l) == {j \in DOMAIN l : l[j].kind \in Separate \union {"text", "answer"}}
Failed(l) == {j \in DOMAIN l : l[j].kind \in Errors}
Active(l) == {g \in Groups(l) : IsWork(l, g) /\ OwnOperations(l, MembersOf(l, g)) # {}}
FirstError(l, i) == i \in Failed(l) /\ \A j \in Failed(l) : i <= j
Shows(l, k) ==
    \/ \E i \in Own(l) : l[i].key = k
    \/ \E g \in Active(l) : l[Min(MembersOf(l, g))].key = k
    \/ \E i \in DOMAIN l : FirstError(l, i) /\ l[i].key = k

(* They are those of the projection, running or not.                        *)
LEMMA ShowsIs ==
    ASSUME NEW l \in Seq(LogItems), NEW live \in BOOLEAN, NEW k
    PROVE  RowsAt(l, live, k) # {} <=> Shows(l, k)
<1>1. \A type, key, items, ops, lv : Row(type, key, items, ops, lv).key = key
  BY DEF Row
<1>2. (\E r \in Messages(l) : r.key = k) <=> \E i \in Own(l) : l[i].key = k
  <2> DEFINE R(i) == Row("message", l[i].key, {l[i]}, {}, FALSE)
  <2>1. Messages(l) = {R(i) : i \in Own(l)}
    BY DEF Messages, Own
  <2>2. \A i : R(i).key = l[i].key
    BY DEF Row
  <2> HIDE DEF R
  <2> QED  BY <2>1, <2>2
<1>3. (\E r \in Activities(l, live) : r.key = k) <=> \E g \in Active(l) : l[Min(MembersOf(l, g))].key = k
  <2>1. \A g : ActivityRow(l, g, live).key = l[Min(MembersOf(l, g))].key
    BY <1>1 DEF ActivityRow
  <2>2. Activities(l, live) = {ActivityRow(l, g, live) : g \in Active(l)}
    BY DEF Activities, Active
  <2> QED  BY <2>1, <2>2
<1>4. (\E r \in Failures(l, live) : r.key = k) <=> \E i \in DOMAIN l : FirstError(l, i) /\ l[i].key = k
  <2> DEFINE E == Failed(l)
  <2>1. CASE E = {}
    <3>1. Failures(l, live) = {}
      BY <2>1 DEF Failures, Failed
    <3> QED  BY <2>1, <3>1 DEF FirstError
  <2>2. CASE E # {}
    <3>1. \A r : r \in Failures(l, live) => r.key = l[Min(E)].key
      BY <1>1, <2>2 DEF Failures, Failed
    <3>2. Failures(l, live) # {}
      BY <2>2 DEF Failures, Failed
    <3>3. E \subseteq DOMAIN l /\ E \subseteq Nat
      BY DEF Failed
    <3>4. Min(E) \in E /\ \A j \in E : Min(E) <= j
      BY <2>2, <3>3, MinIs
    <3>5. \A i : FirstError(l, i) <=> i = Min(E)
      BY <3>3, <3>4 DEF FirstError
    <3> QED  BY <3>1, <3>2, <3>3, <3>4, <3>5
  <2> QED  BY <2>1, <2>2
<1>5. RowsAt(l, live, k) # {} <=> \/ \E r \in Messages(l) : r.key = k
                                  \/ \E r \in Activities(l, live) : r.key = k
                                  \/ \E r \in Failures(l, live) : r.key = k
  BY DEF RowsAt, ProjectConversation
<1> QED  BY <1>2, <1>3, <1>4, <1>5 DEF Shows

(* A row that is shown stays where it is while its block grows.             *)
LEMMA ShowsStay ==
    ASSUME NEW l \in Seq(LogItems), NEW m \in Seq(LogItems), Extends(l, m), NEW k, Shows(l, k)
    PROVE  Shows(m, k)
<1>1. \A i \in DOMAIN l : i \in DOMAIN m /\ m[i].kind = l[i].kind /\ m[i].key = l[i].key
  BY DEF Extends
<1>2. ASSUME NEW i \in Own(l), l[i].key = k PROVE Shows(m, k)
  BY <1>1, <1>2 DEF Shows, Own
<1>3. ASSUME NEW i \in DOMAIN l, FirstError(l, i), l[i].key = k PROVE Shows(m, k)
  <2>1. i \in Failed(l) /\ i \in Failed(m) /\ m[i].key = k
    BY <1>1, <1>3 DEF FirstError, Failed
  <2>2. ASSUME NEW j \in Failed(m) PROVE i <= j
    <3>1. CASE j \in DOMAIN l
      BY <1>1, <1>3, <3>1 DEF FirstError, Failed
    <3>2. CASE j \notin DOMAIN l
      <4>1. i < j /\ i \in Nat /\ j \in Nat
        BY <3>2, NearStays DEF Failed
      <4> QED  BY <4>1
    <3> QED  BY <3>1, <3>2
  <2>3. FirstError(m, i)
    BY <2>1, <2>2 DEF FirstError
  <2> QED  BY <1>1, <2>1, <2>3 DEF Shows
<1>4. ASSUME NEW g \in Active(l), l[Min(MembersOf(l, g))].key = k PROVE Shows(m, k)
  <2>1. g \in Groups(l) /\ IsWork(l, g) /\ OwnOperations(l, MembersOf(l, g)) # {}
    BY <1>4 DEF Active
  <2>2. PICK v : Grows(l, m, g, v)
    BY <2>1, GroupGoesOn
  <2>3. v \in Groups(m) /\ g \subseteq v /\ IsWork(m, v)
    BY <2>1, <2>2 DEF Grows
  <2>4. Min(MembersOf(m, v)) = Min(MembersOf(l, g)) /\ Min(MembersOf(l, g)) \in DOMAIN l
    BY <2>1, <2>2, LeadStays, MembersAre
  <2>5. PICK i : i \in OwnOperations(l, MembersOf(l, g))
    BY <2>1
  <2>6. i \in g /\ i \in DOMAIN l
    BY <2>1, <2>5, OperationIn
  <2>7. i \in MembersOf(m, v)
    BY <2>3, <2>6, MembersAre
  <2>8. i \in OwnOperations(m, MembersOf(m, v))
    BY <1>1, <2>5, <2>6, <2>7, CallStays DEF OwnOperations
  <2>9. v \in Active(m) /\ m[Min(MembersOf(m, v))].key = k
    BY <1>1, <1>4, <2>3, <2>4, <2>8 DEF Active
  <2> QED  BY <2>9 DEF Shows
<1> QED  BY <1>2, <1>3, <1>4 DEF Shows

(* The next event extends the block.                                        *)
LEMMA AppendExtends ==
    ASSUME NEW l \in Seq(LogItems), NEW kind \in AllKinds, NEW c \in Nat
    PROVE  Extends(l, AppendHistoryEvent(l, kind, c))
<1> DEFINE n == Len(l)
<1>0. n \in Nat /\ DOMAIN l = 1..n
  OBVIOUS
<1>1. CASE kind \in Prose /\ l # <<>> /\ Last(l).kind = kind
  <2>1. PICK m : m = [l EXCEPT ![n].end = c]
    OBVIOUS
  <2>2. AppendHistoryEvent(l, kind, c) = m
    BY <1>1, <2>1 DEF AppendHistoryEvent
  <2>3. DOMAIN m = DOMAIN l /\ m \in Seq(LogItems)
    <3>1. n \in DOMAIN l
      BY <1>0, <1>1
    <3>2. [l[n] EXCEPT !.end = c] \in LogItems
      BY <3>1, ItemFields DEF LogItems
    <3> QED  BY <2>1, <3>1, <3>2
  <2>4. Len(m) = n
    BY <1>0, <2>3
  <2>5. \A i \in DOMAIN l : m[i].key = l[i].key /\ m[i].kind = l[i].kind
    <3> TAKE i \in DOMAIN l
    <3>1. l[i] \in LogItems
      BY ItemFields
    <3>2. m[i] = IF i = n THEN [l[i] EXCEPT !.end = c] ELSE l[i]
      BY <2>1
    <3> QED  BY <3>1, <3>2 DEF LogItems
  <2> QED  BY <1>0, <2>2, <2>3, <2>4, <2>5 DEF Extends
<1>2. CASE ~(kind \in Prose /\ l # <<>> /\ Last(l).kind = kind)
  <2>1. PICK e : e = [key |-> c, end |-> c, kind |-> kind]
    OBVIOUS
  <2>2. AppendHistoryEvent(l, kind, c) = Append(l, e)
    BY <1>2, <2>1 DEF AppendHistoryEvent
  <2>3. Len(Append(l, e)) = n + 1 /\ DOMAIN Append(l, e) = 1..(n + 1) /\ \A i \in 1..n : Append(l, e)[i] = l[i]
    OBVIOUS
  <2> QED  BY <1>0, <2>2, <2>3 DEF Extends
<1> QED  BY <1>1, <1>2


(* The rows of a conversation whose open block has the given items: no row  *)
(* is of a later block, a row without a body was never written, and every   *)
(* row of the open block is one of those that its items show.               *)
RowOk(row, k, start, l) ==
    /\ row.block <= start
    /\ row.body = None => row.revision = 0
    /\ row.body # None => k <= row.body.end /\ (row.block = start => Shows(l, k))
RowsOk(rows, start, l) == \A k \in Seqs : RowOk(rows[k], k, start, l)
Kept(old, new) == \A k \in Seqs : old[k].body # None => new[k].body # None

(* Saving a block takes no row away.                                        *)
LEMMA SaveRows ==
    ASSUME NEW rows \in [Seqs -> Rows], NEW l \in Seq(LogItems), NEW start \in Nat, NEW c \in Nat, Covers(l, start, c),
           NEW revision \in Nat, NEW live \in BOOLEAN, NEW out, out = SaveBlock(rows, start, l, revision, live),
           RowsOk(rows, start, l)
    PROVE  RowsOk(out, start, l) /\ Kept(rows, out)
<1>1. out \in [Seqs -> Rows] /\ \A k \in Seqs : SavedRow(rows[k], out[k], k, RowsAt(l, live, k), start, c, revision)
  BY SaveBlockIs, Zenon
<1>2. ASSUME NEW k \in Seqs PROVE RowOk(out[k], k, start, l) /\ (rows[k].body # None => out[k].body # None)
  <2>1. RowOk(rows[k], k, start, l) /\ SavedRow(rows[k], out[k], k, RowsAt(l, live, k), start, c, revision)
    BY <1>1 DEF RowsOk
  <2>2. RowsAt(l, live, k) # {} <=> Shows(l, k)
    BY ShowsIs
  <2>3. CASE RowsAt(l, live, k) = {}
    <3>1. out[k] = rows[k]
      BY <2>1, <2>2, <2>3 DEF SavedRow, RowOk
    <3> QED  BY <2>1, <3>1
  <2>4. CASE RowsAt(l, live, k) # {}
    <3>1. /\ out[k].body \in RowsAt(l, live, k) /\ out[k].body # None
          /\ out[k] = rows[k] \/ out[k] = [block |-> start, revision |-> revision, body |-> out[k].body]
      BY <2>1, <2>4 DEF SavedRow
    <3>2. PICK r : r = out[k].body
      OBVIOUS
    <3>3. r \in ProjectConversation(l, live) /\ r.key = k
      BY <3>1, <3>2 DEF RowsAt
    <3>4. \A i \in DOMAIN l : l[i].key <= l[i].end /\ l[i].end <= c
      BY DEF Covers
    <3>5. r \in Bodies /\ (\A x \in r.items : x.end <= r.end) /\ \E i \in DOMAIN l : r.key = l[i].key /\ l[i] \in r.items
      BY <3>3, <3>4, ProjectedIs
    <3>6. k <= r.end
      <4>1. PICK i \in DOMAIN l : r.key = l[i].key /\ l[i] \in r.items
        BY <3>5
      <4>2. l[i].key <= l[i].end /\ l[i].end <= r.end /\ l[i].key = k
        BY <3>3, <3>4, <3>5, <4>1
      <4>3. l[i].key \in Nat /\ l[i].end \in Nat /\ r.end \in Nat
        BY <3>5, ItemFields DEF Bodies
      <4> QED  BY <4>2, <4>3
    <3>7. out[k].block <= start
      <4>1. CASE out[k] = rows[k]
        BY <2>1, <4>1 DEF RowOk
      <4>2. CASE out[k] = [block |-> start, revision |-> revision, body |-> out[k].body]
        <5>1. out[k].block = start
          BY <4>2
        <5> QED  BY <5>1
      <4> QED  BY <3>1, <4>1, <4>2
    <3>8. Shows(l, k)
      BY <2>2, <2>4
    <3> QED  BY <3>1, <3>2, <3>6, <3>7, <3>8 DEF RowOk
  <2> QED  BY <2>3, <2>4
<1> QED  BY <1>2 DEF RowsOk, Kept

(* Nor does an event.                                                       *)
LEMMA TakeRows ==
    ASSUME NEW st, NEW c \in Nat, StoredOk(st, c), NEW event, event.kind \in AllKinds, event.seq = c + 1,
           RowsOk(st.rows, st.start, st.items)
    PROVE  LET out == Take(st, event) IN RowsOk(out.rows, out.start, out.items) /\ Kept(st.rows, out.rows)
<1>1. /\ st.rows \in [Seqs -> Rows] /\ st.start \in Nat /\ st.items \in Seq(LogItems)
      /\ Covers(st.items, st.start, c) /\ st \in [rows : [Seqs -> Rows], start : Nat, items : Seq(LogItems)]
  BY DEF StoredOk
<1>2. CASE event.kind \in Boundaries /\ st.items # <<>>
  <2>1. PICK rows : rows = SaveBlock(st.rows, st.start, st.items, c + 1, FALSE)
    OBVIOUS
  <2>2. RowsOk(rows, st.start, st.items) /\ Kept(st.rows, rows) /\ rows \in [Seqs -> Rows]
    <3>1. PICK old \in [Seqs -> Rows], s \in Nat, l \in Seq(LogItems), e \in Nat :
             old = st.rows /\ s = st.start /\ l = st.items /\ e = c + 1
      BY <1>1
    <3>2. rows = SaveBlock(old, s, l, e, FALSE) /\ Covers(l, s, c) /\ RowsOk(old, s, l)
      BY <1>1, <2>1, <3>1
    <3>3. RowsOk(rows, s, l) /\ Kept(old, rows)
      BY <3>2, SaveRows
    <3>4. rows \in [Seqs -> Rows]
      BY <3>2, SaveBlockIs
    <3> QED  BY <3>1, <3>3, <3>4
  <2>3. st.start <= c
    <3>1. 1 \in DOMAIN st.items
      BY <1>1, <1>2
    <3>2. st.start <= st.items[1].key /\ st.items[1].key <= st.items[1].end /\ st.items[1].end <= c
      BY <1>1, <3>1 DEF Covers
    <3>3. st.items[1].key \in Nat /\ st.items[1].end \in Nat
      BY <1>1, <3>1, ItemFields
    <3> QED  BY <1>1, <3>2, <3>3
  <2>4. PICK out : out = Take(st, event)
    OBVIOUS
  <2>5. out.rows = rows /\ out.start = c + 1
    BY <1>2, <2>1, <2>4 DEF Take
  <2>6. RowsOk(rows, c + 1, out.items)
    <3> SUFFICES ASSUME NEW k \in Seqs PROVE RowOk(rows[k], k, c + 1, out.items)
      BY DEF RowsOk
    <3>1. RowOk(rows[k], k, st.start, st.items) /\ rows[k] \in Rows
      BY <2>2 DEF RowsOk
    <3>2. rows[k].block \in Nat /\ rows[k].block <= st.start
      BY <3>1 DEF RowOk, Rows
    <3>3. rows[k].block <= c + 1 /\ rows[k].block # c + 1
      BY <1>1, <2>3, <3>2
    <3> QED  BY <3>1, <3>3 DEF RowOk
  <2> QED  BY <2>2, <2>4, <2>5, <2>6
<1>3. CASE ~(event.kind \in Boundaries /\ st.items # <<>>)
  <2>1. PICK m : m = AppendHistoryEvent(st.items, event.kind, c + 1)
    OBVIOUS
  <2>2. m \in Seq(LogItems) /\ Extends(st.items, m)
    <3>1. PICK kind \in AllKinds : kind = event.kind
      OBVIOUS
    <3> QED  BY <1>1, <2>1, <3>1, AppendIs, AppendExtends
  <2>3. PICK out : out = Take(st, event)
    OBVIOUS
  <2>4. out = [st EXCEPT !.items = m]
    BY <1>3, <2>1, <2>3 DEF Take
  <2>5. out.rows = st.rows /\ out.start = st.start /\ out.items = m
    BY <1>1, <2>4
  <2>6. \A k : Shows(st.items, k) => Shows(m, k)
    BY <1>1, <2>2, ShowsStay
  <2>7. RowsOk(st.rows, st.start, m)
    BY <2>6 DEF RowsOk, RowOk
  <2> QED  BY <2>3, <2>5, <2>7 DEF Kept
<1> QED  BY <1>2, <1>3


(* What the rows of a projection are over: a message over its item, an      *)
(* activity over its members, the failures over all of them.                *)
OverMessage(l, r, S) == \E i \in Own(l) : r = Row("message", l[i].key, {l[i]}, {}, FALSE) /\ S = {i}
OverActivity(l, live, r, S) == \E g \in Active(l) : r = ActivityRow(l, g, live) /\ S = MembersOf(l, g)
OverFailures(l, live, r, S) == r \in Failures(l, live) /\ S = Failed(l)
Over(l, live, r, S) == OverMessage(l, r, S) \/ OverActivity(l, live, r, S) \/ OverFailures(l, live, r, S)

(* The rows over items are exactly those of the projection.                 *)
LEMMA OverIs ==
    ASSUME NEW l \in Seq(LogItems), NEW live \in BOOLEAN, NEW c \in Nat, \A i \in DOMAIN l : l[i].end <= c
    PROVE  /\ \A r \in ProjectConversation(l, live) : \E S : Over(l, live, r, S)
           /\ \A r, S : Over(l, live, r, S) => r \in ProjectConversation(l, live) /\ RowOver(r, l, S)
<1>1. ASSUME NEW r \in ProjectConversation(l, live) PROVE \E S : Over(l, live, r, S)
  <2>1. CASE r \in Messages(l)
    <3>1. PICK i \in Own(l) : r = Row("message", l[i].key, {l[i]}, {}, FALSE)
      BY <2>1 DEF Messages, Own
    <3>2. OverMessage(l, r, {i})
      BY <3>1 DEF OverMessage
    <3> QED  BY <3>2 DEF Over
  <2>2. CASE r \in Activities(l, live)
    <3>1. PICK g \in Active(l) : r = ActivityRow(l, g, live)
      BY <2>2 DEF Activities, Active
    <3>2. OverActivity(l, live, r, MembersOf(l, g))
      BY <3>1 DEF OverActivity
    <3> QED  BY <3>2 DEF Over
  <2>3. CASE r \in Failures(l, live)
    BY <2>3 DEF Over, OverFailures
  <2> QED  BY <2>1, <2>2, <2>3 DEF ProjectConversation
<1>2. ASSUME NEW r, NEW S, Over(l, live, r, S) PROVE r \in ProjectConversation(l, live) /\ RowOver(r, l, S)
  <2>1. CASE OverMessage(l, r, S)
    <3>1. PICK i \in Own(l) : r = Row("message", l[i].key, {l[i]}, {}, FALSE) /\ S = {i}
      BY <2>1 DEF OverMessage
    <3>2. RowOver(r, l, S)
      BY <3>1, MessageIs DEF Own
    <3>3. r \in Messages(l)
      BY <3>1 DEF Messages, Own
    <3> QED  BY <3>2, <3>3 DEF ProjectConversation
  <2>2. CASE OverActivity(l, live, r, S)
    <3>1. PICK g \in Active(l) : r = ActivityRow(l, g, live) /\ S = MembersOf(l, g)
      BY <2>2 DEF OverActivity
    <3>2. RowOver(r, l, S)
      BY <3>1, ActivityIs DEF Active
    <3>3. r \in Activities(l, live)
      BY <3>1 DEF Activities, Active
    <3> QED  BY <3>2, <3>3 DEF ProjectConversation
  <2>3. CASE OverFailures(l, live, r, S)
    <3>1. RowOver(r, l, S)
      BY <2>3, FailureIs DEF OverFailures, Failed
    <3> QED  BY <2>3, <3>1 DEF OverFailures, ProjectConversation
  <2> QED  BY <1>2, <2>1, <2>2, <2>3 DEF Over
<1> QED  BY <1>1, <1>2

(* The items of a block are apart: an event is in one of them, and no two   *)
(* have the same key.                                                       *)
LEMMA ItemsApart ==
    ASSUME NEW l \in Seq(LogItems), NEW start \in Nat, NEW c \in Nat, Covers(l, start, c),
           NEW i \in DOMAIN l, NEW j \in DOMAIN l
    PROVE  /\ l[i].key = l[j].key => i = j
           /\ \A e \in Nat : l[i].key <= e /\ e <= l[i].end /\ l[j].key <= e /\ e <= l[j].end => i = j
<1>1. /\ l[i].key \in Nat /\ l[i].end \in Nat /\ l[j].key \in Nat /\ l[j].end \in Nat /\ i \in Nat /\ j \in Nat
  BY ItemFields
<1>2. /\ i < j => l[i].end < l[j].key
      /\ j < i => l[j].end < l[i].key
      /\ l[i].key <= l[i].end /\ l[j].key <= l[j].end
  BY DEF Covers
<1> QED  BY <1>1, <1>2

(* The first item of an activity is not shown as a message: a result ends   *)
(* its turn, so no work follows it there.                                   *)
LEMMA LeadKind ==
    ASSUME NEW l \in Seq(LogItems), NEW g \in Groups(l), IsWork(l, g), NEW m, m = Min(MembersOf(l, g))
    PROVE  /\ m \in DOMAIN l /\ l[m].kind \in Background /\ l[m].kind # "answer"
           /\ m \in MembersOf(l, g)
<1>1. /\ m \in Nat /\ m \in DOMAIN l /\ l[m].kind \in Background
      /\ \E h : PartOf(l, h, g) /\ m \in h /\ m = Min(h)
  BY LeadIs
<1>2. PICK h : PartOf(l, h, g) /\ m \in h /\ m = Min(h)
  BY <1>1
<1>3. \A j \in DOMAIN l : m < j /\ Turn(l, m, j) => l[m].kind \notin Ends
  BY <1>1 DEF Turn
<1>4. "answer" \in Ends /\ "answer" \notin {"tool", "done", "progress"}
  BY DEF Ends, EndsTurn, Results
<1>5. CASE h = g
  <2>1. PICK j \in g : l[j].kind \in {"tool", "done", "progress"}
    BY DEF IsWork
  <2>2. j \in DOMAIN l /\ Near(l, m, j) /\ m <= j /\ j \in Nat
    BY <1>2, <1>5, <2>1, GroupsAre
  <2>3. m = j \/ m < j
    BY <1>1, <2>2
  <2>4. l[m].kind # "answer"
    BY <1>3, <1>4, <2>1, <2>2, <2>3 DEF Near
  <2> QED  BY <1>1, <2>4, MembersAre
<1>6. CASE h # g
  <2>1. h \in Groups(l) /\ ~IsWork(l, h) /\ g \in Works(l, h)
    BY <1>2, <1>6 DEF PartOf, Joins
  <2>2. Turn(l, Min(g), m) /\ Min(g) \in DOMAIN l /\ Min(g) \in Nat
    BY <1>2, <2>1, GroupsAre DEF Works
  <2>3. m <= Min(g)
    BY LeadIs DEF PartOf
  <2>4. m # Min(g)
    BY <1>2, <1>6, <2>1, GroupsByMin
  <2>5. m < Min(g)
    BY <1>1, <2>2, <2>3, <2>4
  <2>6. Turn(l, m, Min(g))
    BY <2>2 DEF Turn
  <2> QED  BY <1>1, <1>3, <1>4, <2>2, <2>5, <2>6, MembersAre
<1> QED  BY <1>5, <1>6

(* A group is part of one activity.                                         *)
LEMMA PartOfOne ==
    ASSUME NEW l \in Seq(LogItems), NEW g \in Groups(l), NEW w \in Groups(l), IsWork(l, g), IsWork(l, w),
           NEW h, PartOf(l, h, g), PartOf(l, h, w)
    PROVE  g = w
<1>1. CASE IsWork(l, h)
  BY <1>1 DEF PartOf
<1>2. CASE ~IsWork(l, h)
  <2>1. h \in Groups(l) /\ Joins(l, h, g) /\ Joins(l, h, w)
    BY <1>2 DEF PartOf
  <2> QED  BY <2>1, JoinedIs
<1> QED  BY <1>1, <1>2

(* No two rows of a projection have the same key.                           *)
LEMMA KeysApart ==
    ASSUME NEW l \in Seq(LogItems), NEW live \in BOOLEAN, NEW start \in Nat, NEW c \in Nat, Covers(l, start, c),
           NEW r \in ProjectConversation(l, live), NEW s \in ProjectConversation(l, live), r.key = s.key
    PROVE  r = s
<1>0. \A i \in DOMAIN l : l[i].end <= c
  BY DEF Covers
<1>1. PICK S : Over(l, live, r, S)
  BY <1>0, OverIs
<1>2. PICK T : Over(l, live, s, T)
  BY <1>0, OverIs
<1>3. RowOver(r, l, S) /\ RowOver(s, l, T)
  BY <1>0, <1>1, <1>2, OverIs
<1>4. PICK m : m = Min(S)
  OBVIOUS
<1>5. m \in DOMAIN l /\ m \in S /\ m = Min(T) /\ m \in T
  <2>1. Min(S) \in DOMAIN l /\ Min(T) \in DOMAIN l /\ l[Min(S)].key = l[Min(T)].key /\ Min(S) \in S /\ Min(T) \in T
    BY <1>3 DEF RowOver
  <2>2. Min(S) = Min(T)
    BY <2>1, ItemsApart
  <2> QED  BY <1>4, <2>1, <2>2
<1>6. ASSUME NEW x, NEW X, OverMessage(l, x, X), m \in X
      PROVE  l[m].kind \in Separate \union {"text", "answer"} /\ x = Row("message", l[m].key, {l[m]}, {}, FALSE)
  BY <1>6 DEF OverMessage, Own
<1>7. ASSUME NEW x, NEW X, OverActivity(l, live, x, X), m = Min(X)
      PROVE  /\ l[m].kind \in Background /\ l[m].kind # "answer"
             /\ \E g \in Groups(l) : /\ x = ActivityRow(l, g, live) /\ IsWork(l, g)
                                     /\ \E h : PartOf(l, h, g) /\ m \in h
  <2>1. PICK g \in Active(l) : x = ActivityRow(l, g, live) /\ X = MembersOf(l, g)
    BY <1>7 DEF OverActivity
  <2>2. g \in Groups(l) /\ IsWork(l, g)
    BY DEF Active
  <2> QED  BY <1>7, <2>1, <2>2, LeadKind, LeadIs
<1>8. ASSUME NEW x, NEW X, OverFailures(l, live, x, X), m \in X
      PROVE  l[m].kind \in Errors
  BY <1>8 DEF OverFailures, Failed
<1>9. /\ \A kind \in Background : kind # "answer" => kind \notin Separate \union {"text", "answer"} /\ kind \notin Errors
      /\ \A kind \in Errors : kind \notin Separate \union {"text", "answer"}
  BY DEF Background, Errors, Separate, Results
<1>10. CASE OverMessage(l, r, S)
  <2>1. l[m].kind \in Separate \union {"text", "answer"} /\ r = Row("message", l[m].key, {l[m]}, {}, FALSE)
    BY <1>5, <1>6, <1>10
  <2>2. ~OverActivity(l, live, s, T)
    BY <1>5, <1>7, <1>9, <2>1
  <2>3. ~OverFailures(l, live, s, T)
    BY <1>5, <1>8, <1>9, <2>1
  <2>4. OverMessage(l, s, T)
    BY <1>2, <2>2, <2>3 DEF Over
  <2>5. s = Row("message", l[m].key, {l[m]}, {}, FALSE)
    BY <1>5, <1>6, <2>4
  <2> QED  BY <2>1, <2>5
<1>11. CASE OverFailures(l, live, r, S)
  <2>1. OverFailures(l, live, s, T)
    BY <1>2, <1>5, <1>6, <1>7, <1>8, <1>9, <1>11 DEF Over
  <2> QED  BY <1>11, <2>1 DEF OverFailures, Failures
<1>12. CASE OverActivity(l, live, r, S)
  <2>1. OverActivity(l, live, s, T)
    BY <1>2, <1>4, <1>5, <1>6, <1>7, <1>8, <1>9, <1>12 DEF Over
  <2>2. PICK g \in Groups(l) : /\ r = ActivityRow(l, g, live) /\ IsWork(l, g)
                               /\ \E h : PartOf(l, h, g) /\ m \in h
    BY <1>4, <1>7, <1>12
  <2>3. PICK w \in Groups(l) : /\ s = ActivityRow(l, w, live) /\ IsWork(l, w)
                               /\ \E h : PartOf(l, h, w) /\ m \in h
    BY <1>5, <1>7, <2>1
  <2>4. PICK h : PartOf(l, h, g) /\ m \in h
    BY <2>2
  <2>5. PICK k : PartOf(l, k, w) /\ m \in k
    BY <2>3
  <2>6. h = k
    BY <2>4, <2>5, GroupsApart DEF PartOf
  <2>7. g = w
    BY <2>2, <2>3, <2>4, <2>5, <2>6, PartOfOne
  <2> QED  BY <2>2, <2>3, <2>7
<1> QED  BY <1>1, <1>10, <1>11, <1>12 DEF Over

(* What is shown at all, and which rows show an event.                      *)
ShownKinds == {"reset", "user", "text", "progress", "tool", "error", "failed"}
Has(r, e) == \E x \in r.items : x.key <= e /\ e <= x.end

(* An event that is shown is in one row of the projection.                  *)
LEMMA ProjectedOnce ==
    ASSUME NEW l \in Seq(LogItems), NEW live \in BOOLEAN, NEW start \in Nat, NEW c \in Nat, Covers(l, start, c),
           NEW i \in DOMAIN l, l[i].kind \in ShownKinds, NEW e \in Nat, l[i].key <= e, e <= l[i].end
    PROVE  \E r \in ProjectConversation(l, live) :
              Has(r, e) /\ \A s \in ProjectConversation(l, live) : Has(s, e) => s = r
<1>0. \A j \in DOMAIN l : l[j].end <= c
  BY DEF Covers
<1>1. ASSUME NEW r, NEW S, Over(l, live, r, S) PROVE Has(r, e) <=> i \in S
  <2>1. S \subseteq DOMAIN l /\ r.items = {l[j] : j \in S}
    BY <1>0, <1>1, OverIs DEF RowOver
  <2>2. ASSUME i \in S PROVE Has(r, e)
    BY <2>1, <2>2 DEF Has
  <2>3. ASSUME Has(r, e) PROVE i \in S
    <3>1. PICK j \in S : l[j].key <= e /\ e <= l[j].end
      BY <2>1, <2>3 DEF Has
    <3>2. j = i
      BY <2>1, <3>1, ItemsApart
    <3> QED  BY <3>1, <3>2
  <2> QED  BY <2>2, <2>3
<1>2. SUFFICES \E r, S : /\ Over(l, live, r, S) /\ i \in S
                         /\ \A s, T : Over(l, live, s, T) /\ i \in T => s = r
  <2>1. PICK r, S : /\ Over(l, live, r, S) /\ i \in S
                    /\ \A s, T : Over(l, live, s, T) /\ i \in T => s = r
    BY <1>2
  <2>2. r \in ProjectConversation(l, live) /\ Has(r, e)
    BY <1>0, <1>1, <2>1, OverIs
  <2>3. ASSUME NEW s \in ProjectConversation(l, live), Has(s, e) PROVE s = r
    <3>1. PICK T : Over(l, live, s, T)
      BY <1>0, OverIs
    <3> QED  BY <1>1, <2>1, <2>3, <3>1
  <2> QED  BY <2>2, <2>3
<1>3. ASSUME NEW s, NEW T, OverMessage(l, s, T), i \in T
      PROVE  l[i].kind \in Separate \union {"text", "answer"} /\ s = Row("message", l[i].key, {l[i]}, {}, FALSE)
  BY <1>3 DEF OverMessage, Own
<1>4. ASSUME NEW s, NEW T, OverFailures(l, live, s, T), i \in T PROVE l[i].kind \in Errors
  BY <1>4 DEF OverFailures, Failed
<1>5. ASSUME NEW s, NEW T, OverActivity(l, live, s, T), i \in T
      PROVE  /\ l[i].kind \in Background \union {"marker"}
             /\ l[i].kind \in {"tool", "progress"} => s = ActivityRow(l, GroupOf(l, i), live)
  <2>1. PICK g \in Active(l) : s = ActivityRow(l, g, live) /\ T = MembersOf(l, g)
    BY <1>5 DEF OverActivity
  <2>2. g \in Groups(l) /\ IsWork(l, g)
    BY DEF Active
  <2>3. PICK h : PartOf(l, h, g) /\ (i \in h \/ l[i].kind = "marker")
    BY <1>5, <2>1, <2>2, MembersBy
  <2>4. h \in Groups(l)
    BY <2>3 DEF PartOf
  <2>5. i \in h => l[i].kind \in Background
    BY <2>4, GroupsAre
  <2>6. ASSUME l[i].kind \in {"tool", "progress"} PROVE g = GroupOf(l, i)
    <3>1. i \in h /\ IsWork(l, h)
      BY <2>3, <2>6 DEF IsWork
    <3>2. h = g
      BY <2>3, <3>1 DEF PartOf
    <3>3. GroupOf(l, i) \in Groups(l) /\ i \in GroupOf(l, i)
      BY <2>5, <3>1, GroupsApart
    <3> QED  BY <2>4, <3>1, <3>2, <3>3, GroupsApart
  <2> QED  BY <2>1, <2>3, <2>5, <2>6
<1>6. CASE l[i].kind \in {"reset", "user", "text"}
  <2>1. /\ l[i].kind \in Separate \union {"text", "answer"} /\ l[i].kind \notin Errors
        /\ l[i].kind \notin Background \union {"marker"}
    BY <1>6 DEF Separate, Errors, Background, Results
  <2>2. PICK r : r = Row("message", l[i].key, {l[i]}, {}, FALSE)
    OBVIOUS
  <2>3. OverMessage(l, r, {i})
    BY <2>1, <2>2 DEF OverMessage, Own
  <2>4. \A s, T : Over(l, live, s, T) /\ i \in T => s = r
    <3> SUFFICES ASSUME NEW s, NEW T, Over(l, live, s, T), i \in T PROVE s = r
      OBVIOUS
    <3>1. OverMessage(l, s, T)
      BY <1>4, <1>5, <2>1 DEF Over
    <3>2. s = Row("message", l[i].key, {l[i]}, {}, FALSE)
      BY <1>3, <3>1
    <3> QED  BY <2>2, <3>2
  <2> QED  BY <2>3, <2>4 DEF Over
<1>7. CASE l[i].kind \in {"progress", "tool"}
  <2>1. /\ l[i].kind \notin Separate \union {"text", "answer"} /\ l[i].kind \notin Errors
        /\ l[i].kind \in Background
    BY <1>7 DEF Separate, Errors, Background, Results
  <2>2. PICK g : g = GroupOf(l, i)
    OBVIOUS
  <2>3. g \in Groups(l) /\ i \in g
    BY <2>1, <2>2, GroupsApart
  <2>4. IsWork(l, g) /\ i \in MembersOf(l, g)
    BY <1>7, <2>3, MembersAre DEF IsWork
  <2>5. i \in OwnOperations(l, MembersOf(l, g))
    BY <1>7, <2>4 DEF OwnOperations
  <2>6. g \in Active(l)
    BY <2>3, <2>4, <2>5 DEF Active
  <2>7. PICK r : r = ActivityRow(l, g, live)
    OBVIOUS
  <2>8. OverActivity(l, live, r, MembersOf(l, g))
    BY <2>6, <2>7 DEF OverActivity
  <2>9. \A s, T : Over(l, live, s, T) /\ i \in T => s = r
    <3> SUFFICES ASSUME NEW s, NEW T, Over(l, live, s, T), i \in T PROVE s = r
      OBVIOUS
    <3>1. OverActivity(l, live, s, T)
      BY <1>3, <1>4, <2>1 DEF Over
    <3>2. s = ActivityRow(l, g, live)
      BY <1>5, <1>7, <2>2, <3>1
    <3> QED  BY <2>7, <3>2
  <2> QED  BY <2>4, <2>8, <2>9 DEF Over
<1>8. CASE l[i].kind \in {"error", "failed"}
  <2>1. /\ l[i].kind \notin Separate \union {"text", "answer"} /\ l[i].kind \in Errors
        /\ l[i].kind \notin Background \union {"marker"}
    BY <1>8 DEF Separate, Errors, Background, Results
  <2>2. i \in Failed(l)
    BY <2>1 DEF Failed
  <2>3. PICK r : Failures(l, live) = {r}
    BY <2>2 DEF Failures, Failed
  <2>4. OverFailures(l, live, r, Failed(l))
    BY <2>3 DEF OverFailures
  <2>5. \A s, T : OverFailures(l, live, s, T) => s = r
    BY <2>3 DEF OverFailures
  <2>6. \A s, T : Over(l, live, s, T) /\ i \in T => s = r
    BY <1>3, <1>5, <2>1, <2>5 DEF Over
  <2> QED  BY <2>2, <2>4, <2>6 DEF Over
<1> QED  BY <1>6, <1>7, <1>8 DEF ShownKinds


(* The items of the open block have the kinds of their events; rows of      *)
(* earlier blocks hold nothing of this one, and the other way round; and    *)
(* every event of the earlier blocks is in one row.                         *)
KindsOk(l, L) == \A i \in DOMAIN l : \A e \in Nat : l[i].key <= e /\ e <= l[i].end => L[e] = l[i].kind
RowApart(row, k, start) ==
    row.body # None => IF k < start THEN \A x \in row.body.items : x.end < start
                       ELSE row.block = start /\ \A x \in row.body.items : start <= x.key
Apart(rows, start) == \A k \in Seqs : RowApart(rows[k], k, start)
Holds(row, e) == row.body # None /\ Has(row.body, e)
Once(rows, e) == \E k \in Seqs : Holds(rows[k], e) /\ \A j \in Seqs : Holds(rows[j], e) => j = k
ShownUpTo(rows, L, c) == \A e \in 1..c : L[e] \in ShownKinds => Once(rows, e)
BlockOk(rows, start, l, L) ==
    /\ RowsOk(rows, start, l) /\ KindsOk(l, L) /\ Apart(rows, start) /\ ShownUpTo(rows, L, start - 1)

(* The rows after a block was saved: earlier ones as they were, and exactly *)
(* those of its projection.                                                 *)
RowSaved(old, new, k, start, c, at) ==
    IF k < start THEN new = old
    ELSE /\ new.body # None <=> at # {}
         /\ new.body # None => new.body \in at /\ new.block = start /\ k <= c

(* saveBlock leaves them so.                                                *)
LEMMA SavedIs ==
    ASSUME NEW rows \in [Seqs -> Rows], NEW l \in Seq(LogItems), NEW start \in Nat, NEW c \in Nat, Covers(l, start, c),
           NEW revision \in Nat, NEW live \in BOOLEAN, NEW out, out = SaveBlock(rows, start, l, revision, live),
           RowsOk(rows, start, l), Apart(rows, start), \A k \in Seqs : rows[k].block <= k
    PROVE  \A k \in Seqs : RowSaved(rows[k], out[k], k, start, c, RowsAt(l, live, k))
<1>1. out \in [Seqs -> Rows] /\ \A k \in Seqs : SavedRow(rows[k], out[k], k, RowsAt(l, live, k), start, c, revision)
  BY SaveBlockIs, Zenon
<1> SUFFICES ASSUME NEW k \in Seqs PROVE RowSaved(rows[k], out[k], k, start, c, RowsAt(l, live, k))
  OBVIOUS
<1>2. /\ SavedRow(rows[k], out[k], k, RowsAt(l, live, k), start, c, revision) /\ RowOk(rows[k], k, start, l)
      /\ RowApart(rows[k], k, start) /\ rows[k].block <= k /\ rows[k] \in Rows
  BY <1>1 DEF RowsOk, Apart
<1>3. RowsAt(l, live, k) # {} <=> Shows(l, k)
  BY ShowsIs
<1>4. k \in Nat /\ rows[k].block \in Nat
  BY <1>2, StreamAssumption DEF Seqs, Rows
<1>5. CASE k < start
  <2>1. RowsAt(l, live, k) = {} /\ rows[k].block # start
    BY <1>2, <1>4, <1>5 DEF SavedRow
  <2> QED  BY <1>2, <1>5, <2>1 DEF SavedRow, RowSaved
<1>6. CASE ~(k < start) /\ RowsAt(l, live, k) = {}
  <2>1. rows[k].body = None
    BY <1>2, <1>3, <1>6 DEF RowOk, RowApart
  <2>2. out[k] = rows[k]
    BY <1>2, <1>6, <2>1 DEF SavedRow
  <2> QED  BY <1>6, <2>1, <2>2 DEF RowSaved
<1>7. CASE ~(k < start) /\ RowsAt(l, live, k) # {}
  <2>1. /\ k <= c /\ out[k].body \in RowsAt(l, live, k) /\ out[k].body # None
        /\ out[k] = rows[k] \/ out[k] = [block |-> start, revision |-> revision, body |-> out[k].body]
    BY <1>2, <1>7 DEF SavedRow
  <2>2. out[k].block = start
    <3>1. CASE out[k] = rows[k]
      BY <1>2, <1>7, <2>1, <3>1 DEF RowApart
    <3>2. CASE out[k] = [block |-> start, revision |-> revision, body |-> out[k].body]
      BY <3>2
    <3> QED  BY <2>1, <3>1, <3>2
  <2> QED  BY <1>7, <2>1, <2>2 DEF RowSaved
<1> QED  BY <1>5, <1>6, <1>7

EndsBy(rows, c) == \A k \in Seqs : rows[k].body # None => k <= c /\ \A x \in rows[k].body.items : x.end <= c

(* After a block was saved every event up to its end is in one row.         *)
LEMMA SaveShows ==
    ASSUME NEW rows \in [Seqs -> Rows], NEW l \in Seq(LogItems), NEW start \in Nat, NEW c \in Nat, Covers(l, start, c),
           NEW revision \in Nat, NEW live \in BOOLEAN, NEW out, out = SaveBlock(rows, start, l, revision, live),
           NEW L, BlockOk(rows, start, l, L), \A k \in Seqs : rows[k].block <= k, 1 <= start, c <= MaxEvents
    PROVE  Apart(out, start) /\ ShownUpTo(out, L, c) /\ EndsBy(out, c)
<1>0. RowsOk(rows, start, l) /\ KindsOk(l, L) /\ Apart(rows, start) /\ ShownUpTo(rows, L, start - 1)
  BY DEF BlockOk
<1>1. \A k \in Seqs : RowSaved(rows[k], out[k], k, start, c, RowsAt(l, live, k))
  BY <1>0, SavedIs, Zenon
<1>2. /\ \A i \in DOMAIN l : /\ start <= l[i].key /\ l[i].key <= l[i].end /\ l[i].end <= c
                             /\ l[i].key \in Nat /\ l[i].end \in Nat
      /\ start <= c + 1 /\ \A e \in start..c : \E i \in DOMAIN l : l[i].key <= e /\ e <= l[i].end
  BY ItemFields DEF Covers
<1>3. \A r \in ProjectConversation(l, live) :
         /\ \A x \in r.items : \E i \in DOMAIN l : x = l[i]
         /\ r \in Bodies /\ \E i \in DOMAIN l : r.key = l[i].key
  <2>1. ASSUME NEW r \in ProjectConversation(l, live)
        PROVE  /\ \A x \in r.items : \E i \in DOMAIN l : x = l[i]
               /\ r \in Bodies /\ \E i \in DOMAIN l : r.key = l[i].key
    <3>1. r \in Bodies /\ (\E S : RowOver(r, l, S)) /\ \E i \in DOMAIN l : r.key = l[i].key
      BY <1>2, ProjectedIs
    <3> QED  BY <3>1 DEF RowOver
  <2> QED  BY <2>1
<1>4. \A k \in Seqs : k \in Nat
  BY StreamAssumption DEF Seqs
<1>5. ASSUME NEW k \in Seqs, out[k].body # None, ~(k < start)
      PROVE  /\ out[k].body \in ProjectConversation(l, live) /\ out[k].body.key = k /\ out[k].block = start /\ k <= c
             /\ \A x \in out[k].body.items : start <= x.key /\ x.end <= c
  <2>1. out[k].body \in RowsAt(l, live, k) /\ out[k].block = start /\ k <= c
    BY <1>1, <1>5 DEF RowSaved
  <2>2. out[k].body \in ProjectConversation(l, live) /\ out[k].body.key = k
    BY <2>1 DEF RowsAt
  <2> QED  BY <1>2, <1>3, <2>1, <2>2
<1>6. ASSUME NEW k \in Seqs, k < start
      PROVE  out[k] = rows[k] /\ (out[k].body # None => \A x \in out[k].body.items : x.end < start)
  BY <1>0, <1>1, <1>6 DEF RowSaved, Apart, RowApart
<1>7. Apart(out, start)
  BY <1>5, <1>6 DEF Apart, RowApart
<1>8. ASSUME NEW k \in Seqs, out[k].body # None
      PROVE  k <= c /\ \A x \in out[k].body.items : x.end <= c
  <2>1. CASE k < start
    <3>1. rows[k] \in Rows /\ rows[k].body \in Bodies
      BY <1>6, <1>8, <2>1 DEF Rows
    <3>2. \A x \in rows[k].body.items : x.end \in Nat
      BY <3>1 DEF Bodies, LogItems
    <3> QED  BY <1>2, <1>4, <1>6, <1>8, <2>1, <3>2
  <2>2. CASE ~(k < start)
    BY <1>5, <1>8, <2>2
  <2> QED  BY <2>1, <2>2
<1>9. ASSUME NEW e \in 1..c, L[e] \in ShownKinds, e < start PROVE Once(out, e)
  <2>1. e \in 1..(start - 1)
    BY <1>9
  <2>2. PICK k \in Seqs : Holds(rows[k], e) /\ \A j \in Seqs : Holds(rows[j], e) => j = k
    BY <1>0, <1>9, <2>1 DEF ShownUpTo, Once
  <2>3. k < start
    <3>1. PICK x \in rows[k].body.items : x.key <= e
      BY <2>2 DEF Holds, Has
    <3>2. rows[k].body # None /\ rows[k] \in Rows
      BY <2>2 DEF Holds
    <3>3. x.key \in Nat
      BY <3>2 DEF Rows, Bodies, LogItems
    <3>4. ~(k < start) => start <= x.key
      BY <1>0, <3>2 DEF Apart, RowApart
    <3> QED  BY <1>9, <3>1, <3>3, <3>4
  <2>4. Holds(out[k], e)
    BY <1>6, <2>2, <2>3
  <2>5. ASSUME NEW j \in Seqs, Holds(out[j], e) PROVE j = k
    <3>1. CASE j < start
      BY <1>6, <2>2, <2>5, <3>1
    <3>2. CASE ~(j < start)
      <4>1. PICK x \in out[j].body.items : x.key <= e
        BY <2>5 DEF Holds, Has
      <4>2. out[j].body \in Bodies /\ start <= x.key
        BY <1>3, <1>5, <2>5, <3>2 DEF Holds
      <4>3. x.key \in Nat
        BY <4>2 DEF Bodies, LogItems
      <4> QED  BY <1>9, <4>1, <4>2, <4>3
    <3> QED  BY <3>1, <3>2
  <2> QED  BY <2>4, <2>5 DEF Once
<1>10. ASSUME NEW e \in 1..c, L[e] \in ShownKinds, ~(e < start) PROVE Once(out, e)
  <2>1. PICK i \in DOMAIN l : l[i].key <= e /\ e <= l[i].end
    BY <1>2, <1>10
  <2>2. l[i].kind \in ShownKinds /\ e \in Nat
    BY <1>0, <1>10, <2>1 DEF KindsOk
  <2>3. PICK r \in ProjectConversation(l, live) :
           Has(r, e) /\ \A s \in ProjectConversation(l, live) : Has(s, e) => s = r
    BY <2>1, <2>2, ProjectedOnce
  <2>4. PICK k : k = r.key
    OBVIOUS
  <2>5. k \in Seqs /\ ~(k < start)
    <3>1. PICK j \in DOMAIN l : k = l[j].key
      BY <1>3, <2>4
    <3>2. start <= k /\ k <= c /\ k \in Nat
      BY <1>2, <3>1
    <3> QED  BY <3>2, StreamAssumption DEF Seqs
  <2>6. r \in RowsAt(l, live, k)
    BY <2>4 DEF RowsAt
  <2>7. out[k].body # None
    BY <1>1, <2>5, <2>6 DEF RowSaved
  <2>8. out[k].body \in ProjectConversation(l, live) /\ out[k].body.key = k
    BY <1>5, <2>5, <2>7
  <2>9. out[k].body = r
    BY <2>4, <2>8, KeysApart
  <2>10. Holds(out[k], e)
    BY <2>3, <2>7, <2>9 DEF Holds
  <2>11. ASSUME NEW j \in Seqs, Holds(out[j], e) PROVE j = k
    <3>1. CASE j < start
      <4>1. PICK x \in out[j].body.items : e <= x.end
        BY <2>11 DEF Holds, Has
      <4>2. out[j].body # None /\ x.end < start /\ out[j] \in Rows
        BY <1>6, <2>11, <3>1, <4>1 DEF Holds
      <4>3. x.end \in Nat
        BY <4>2 DEF Rows, Bodies, LogItems
      <4> QED  BY <1>10, <4>1, <4>2, <4>3
    <3>2. CASE ~(j < start)
      <4>1. out[j].body \in ProjectConversation(l, live) /\ out[j].body.key = j /\ Has(out[j].body, e)
        BY <1>5, <2>11, <3>2 DEF Holds
      <4>2. out[j].body = r
        BY <2>3, <4>1
      <4> QED  BY <2>4, <4>1, <4>2
    <3> QED  BY <3>1, <3>2
  <2> QED  BY <2>5, <2>10, <2>11 DEF Once
<1> QED  BY <1>7, <1>8, <1>9, <1>10 DEF ShownUpTo, EndsBy


(* The next event keeps the kinds of the items.                             *)
LEMMA AppendKinds ==
    ASSUME NEW l \in Seq(LogItems), NEW start \in Nat, NEW c \in Nat, Covers(l, start, c), NEW kind \in AllKinds,
           NEW L, KindsOk(l, L), L[c + 1] = kind
    PROVE  KindsOk(AppendHistoryEvent(l, kind, c + 1), L)
<1> DEFINE n == Len(l)
<1>0. n \in Nat /\ DOMAIN l = 1..n
  OBVIOUS
<1>1. CASE kind \in Prose /\ l # <<>> /\ Last(l).kind = kind
  <2>1. PICK m : m = [l EXCEPT ![n].end = c + 1]
    OBVIOUS
  <2>2. AppendHistoryEvent(l, kind, c + 1) = m
    BY <1>1, <2>1 DEF AppendHistoryEvent
  <2>3. n \in DOMAIN l /\ l[n].kind = kind
    BY <1>0, <1>1 DEF Last
  <2>4. DOMAIN m = DOMAIN l
    BY <2>1
  <2>5. \A e \in Nat : l[n].key <= e /\ e <= c => L[e] = kind
    <3> SUFFICES ASSUME NEW e \in Nat, l[n].key <= e, e <= c PROVE L[e] = kind
      OBVIOUS
    <3>1. start <= l[n].key /\ l[n].key \in Nat /\ l[n].end \in Nat
      BY <2>3, ItemFields DEF Covers
    <3>2. PICK i \in DOMAIN l : l[i].key <= e /\ e <= l[i].end
      BY <3>1 DEF Covers
    <3>3. i = n
      <4>1. l[i].key \in Nat /\ l[i].end \in Nat /\ (i < n => l[i].end < l[n].key)
        BY <2>3, ItemFields DEF Covers
      <4> QED  BY <1>0, <3>1, <3>2, <4>1
    <3> QED  BY <2>3, <3>2, <3>3 DEF KindsOk
  <2>6. ASSUME NEW i \in DOMAIN m, NEW e \in Nat, m[i].key <= e, e <= m[i].end PROVE L[e] = m[i].kind
    <3>1. l[i] \in LogItems /\ i \in DOMAIN l
      BY <2>4, ItemFields
    <3>2. CASE i = n
      <4>1. m[i] = [l[i] EXCEPT !.end = c + 1]
        BY <2>1, <3>1, <3>2
      <4>2. m[i].key = l[n].key /\ m[i].end = c + 1 /\ m[i].kind = kind
        BY <2>3, <3>1, <3>2, <4>1 DEF LogItems
      <4>3. e <= c \/ e = c + 1
        BY <2>6, <4>2
      <4> QED  BY <2>5, <2>6, <4>2, <4>3
    <3>3. CASE i # n
      <4>1. m[i] = l[i]
        BY <2>1, <3>1, <3>3
      <4> QED  BY <2>6, <3>1, <4>1 DEF KindsOk
    <3> QED  BY <3>2, <3>3
  <2> QED  BY <2>2, <2>6 DEF KindsOk
<1>2. CASE ~(kind \in Prose /\ l # <<>> /\ Last(l).kind = kind)
  <2>1. PICK x : x = [key |-> c + 1, end |-> c + 1, kind |-> kind]
    OBVIOUS
  <2>2. PICK m : m = Append(l, x)
    OBVIOUS
  <2>3. AppendHistoryEvent(l, kind, c + 1) = m
    BY <1>2, <2>1, <2>2 DEF AppendHistoryEvent
  <2>4. DOMAIN m = 1..(n + 1) /\ (\A i \in 1..n : m[i] = l[i]) /\ m[n + 1] = x
    BY <2>2
  <2>5. ASSUME NEW i \in DOMAIN m, NEW e \in Nat, m[i].key <= e, e <= m[i].end PROVE L[e] = m[i].kind
    <3>1. CASE i = n + 1
      <4>1. m[i].key = c + 1 /\ m[i].end = c + 1 /\ m[i].kind = kind
        BY <2>1, <2>4, <3>1
      <4>2. e = c + 1
        BY <2>5, <4>1
      <4> QED  BY <4>1, <4>2
    <3>2. CASE i # n + 1
      <4>1. i \in DOMAIN l /\ m[i] = l[i]
        BY <1>0, <2>4, <3>2
      <4> QED  BY <2>5, <4>1 DEF KindsOk
    <3> QED  BY <3>1, <3>2
  <2> QED  BY <2>3, <2>5 DEF KindsOk
<1> QED  BY <1>1, <1>2

(* The conversation after some events, with the block that is open.         *)
ConversationOk(st, L) == BlockOk(st.rows, st.start, st.items, L)

(* An event keeps all that, and takes no row away.                          *)
LEMMA TakeBlock ==
    ASSUME NEW st, NEW c \in Nat, StoredOk(st, c), c <= MaxEvents, NEW event, event.kind \in AllKinds,
           event.seq = c + 1, NEW L, L[c + 1] = event.kind, ConversationOk(st, L)
    PROVE  ConversationOk(Take(st, event), L) /\ Kept(st.rows, Take(st, event).rows)
<1>1. /\ st.rows \in [Seqs -> Rows] /\ st.start \in Nat /\ st.items \in Seq(LogItems)
      /\ Covers(st.items, st.start, c) /\ st \in [rows : [Seqs -> Rows], start : Nat, items : Seq(LogItems)]
      /\ \A k \in Seqs : st.rows[k].block <= k
      /\ 1 <= st.start
  BY DEF StoredOk
<1>2. PICK old \in [Seqs -> Rows], s \in Nat, l \in Seq(LogItems), e \in Nat :
         old = st.rows /\ s = st.start /\ l = st.items /\ e = c + 1
  BY <1>1
<1>3. /\ BlockOk(old, s, l, L) /\ Covers(l, s, c) /\ 1 <= s /\ \A k \in Seqs : old[k].block <= k
      /\ RowsOk(old, s, l) /\ KindsOk(l, L) /\ Apart(old, s) /\ ShownUpTo(old, L, s - 1)
  BY <1>1, <1>2 DEF ConversationOk, BlockOk
<1>4. PICK out : out = Take(st, event)
  OBVIOUS
<1>5. RowsOk(out.rows, out.start, out.items) /\ Kept(st.rows, out.rows)
  BY <1>2, <1>3, <1>4, TakeRows
<1>6. PICK kind \in AllKinds : kind = event.kind
  OBVIOUS
<1>7. CASE event.kind \in Boundaries /\ st.items # <<>>
  <2>1. PICK rows : rows = SaveBlock(old, s, l, e, FALSE)
    OBVIOUS
  <2>a. BlockOk(old, s, l, L) /\ Covers(l, s, c) /\ 1 <= s /\ \A k \in Seqs : old[k].block <= k
    BY <1>3
  <2>2. Apart(rows, s) /\ ShownUpTo(rows, L, c) /\ EndsBy(rows, c)
    BY <2>a, <2>1, SaveShows
  <2>3. rows \in [Seqs -> Rows]
    BY <2>a, <2>1, SaveBlockIs
  <2>4. out.rows = rows /\ out.start = c + 1 /\ out.items = AppendHistoryEvent(<<>>, kind, c + 1)
    BY <1>2, <1>4, <1>6, <1>7, <2>1 DEF Take
  <2>5. Apart(rows, c + 1)
    <3> SUFFICES ASSUME NEW k \in Seqs, rows[k].body # None
                 PROVE  k < c + 1 /\ \A x \in rows[k].body.items : x.end < c + 1
      BY DEF Apart, RowApart
    <3>1. k <= c /\ \A x \in rows[k].body.items : x.end <= c
      BY <2>2 DEF EndsBy
    <3>2. k \in Nat /\ rows[k] \in Rows
      BY <2>3, StreamAssumption DEF Seqs
    <3>3. \A x \in rows[k].body.items : x.end \in Nat
      BY <3>2 DEF Rows, Bodies, LogItems
    <3> QED  BY <3>1, <3>2, <3>3
  <2>6. KindsOk(out.items, L)
    <3>0. <<>> \in Seq(LogItems)
      OBVIOUS
    <3>1. PICK m \in Seq(LogItems) : m = <<>>
      BY <3>0
    <3>2. DOMAIN m = {}
      BY <3>1
    <3>3. Covers(m, e, c) /\ KindsOk(m, L)
      BY <1>2, <3>2 DEF Covers, KindsOk
    <3>4. KindsOk(AppendHistoryEvent(m, kind, c + 1), L)
      BY <1>6, <3>3, AppendKinds
    <3> QED  BY <2>4, <3>1, <3>4
  <2>7. (c + 1) - 1 = c
    OBVIOUS
  <2>8. BlockOk(out.rows, out.start, out.items, L)
    BY <1>5, <2>2, <2>4, <2>5, <2>6, <2>7 DEF BlockOk
  <2> QED  BY <1>4, <1>5, <2>8 DEF ConversationOk
<1>8. CASE ~(event.kind \in Boundaries /\ st.items # <<>>)
  <2>1. PICK m : m = AppendHistoryEvent(l, kind, c + 1)
    OBVIOUS
  <2>2. out = [st EXCEPT !.items = m]
    BY <1>2, <1>4, <1>6, <1>8, <2>1 DEF Take
  <2>3. out.rows = old /\ out.start = s /\ out.items = m
    BY <1>1, <1>2, <2>2
  <2>4. KindsOk(m, L)
    BY <1>3, <1>6, <2>1, AppendKinds
  <2>5. BlockOk(out.rows, out.start, out.items, L)
    BY <1>3, <1>5, <2>3, <2>4 DEF BlockOk
  <2> QED  BY <1>4, <1>5, <2>5 DEF ConversationOk
<1> QED  BY <1>7, <1>8

(* So does a commit, behind which every event is in one row.                *)
LEMMA RefreshBlock ==
    ASSUME NEW st, NEW c \in Nat, StoredOk(st, c), NEW events, NEW n \in Nat, n > 0, Len(events) = n,
           \A i \in 1..n : events[i].kind \in AllKinds /\ events[i].seq = c + i,
           c + n <= MaxEvents, NEW L, \A i \in 1..n : L[c + i] = events[i].kind, ConversationOk(st, L),
           NEW out, out = Refresh(st, events)
    PROVE  /\ ConversationOk(out, L) /\ Kept(st.rows, out.rows)
           /\ ShownUpTo(out.rows, L, c + n) /\ EndsBy(out.rows, c + n)
<1>0. PICK f : Through(f, st, events, n)
  BY RefreshIs
<1>1. /\ f[0] = st /\ \A i \in 1..n : f[i] = Take(f[i - 1], events[i])
      /\ Refresh(st, events) = [f[n] EXCEPT !.rows =
                                   SaveBlock(f[n].rows, f[n].start, f[n].items, Last(events).seq, TRUE)]
  BY <1>0 DEF Through
<1>2. MaxEvents \in Nat
  BY StreamAssumption
<1> DEFINE Good(i) == StoredOk(f[i], c + i) /\ ConversationOk(f[i], L) /\ Kept(st.rows, f[i].rows)
           Bad == {i \in 0..n : ~Good(i)}
<1>3. Bad = {}
  <2> SUFFICES ASSUME Bad # {} PROVE FALSE
    OBVIOUS
  <2>1. PICK i \in Bad : \A j \in Bad : i <= j
    BY Least, Bad \subseteq Nat
  <2>2. i # 0
    <3>1. Kept(st.rows, st.rows) /\ c + 0 = c
      BY DEF Kept
    <3>2. Good(0)
      BY <3>1, <1>1
    <3> QED  BY <3>2, <2>1
  <2>3. i \in 1..n /\ i - 1 \in 0..n /\ ~(i <= i - 1) /\ c + (i - 1) \in Nat /\ (c + (i - 1)) + 1 = c + i
    BY <2>1, <2>2
  <2>4. Good(i - 1)
    <3> HIDE DEF Good
    <3> QED  BY <2>1, <2>3
  <2>5. f[i] = Take(f[i - 1], events[i]) /\ events[i].kind \in AllKinds /\ events[i].seq = c + i /\ L[c + i] = events[i].kind
    BY <1>1, <2>3
  <2>6. StoredOk(f[i], c + i)
    BY <2>3, <2>4, <2>5, TakeOk
  <2>7. ConversationOk(f[i], L) /\ Kept(f[i - 1].rows, f[i].rows)
    <3>a. PICK d \in Nat : d = c + (i - 1)
      BY <2>3
    <3>b. PICK g, event : g = f[i - 1] /\ event = events[i]
      OBVIOUS
    <3>1. d = c + (i - 1) /\ g = f[i - 1] /\ event = events[i]
      BY <3>a, <3>b
    <3>2. /\ StoredOk(g, d) /\ d <= MaxEvents /\ event.kind \in AllKinds /\ event.seq = d + 1
          /\ L[d + 1] = event.kind /\ ConversationOk(g, L) /\ f[i] = Take(g, event)
      BY <1>2, <2>3, <2>4, <2>5, <3>1
    <3> QED  BY <3>1, <3>2, TakeBlock
  <2>8. Kept(st.rows, f[i].rows)
    BY <2>4, <2>7 DEF Kept
  <2> QED  BY <2>1, <2>6, <2>7, <2>8
<1>4. Good(n)
  BY <1>3
<1>5. Last(events).seq = c + n /\ c + n \in Nat /\ c + n > 0
  BY DEF Last
<1>6. PICK g : g = f[n]
  OBVIOUS
<1>7. StoredOk(g, c + n) /\ ConversationOk(g, L) /\ Kept(st.rows, g.rows)
  BY <1>4, <1>6
<1>8. out = [g EXCEPT !.rows = SaveBlock(g.rows, g.start, g.items, c + n, TRUE)]
  BY <1>1, <1>5, <1>6
<1>9. /\ g.rows \in [Seqs -> Rows] /\ g.start \in Nat /\ g.items \in Seq(LogItems) /\ 1 <= g.start
      /\ Covers(g.items, g.start, c + n) /\ g \in [rows : [Seqs -> Rows], start : Nat, items : Seq(LogItems)]
      /\ \A k \in Seqs : g.rows[k].block <= k
  BY <1>7 DEF StoredOk
<1>10. PICK old \in [Seqs -> Rows], s \in Nat, l \in Seq(LogItems), e \in Nat :
         old = g.rows /\ s = g.start /\ l = g.items /\ e = c + n
  BY <1>5, <1>9
<1>11. PICK rows : rows = SaveBlock(old, s, l, e, TRUE)
  OBVIOUS
<1>12. out.rows = rows /\ out.start = s /\ out.items = l
  BY <1>8, <1>9, <1>10, <1>11
<1>13. /\ BlockOk(old, s, l, L) /\ Covers(l, s, e) /\ 1 <= s /\ e <= MaxEvents /\ \A k \in Seqs : old[k].block <= k
       /\ RowsOk(old, s, l) /\ KindsOk(l, L) /\ Apart(old, s) /\ ShownUpTo(old, L, s - 1)
  BY <1>7, <1>9, <1>10 DEF ConversationOk, BlockOk
<1>14. RowsOk(rows, s, l) /\ Kept(old, rows)
  <2>1. PICK d \in Nat : d = e
    OBVIOUS
  <2>2. Covers(l, s, d) /\ RowsOk(old, s, l)
    BY <1>13, <2>1
  <2> QED  BY <1>11, <2>2, SaveRows
<1>15. Apart(rows, s) /\ ShownUpTo(rows, L, e) /\ EndsBy(rows, e)
  <2>1. BlockOk(old, s, l, L) /\ Covers(l, s, e) /\ 1 <= s /\ e <= MaxEvents /\ \A k \in Seqs : old[k].block <= k
    BY <1>13
  <2> QED  BY <1>11, <2>1, SaveShows
<1>16. ShownUpTo(rows, L, s - 1)
  <2>1. s <= e + 1
    BY <1>13 DEF Covers
  <2>2. 1..(s - 1) \subseteq 1..e
    BY <2>1
  <2> QED  BY <1>15, <2>2 DEF ShownUpTo
<1>17. ConversationOk(out, L)
  BY <1>12, <1>13, <1>14, <1>15, <1>16 DEF ConversationOk, BlockOk
<1>18. Kept(st.rows, rows)
  BY <1>7, <1>10, <1>14 DEF Kept
<1> QED  BY <1>10, <1>12, <1>15, <1>17, <1>18


(* What is said of the log up to a cursor holds for a longer log.           *)
LEMMA LogGrows ==
    ASSUME NEW st, NEW c \in Nat, StoredOk(st, c), NEW L, NEW M, \A e \in 1..c : M[e] = L[e], ConversationOk(st, L)
    PROVE  ConversationOk(st, M)
<1>1. /\ st.start \in Nat /\ st.items \in Seq(LogItems) /\ Covers(st.items, st.start, c) /\ 1 <= st.start
  BY DEF StoredOk
<1>2. PICK s \in Nat, l \in Seq(LogItems) : s = st.start /\ l = st.items
  BY <1>1
<1>3. /\ RowsOk(st.rows, s, l) /\ KindsOk(l, L) /\ Apart(st.rows, s) /\ ShownUpTo(st.rows, L, s - 1)
      /\ 1 <= s /\ s <= c + 1 /\ \A i \in DOMAIN l : s <= l[i].key /\ l[i].end <= c
  BY <1>1, <1>2 DEF ConversationOk, BlockOk, Covers
<1>4. KindsOk(l, M)
  <2> SUFFICES ASSUME NEW i \in DOMAIN l, NEW e \in Nat, l[i].key <= e, e <= l[i].end PROVE M[e] = l[i].kind
    BY DEF KindsOk
  <2>1. L[e] = l[i].kind
    BY <1>3 DEF KindsOk
  <2>2. e \in 1..c
    BY <1>3, ItemFields
  <2> QED  BY <2>1, <2>2
<1>5. ShownUpTo(st.rows, M, s - 1)
  <2>1. \A e \in 1..(s - 1) : e \in 1..c
    BY <1>3
  <2> QED  BY <1>3, <2>1 DEF ShownUpTo
<1> QED  BY <1>2, <1>3, <1>4, <1>5 DEF ConversationOk, BlockOk

(* The invariant of the stored conversation.                                *)
ShownOk ==
    /\ ConversationOk(stored, log) /\ ShownUpTo(stored.rows, log, Cursor)
    /\ stored.rows[1].body # None

(* The conversation of the task as it is created.                           *)
LEMMA ShownInit == Init => ShownOk
<1> SUFFICES ASSUME Init PROVE ShownOk
  OBVIOUS
<1> DEFINE st == [rows |-> [k \in Seqs |-> NoRow], start |-> 1, items |-> <<>>]
           events == <<[kind |-> "reset", seq |-> 1]>>
           L == <<"reset">>
<1>0. NoRow \in Rows /\ NoRow.revision = 0 /\ NoRow.block = 0 /\ NoRow.body = None
  BY DEF NoRow, Rows
<1>00. MaxEvents \in Nat /\ MaxEvents > 0
  BY StreamAssumption
<1>1. StoredOk(st, 0)
  <2>2. Covers(<<>>, 1, 0)
    BY DEF Covers
  <2> QED  BY <1>0, <2>2 DEF StoredOk, Seqs
<1>2. ConversationOk(st, L)
  <2>1. \A k \in Seqs : st.rows[k] = NoRow
    OBVIOUS
  <2>2. DOMAIN st.items = {} /\ st.start = 1
    OBVIOUS
  <2> HIDE DEF st, L
  <2>3. RowsOk(st.rows, st.start, st.items) /\ Apart(st.rows, st.start)
    BY <1>0, <2>1, <2>2 DEF RowsOk, RowOk, Apart, RowApart
  <2>4. KindsOk(st.items, L) /\ ShownUpTo(st.rows, L, st.start - 1)
    BY <2>2 DEF KindsOk, ShownUpTo
  <2> QED  BY <2>3, <2>4 DEF ConversationOk, BlockOk
<1>3. Len(events) = 1 /\ \A i \in 1..1 : events[i].kind \in AllKinds /\ events[i].seq = 0 + i /\ L[0 + i] = events[i].kind
  BY DEF AllKinds
<1>4. stored = Refresh(st, events) /\ log = L /\ Cursor = 1 /\ L[1] \in ShownKinds
  BY DEF Init, Created, Cursor, ShownKinds
<1> HIDE DEF st, events, L
<1>5. PICK c \in Nat, n \in Nat : c = 0 /\ n = 1
  OBVIOUS
<1>6. /\ StoredOk(st, c) /\ n > 0 /\ Len(events) = n /\ c + n <= MaxEvents
      /\ \A i \in 1..n : events[i].kind \in AllKinds /\ events[i].seq = c + i
      /\ \A i \in 1..n : L[c + i] = events[i].kind
  BY <1>00, <1>1, <1>3, <1>5
<1>7. ConversationOk(stored, L) /\ ShownUpTo(stored.rows, L, c + n) /\ EndsBy(stored.rows, c + n)
  BY <1>2, <1>4, <1>6, RefreshBlock
<1>8. stored.rows[1].body # None
  <2>1. PICK k \in Seqs : stored.rows[k].body # None
    BY <1>4, <1>5, <1>7 DEF ShownUpTo, Once, Holds
  <2>2. k = 1
    BY <1>00, <1>5, <1>7, <2>1 DEF EndsBy, Seqs
  <2> QED  BY <2>1, <2>2
<1> QED  BY <1>4, <1>5, <1>7, <1>8 DEF ShownOk

(* A commit keeps it and takes no row away.                                 *)
LEMMA ShownCommit == FollowOk /\ ShownOk /\ Commit => ShownOk' /\ Kept(stored.rows, stored'.rows)
<1> SUFFICES ASSUME FollowOk, ShownOk, Commit PROVE ShownOk' /\ Kept(stored.rows, stored'.rows)
  OBVIOUS
<1>0. Cursor \in Nat /\ Cursor > 0 /\ log \in Seq(AllKinds) /\ StoredOk(stored, Cursor)
  BY DEF FollowOk, ServerOk
<1>1. PICK n \in 1..MaxBatch : \E batch \in [1..n -> workload \intersect AllKinds] : AppendEvents(batch)
  BY DEF Commit
<1>2. PICK batch \in [1..n -> workload \intersect AllKinds] : AppendEvents(batch)
  BY <1>1
<1>3. n \in Nat /\ n > 0
  BY <1>1, StreamAssumption
<1>4. batch \in Seq(AllKinds) /\ Len(batch) = n /\ DOMAIN batch = 1..n
  BY <1>3
<1>5. PICK L : L = log'
  OBVIOUS
<1>6. L = log \o batch /\ Cursor + n <= MaxEvents
  BY <1>2, <1>4, <1>5 DEF AppendEvents
<1>7. PICK c \in Nat : c = Cursor
  BY <1>0
<1>8. Len(L) = c + n /\ (\A e \in 1..c : L[e] = log[e]) /\ \A i \in 1..n : L[c + i] = batch[i]
  <2>1. PICK a \in Seq(AllKinds), b \in Seq(AllKinds) : a = log /\ b = batch
    BY <1>0, <1>4
  <2>2. Len(a) = c /\ Len(b) = n /\ L = a \o b
    BY <1>4, <1>6, <1>7, <2>1 DEF Cursor
  <2>3. /\ Len(a \o b) = Len(a) + Len(b) /\ (\A e \in 1..Len(a) : (a \o b)[e] = a[e])
        /\ \A i \in 1..Len(b) : (a \o b)[Len(a) + i] = b[i]
    OBVIOUS
  <2> QED  BY <2>1, <2>2, <2>3
<1>9. PICK events : events = Numbered(batch)
  OBVIOUS
<1>10. /\ Len(events) = n /\ \A i \in 1..n : events[i].kind \in AllKinds /\ events[i].seq = c + i
       /\ \A i \in 1..n : L[c + i] = events[i].kind
  BY <1>3, <1>4, <1>7, <1>8, <1>9 DEF Numbered
<1>11. PICK out : out = stored'
  OBVIOUS
<1>12. out = Refresh(stored, events) /\ Cursor' = c + n
  BY <1>2, <1>5, <1>8, <1>9, <1>11 DEF AppendEvents, Cursor
<1>13. StoredOk(stored, c) /\ ConversationOk(stored, L) /\ c + n <= MaxEvents
  <2>1. ConversationOk(stored, log) /\ StoredOk(stored, c)
    BY <1>0, <1>7 DEF ShownOk
  <2>2. ConversationOk(stored, L)
    BY <1>8, <2>1, LogGrows
  <2> QED  BY <1>6, <1>7, <2>1, <2>2
<1>14. ConversationOk(out, L) /\ Kept(stored.rows, out.rows) /\ ShownUpTo(out.rows, L, c + n)
  <2>1. PICK st : st = stored
    OBVIOUS
  <2>2. ConversationOk(out, L) /\ Kept(st.rows, out.rows) /\ ShownUpTo(out.rows, L, c + n)
    BY <1>3, <1>10, <1>12, <1>13, <2>1, RefreshBlock
  <2> QED  BY <2>1, <2>2
<1>15. out.rows[1].body # None
  BY StreamAssumption, <1>14 DEF Kept, ShownOk, Seqs
<1> QED  BY <1>5, <1>11, <1>12, <1>14, <1>15 DEF ShownOk

(* Every step keeps it.                                                     *)
LEMMA ShownNext == FollowOk /\ ShownOk /\ [Next]_vars => ShownOk'
<1>1. ShownOk /\ UNCHANGED server => ShownOk'
  BY DEF ShownOk, server, Cursor
<1>2. [Next]_vars => Commit \/ UNCHANGED server
  BY DEF Next, vars, server, Accept, Disconnect, Receive, ProjectionTimer, RetryTimer, CatchupAnswered, CatchupFails,
         CatchupApplies, Publish, LoadEarlier, EarlierAnswered, EarlierArrives, EarlierFails, LoadFirst, Return, Leave, Prune
<1> QED  BY <1>1, <1>2, ShownCommit

(* Every event that is shown is shown once.                                 *)
LEMMA ShownImplies == FollowOk /\ ShownOk => EveryEventShown
<1> SUFFICES ASSUME FollowOk, ShownOk, NEW i \in DOMAIN log, log[i] \in ShownKinds
             PROVE  Cardinality({k \in Visible : \E x \in stored.rows[k].body.items : x.key <= i /\ i <= x.end}) = 1
  BY DEF EveryEventShown, ShownKinds
<1>1. log \in Seq(AllKinds) /\ Cursor = Len(log)
  BY DEF FollowOk, ServerOk, Cursor
<1>2. i \in 1..Cursor
  BY <1>1
<1>3. PICK k \in Seqs : Holds(stored.rows[k], i) /\ \A j \in Seqs : Holds(stored.rows[j], i) => j = k
  BY <1>2 DEF ShownOk, ShownUpTo, Once
<1>4. {j \in Visible : \E x \in stored.rows[j].body.items : x.key <= i /\ i <= x.end} = {k}
  BY <1>3 DEF Visible, Holds, Has
<1> QED  BY <1>4, FS_Singleton

(* Everything the agent or the user said or did is in exactly one row.      *)
THEOREM ShownInvariant == Spec => []EveryEventShown
<1>1. Spec => [](FollowOk /\ ShownOk)
  BY FollowInit, FollowNext, ShownInit, ShownNext, PTL DEF Spec
<1> QED  BY <1>1, ShownImplies, PTL

-----------------------------------------------------------------------------
(* The cursor of the client.                                                *)

(* What a client knows of a row: it has not changed since the cursor, or it *)
(* is one of the rows of the next revision that have come already.          *)
SeenBy(row, k, cursor, q) ==
    \/ row.revision <= cursor
    \/ q # None /\ q.afterKey # 0 /\ row.revision = q.after /\ k <= q.afterKey
Shown(X, row, k) == \E x \in X : x.key = k /\ x.revision = row.revision
Loaded(X, low, high, rows, cursor, q) ==
    \A k \in Seqs : rows[k].body # None /\ SeenBy(rows[k], k, cursor, q) /\ low <= k /\ k < high => Shown(X, rows[k], k)
ItemsTrue(X, rows) == \A x \in X : x.key \in Seqs /\ x.revision <= rows[x.key].revision

(* The pages lie one behind the other, and the row where one begins is in   *)
(* it or behind it.                                                         *)
Begun(ps, i) == \E j \in DOMAIN ps : i <= j /\ \E x \in ps[j].items : x.key = Larger(ps[i].before, 1)
PagesTrue(ps, rows) ==
    /\ \A i, j \in DOMAIN ps : i < j => /\ ps[i].before <= ps[j].before
                                        /\ \A x \in ps[i].items : x.key < ps[j].before
    /\ \A i \in DOMAIN ps : Begun(ps, i)
    /\ ItemsTrue(ItemsOfPages(ps), rows)

(* An earlier page under way ends where the pages begin.                    *)
EarlierTrue(o, ps, rows, cursor, q) ==
    /\ o.before = ps[1].before /\ o.before # 0
    /\ o.answer # None =>
         /\ o.answer.before < o.before /\ ItemsTrue(o.answer.items, rows)
         /\ \A x \in o.answer.items : x.key < o.before
         /\ \/ \E x \in o.answer.items : x.key = Larger(o.answer.before, 1)
            \/ o.answer.before = 0 /\ o.before = 1
         /\ Loaded(o.answer.items, o.answer.before, o.before, rows, cursor, q)

(* The answer to a request has every row it was asked for up to where the   *)
(* next request begins, unless the row has changed again.                   *)
Asked(row, k, q) ==
    \/ row.revision > q.after /\ row.revision <= q.through
    \/ q.afterKey # 0 /\ row.revision = q.after /\ row.revision > 0 /\ k > q.afterKey
Answered(row, k, a) ==
    a.nextKey = 0 \/ row.revision < a.nextAfter \/ (row.revision = a.nextAfter /\ k <= a.nextKey)
PatchTrue(p, q, rows) ==
    /\ p.key \in Seqs /\ p.revision <= rows[p.key].revision /\ q.after <= p.revision
    /\ p.item # None /\ p.item.key = p.key /\ p.item.revision = p.revision /\ p.key <= p.item.end
PatchesTrue(q, rows) ==
    /\ \A p \in q.answer.patches : PatchTrue(p, q, rows)
    /\ \A k \in Seqs : Asked(rows[k], k, q) /\ Answered(rows[k], k, q.answer) =>
          \E p \in q.answer.patches : p.key = k /\ p.revision = rows[k].revision

Ask == IF reader = None THEN None ELSE reader.catchup
High == MaxEvents + 1
TrueOk ==
    /\ format = "transcript" /\ pages # <<>> =>
         /\ PagesTrue(pages, stored.rows)
         /\ Loaded(ItemsOfPages(pages), pages[1].before, High, stored.rows, Last(pages).cursor, Ask)
    /\ older # None => EarlierTrue(older, pages, stored.rows, Last(pages).cursor, Ask)
    /\ format = "transcript" /\ Ask # None => (Ask.answer # None => PatchesTrue(Ask, stored.rows))

(* It is what the cursor promises.                                          *)
LEMMA TrueImplies == FollowOk /\ ShownOk /\ TrueOk => CursorIsTruthful
<1> SUFFICES ASSUME FollowOk, ShownOk, TrueOk, pages # <<>>
             PROVE  IF format = "events" THEN Last(pages).items = [i \in 1..Applied |-> i]
                    ELSE \A k \in Seqs :
                            stored.rows[k].revision \in 1..Applied /\ k >= pages[1].before =>
                               {x.revision : x \in {y \in Retained(pages) : y.key = k}}
                                 = IF stored.rows[k].body = None THEN {} ELSE {stored.rows[k].revision}
  BY DEF CursorIsTruthful
<1>1. Applied = Last(pages).cursor
  BY DEF Applied, FollowOk, ClientOk
<1>2. CASE format = "events"
  <2>1. pages \in Seq(EventPages) /\ Len(pages) <= 1 /\ pages[1].items = [i \in 1..pages[1].cursor |-> i]
    BY <1>2 DEF FollowOk, TypesOk, PagesOk
  <2>2. Len(pages) = 1
    <3>1. pages \in Seq(EventPages) /\ pages # <<>>
      BY <2>1
    <3>2. Len(pages) \in Nat /\ Len(pages) # 0
      BY <3>1
    <3>3. Len(pages) <= 1
      BY <2>1
    <3> QED  BY <3>2, <3>3
  <2>3. Last(pages) = pages[1]
    BY <2>2 DEF Last
  <2> QED  BY <1>1, <1>2, <2>1, <2>3
<1>3. CASE format # "events"
  <2>1. format = "transcript" /\ pages \in Seq(Pages)
    BY <1>3, StreamAssumption DEF FollowOk, TypesOk
  <2> SUFFICES ASSUME NEW k \in Seqs, stored.rows[k].revision \in 1..Applied, k >= pages[1].before
               PROVE  {x.revision : x \in {y \in Retained(pages) : y.key = k}}
                         = IF stored.rows[k].body = None THEN {} ELSE {stored.rows[k].revision}
    BY <1>3
  <2>2. /\ PagesTrue(pages, stored.rows)
        /\ Loaded(ItemsOfPages(pages), pages[1].before, High, stored.rows, Last(pages).cursor, Ask)
    BY <2>1 DEF TrueOk
  <2>3. ServerOk
    BY DEF FollowOk
  <2>4. /\ stored.rows[k].revision \in Nat /\ k \in Nat /\ k < High /\ MaxEvents \in Nat
        /\ stored.rows[k].revision <= Last(pages).cursor
        /\ stored.rows[k].revision # 0
    BY <1>1, <2>3, StoredFields DEF High
  <2>5. stored.rows[k].body # None
    BY <2>4 DEF ShownOk, ConversationOk, BlockOk, RowsOk, RowOk
  <2>6. PICK rev \in Nat : rev = stored.rows[k].revision
    BY <2>4
  <2>7. PICK all : all = ItemsOfPages(pages)
    OBVIOUS
  <2>8. pages[1].before \in Nat /\ all \subseteq Items
    <3>1. Len(pages) > 0 /\ \A i \in DOMAIN pages : pages[i] \in Pages
      BY <2>1
    <3>2. 1 \in DOMAIN pages
      BY <2>1, <3>1
    <3> QED  BY <2>7, <3>1, <3>2 DEF Pages, ItemsOfPages
  <2>9. PICK x \in all : x.key = k /\ x.revision = rev
    BY <2>2, <2>4, <2>5, <2>6, <2>7, <2>8 DEF Loaded, SeenBy, Shown
  <2>10. \A y \in all : y.revision \in Nat /\ (y.key = k => y.revision <= rev)
    BY <2>2, <2>6, <2>7, <2>8 DEF PagesTrue, ItemsTrue, Items
  <2>11. Retained(pages) = {y \in all : \A z \in all : z.key = y.key => z.revision <= y.revision}
    BY <2>7 DEF Retained
  <2>12. x \in Retained(pages)
    BY <2>9, <2>10, <2>11
  <2>13. \A y \in Retained(pages) : y.key = k => y.revision = rev
    BY <2>9, <2>10, <2>11
  <2>14. {y.revision : y \in {z \in Retained(pages) : z.key = k}} = {rev}
    BY <2>9, <2>12, <2>13
  <2> QED  BY <2>5, <2>6, <2>14
<1> QED  BY <1>2, <1>3

(* The rows after a commit: those that changed have a later revision.       *)
Grown(rows, new, c) ==
    \A k \in Seqs : /\ rows[k].revision \in Nat /\ new[k].revision \in Nat /\ rows[k].revision <= c
                    /\ new[k] = rows[k] \/ c < new[k].revision

(* Nothing that the client knows is touched by that.                        *)
LEMMA LoadedStays ==
    ASSUME NEW rows, NEW new, NEW c \in Nat, Grown(rows, new, c), NEW X, NEW low, NEW high, NEW cursor \in Nat, cursor <= c,
           NEW q, q # None => q.after \in Nat /\ q.after <= c, Loaded(X, low, high, rows, cursor, q)
    PROVE  Loaded(X, low, high, new, cursor, q)
<1> SUFFICES ASSUME NEW k \in Seqs, new[k].body # None, SeenBy(new[k], k, cursor, q), low <= k, k < high
             PROVE  Shown(X, new[k], k)
  BY DEF Loaded
<1>1. new[k] = rows[k]
  BY DEF Grown, SeenBy
<1> QED  BY <1>1 DEF Loaded

(* An item is no newer than its row, still.                                 *)
LEMMA ItemsStay ==
    ASSUME NEW rows, NEW new, NEW c \in Nat, Grown(rows, new, c), NEW X, X \subseteq Items, ItemsTrue(X, rows)
    PROVE  ItemsTrue(X, new)
<1> SUFFICES ASSUME NEW x \in X PROVE x.key \in Seqs /\ x.revision <= new[x.key].revision
  BY DEF ItemsTrue
<1>1. x.key \in Seqs /\ x.revision <= rows[x.key].revision /\ x.revision \in Nat
  BY DEF ItemsTrue, Items
<1>2. PICK k \in Seqs : k = x.key
  BY <1>1
<1>3. /\ rows[k].revision \in Nat /\ new[k].revision \in Nat /\ rows[k].revision <= c
      /\ new[k] = rows[k] \/ c < new[k].revision
  BY DEF Grown
<1>4. rows[k].revision <= new[k].revision
  BY <1>3
<1> QED  BY <1>1, <1>2, <1>3, <1>4

(* The answer to a request has what it had to have, still.                  *)
LEMMA PatchesStay ==
    ASSUME NEW rows, NEW new, NEW c \in Nat, Grown(rows, new, c), NEW q \in Requests, q.answer # None,
           q.after <= c, q.through <= c, PatchesTrue(q, rows)
    PROVE  PatchesTrue(q, new)
<1>0. q.after \in Nat /\ q.through \in Nat /\ q.answer \in Answers
  BY DEF Requests
<1>1. ASSUME NEW p \in q.answer.patches PROVE PatchTrue(p, q, new)
  <2>1. PatchTrue(p, q, rows) /\ p.revision \in Nat
    BY <1>0 DEF PatchesTrue, Answers, Patches
  <2>2. PICK k \in Seqs : k = p.key
    BY <2>1 DEF PatchTrue
  <2>3. /\ rows[k].revision \in Nat /\ new[k].revision \in Nat /\ rows[k].revision <= c
        /\ new[k] = rows[k] \/ c < new[k].revision
    BY DEF Grown
  <2>4. p.revision <= rows[k].revision
    BY <2>1, <2>2 DEF PatchTrue
  <2>5. p.revision <= new[k].revision
    BY <2>1, <2>3, <2>4
  <2> QED  BY <2>1, <2>2, <2>5 DEF PatchTrue
<1>2. ASSUME NEW k \in Seqs, Asked(new[k], k, q), Answered(new[k], k, q.answer)
      PROVE  \E p \in q.answer.patches : p.key = k /\ p.revision = new[k].revision
  <2>1. new[k] = rows[k]
    BY <1>0, <1>2 DEF Grown, Asked
  <2> QED  BY <1>2, <2>1 DEF PatchesTrue
<1> QED  BY <1>1, <1>2 DEF PatchesTrue

(* The values of the client.                                                *)
LEMMA ClientFields ==
    ASSUME FollowOk
    PROVE  /\ Cursor \in Nat /\ format \in {"transcript", "events"} /\ (format = "events" => older = None)
           /\ Ask # None => /\ reader # None /\ reader \in Readers /\ Ask = reader.catchup /\ Ask \in Requests
                            /\ Ask.after \in Nat /\ Ask.through \in Nat /\ Ask.afterKey \in Nat
                            /\ Ask.after <= Cursor /\ Ask.through <= Cursor /\ Ask.after <= Ask.through
                            /\ RequestOk(Ask, reader, format) /\ reader.applied = Last(pages).cursor
           /\ format = "transcript" => pages \in Seq(Pages)
           /\ format = "transcript" /\ pages # <<>> =>
                 /\ Len(pages) \in Nat /\ Len(pages) > 0 /\ DOMAIN pages = 1..Len(pages) /\ 1 \in DOMAIN pages
                 /\ (\A i \in DOMAIN pages : pages[i] \in Pages /\ pages[i].before \in Nat)
                 /\ Last(pages) = pages[Len(pages)] /\ Last(pages).cursor \in Nat /\ Last(pages).cursor <= Cursor
                 /\ ItemsOfPages(pages) \subseteq Items
           /\ older # None => /\ reader # None /\ pages # <<>> /\ format = "transcript" /\ older \in Earlier
                              /\ older.captured = pages /\ older.before \in Nat
                              /\ older.answer # None => /\ older.answer \in Pages /\ older.answer.before \in Nat
                                                        /\ older.answer.items \subseteq Items
<1>1. Cursor \in Nat /\ format \in {"transcript", "events"} /\ (format = "transcript" => pages \in Seq(Pages))
  BY PageFields, StoredFields DEF FollowOk
<1>2. older # None => /\ reader # None /\ pages # <<>> /\ format = "transcript" /\ older \in Earlier
                      /\ older.captured = pages
  BY DEF FollowOk, TypesOk, PagesOk, ClientOk
<1>3. older # None => /\ older.before \in Nat
                      /\ older.answer # None => /\ older.answer \in Pages /\ older.answer.before \in Nat
                                                /\ older.answer.items \subseteq Items
  BY <1>2 DEF Earlier, Pages
<1>4. ASSUME Ask # None
      PROVE  /\ reader # None /\ reader \in Readers /\ Ask = reader.catchup /\ Ask \in Requests
             /\ Ask.after \in Nat /\ Ask.through \in Nat /\ Ask.afterKey \in Nat
             /\ Ask.after <= Cursor /\ Ask.through <= Cursor /\ Ask.after <= Ask.through
             /\ RequestOk(Ask, reader, format) /\ reader.applied = Last(pages).cursor
  <2>1. reader # None /\ Ask = reader.catchup
    BY <1>4 DEF Ask
  <2>2. /\ reader \in Readers /\ ReaderOk(reader, format, Cursor) /\ reader.applied = Last(pages).cursor
    BY <2>1, WriterFields DEF FollowOk, ClientOk
  <2>3. reader.catchup \in Requests /\ reader.target \in Nat
    BY <1>4, <2>1, <2>2, ReaderFields
  <2>4. PICK q \in Requests : q = Ask
    BY <2>1, <2>3
  <2>5. /\ RequestOk(q, reader, format) /\ reader.target <= Cursor
    BY <1>4, <2>1, <2>2, <2>4 DEF ReaderOk, CursorsOk
  <2>6. q.after \in Nat /\ q.through \in Nat /\ q.afterKey \in Nat
    BY DEF Requests
  <2>7. q.after <= q.through /\ q.through <= reader.target
    BY <2>5 DEF RequestOk
  <2>8. q.after <= Cursor /\ q.through <= Cursor
    BY <1>1, <2>3, <2>5, <2>6, <2>7
  <2> QED  BY <2>1, <2>2, <2>4, <2>5, <2>6, <2>7, <2>8
<1>5. ASSUME format = "transcript", pages # <<>>
      PROVE  /\ Len(pages) \in Nat /\ Len(pages) > 0 /\ DOMAIN pages = 1..Len(pages) /\ 1 \in DOMAIN pages
             /\ (\A i \in DOMAIN pages : pages[i] \in Pages /\ pages[i].before \in Nat)
             /\ Last(pages) = pages[Len(pages)] /\ Last(pages).cursor \in Nat /\ Last(pages).cursor <= Cursor
             /\ ItemsOfPages(pages) \subseteq Items
  <2>1. /\ Len(pages) \in Nat /\ Len(pages) > 0 /\ DOMAIN pages = 1..Len(pages) /\ \A i \in 1..Len(pages) : pages[i] \in Pages
    BY <1>1, <1>5, SeqFields
  <2>2. 1 \in DOMAIN pages /\ Len(pages) \in DOMAIN pages
    BY <2>1
  <2>3. \A i \in DOMAIN pages : pages[i] \in Pages /\ pages[i].before \in Nat /\ pages[i].cursor \in Nat /\ pages[i].items \subseteq Items
    BY <2>1 DEF Pages
  <2>4. Last(pages) = pages[Len(pages)]
    BY DEF Last
  <2>5. \A i \in DOMAIN pages : pages[i].cursor <= Cursor
    BY DEF FollowOk, PagesOk
  <2>6. ItemsOfPages(pages) \subseteq Items
    BY <2>3 DEF ItemsOfPages
  <2> QED  BY <2>1, <2>2, <2>3, <2>4, <2>5, <2>6
<1>6. format = "events" => older = None
  BY <1>2
<1> QED  BY <1>1, <1>2, <1>3, <1>4, <1>5, <1>6

(* A commit.                                                                *)
LEMMA TrueCommit == FollowOk /\ TrueOk /\ Commit => TrueOk'
<1> SUFFICES ASSUME FollowOk, TrueOk, Commit PROVE TrueOk'
  OBVIOUS
<1>1. /\ ServerOk' /\ Revised(stored.rows, stored'.rows, Cursor, Cursor')
      /\ UNCHANGED <<format, pages, reader, older>>
  BY CommitServer
<1>2. PICK c \in Nat : c = Cursor
  BY ClientFields
<1>3. PICK rows, new : rows = stored.rows /\ new = stored'.rows
  OBVIOUS
<1>4. Grown(rows, new, c)
  <2>1. \A k \in Seqs : rows[k].revision \in Nat /\ rows[k].revision <= c
    BY <1>2, <1>3, StoredFields DEF FollowOk
  <2>2. \A k \in Seqs : new[k].revision \in Nat
    <3>1. new \in [Seqs -> Rows]
      BY <1>1, <1>3 DEF ServerOk, StoredOk
    <3> QED  BY <3>1 DEF Rows
  <2>3. \A k \in Seqs : new[k] = rows[k] \/ c < new[k].revision
    BY <1>1, <1>2, <1>3 DEF Revised
  <2> QED  BY <2>1, <2>2, <2>3 DEF Grown
<1>5. Ask' = Ask
  BY <1>1 DEF Ask
<1>6. PICK q : q = Ask
  OBVIOUS
<1>7. q # None => q \in Requests /\ q.after \in Nat /\ q.after <= c /\ q.through <= c
  BY <1>2, <1>6, ClientFields
<1>8. ASSUME format = "transcript", pages # <<>>
      PROVE  /\ PagesTrue(pages, new)
             /\ Loaded(ItemsOfPages(pages), pages[1].before, High, new, Last(pages).cursor, q)
  <2>1. /\ PagesTrue(pages, rows) /\ Last(pages).cursor \in Nat /\ Last(pages).cursor <= c
        /\ Loaded(ItemsOfPages(pages), pages[1].before, High, rows, Last(pages).cursor, q)
        /\ ItemsOfPages(pages) \subseteq Items
    BY <1>2, <1>3, <1>6, <1>8, ClientFields DEF TrueOk
  <2>2. Loaded(ItemsOfPages(pages), pages[1].before, High, new, Last(pages).cursor, q)
    BY <1>4, <1>7, <2>1, LoadedStays
  <2>3. ItemsTrue(ItemsOfPages(pages), new)
    BY <1>4, <2>1, ItemsStay DEF PagesTrue
  <2> QED  BY <2>1, <2>2, <2>3 DEF PagesTrue
<1>9. ASSUME older # None PROVE EarlierTrue(older, pages, new, Last(pages).cursor, q)
  <2>1. EarlierTrue(older, pages, rows, Last(pages).cursor, q) /\ Last(pages).cursor \in Nat /\ Last(pages).cursor <= c
    BY <1>2, <1>3, <1>6, <1>9, ClientFields DEF TrueOk
  <2>2. ASSUME older.answer # None
        PROVE  /\ ItemsTrue(older.answer.items, new)
               /\ Loaded(older.answer.items, older.answer.before, older.before, new, Last(pages).cursor, q)
    <3>1. /\ ItemsTrue(older.answer.items, rows) /\ older.answer.items \subseteq Items
          /\ Loaded(older.answer.items, older.answer.before, older.before, rows, Last(pages).cursor, q)
      BY <1>9, <2>1, <2>2, ClientFields DEF EarlierTrue
    <3>2. Loaded(older.answer.items, older.answer.before, older.before, new, Last(pages).cursor, q)
      BY <1>4, <1>7, <2>1, <3>1, LoadedStays
    <3>3. ItemsTrue(older.answer.items, new)
      BY <1>4, <3>1, ItemsStay
    <3> QED  BY <3>2, <3>3
  <2> QED  BY <2>1, <2>2 DEF EarlierTrue
<1>10. ASSUME format = "transcript", q # None, q.answer # None PROVE PatchesTrue(q, new)
  <2>1. PatchesTrue(q, rows)
    BY <1>3, <1>6, <1>10 DEF TrueOk
  <2> QED  BY <1>4, <1>7, <1>10, <2>1, PatchesStay
<1>11. format' = format /\ pages' = pages /\ older' = older /\ High' = High
  BY <1>1 DEF High
<1> QED  BY <1>3, <1>5, <1>6, <1>8, <1>9, <1>10, <1>11 DEF TrueOk

(* A request that goes on, ends or begins from the cursor: the client knows *)
(* no more than before.                                                     *)
Lesser(q, old) == q = old \/ q = None \/ (q.afterKey = 0 /\ q.answer = None)

(* Steps that leave the pages and the rows as they are.                     *)
LEMMA TrueRest ==
    ASSUME FollowOk, TrueOk, UNCHANGED <<stored, format, pages>>, older' = older \/ older' = None, Lesser(Ask', Ask)
    PROVE  TrueOk'
<1>1. PICK p, q : p = Ask' /\ q = Ask
  OBVIOUS
<1>2. PICK rows : rows = stored.rows
  OBVIOUS
<1>3. /\ stored'.rows = rows /\ format' = format /\ pages' = pages /\ High' = High
      /\ p = q \/ p = None \/ (p.afterKey = 0 /\ p.answer = None)
  BY <1>1, <1>2 DEF High, Lesser
<1>4. ASSUME NEW X, NEW low, NEW high, NEW cursor, Loaded(X, low, high, rows, cursor, q)
      PROVE  Loaded(X, low, high, rows, cursor, p)
  BY <1>3, <1>4 DEF Loaded, SeenBy
<1>5. ASSUME format = "transcript", pages # <<>>
      PROVE  /\ PagesTrue(pages, rows)
             /\ Loaded(ItemsOfPages(pages), pages[1].before, High, rows, Last(pages).cursor, p)
  BY <1>1, <1>2, <1>4, <1>5 DEF TrueOk
<1>6. ASSUME older # None PROVE EarlierTrue(older, pages, rows, Last(pages).cursor, p)
  <2>1. EarlierTrue(older, pages, rows, Last(pages).cursor, q)
    BY <1>1, <1>2, <1>6 DEF TrueOk
  <2> QED  BY <1>4, <2>1 DEF EarlierTrue
<1>7. ASSUME format = "transcript", p # None, p.answer # None PROVE PatchesTrue(p, rows)
  BY <1>1, <1>2, <1>3, <1>7 DEF TrueOk
<1> QED  BY <1>1, <1>3, <1>5, <1>6, <1>7 DEF TrueOk

(* beginCatchup asks from the cursor, or goes on.                           *)
LEMMA BeginLesser ==
    ASSUME NEW r \in Readers, NEW q, q = BeginCatchup(r)
    PROVE  q \in Readers /\ Lesser(q.catchup, r.catchup)
<1>1. r.applied \in Nat /\ r.target \in Nat
  BY ReaderFields
<1>2. PICK x : x = Request(r.applied, r.target, 0)
  OBVIOUS
<1>3. x.afterKey = 0 /\ x.answer = None
  BY <1>1, <1>2, RequestIs
<1>4. CASE r.catchup # None
  BY <1>4, BeginCatchupIs DEF Lesser
<1>5. CASE r.catchup = None /\ r.applied >= r.target
  BY <1>5, BeginCatchupIs DEF Lesser
<1>6. CASE r.catchup = None /\ r.applied < r.target
  <2>1. q \in Readers /\ q.catchup = x
    BY <1>2, <1>6, BeginCatchupIs
  <2> QED  BY <1>3, <2>1 DEF Lesser
<1> QED  BY <1>1, <1>4, <1>5, <1>6

(* With raw events there is nothing to say of rows.                         *)
LEMMA TrueEventsNext == FollowOk' /\ format' = "events" => TrueOk'
BY DEF TrueOk, FollowOk, PagesOk

(* The connection, the timers, the end of a request and coming and going.   *)
LEMMA TrueConnection == FollowOk /\ TrueOk /\ (Accept \/ Disconnect) => TrueOk'
<1> SUFFICES ASSUME FollowOk, TrueOk, Accept \/ Disconnect PROVE TrueOk'
  OBVIOUS
<1>1. UNCHANGED <<stored, format, pages, older, reader>>
  BY DEF Accept, Disconnect, server
<1>2. Lesser(Ask', Ask)
  BY <1>1 DEF Ask, Lesser
<1> QED  BY <1>1, <1>2, TrueRest

(* A frame arrives.                                                         *)
LEMMA TrueReceive == FollowOk /\ TrueOk /\ FollowOk' /\ Receive => TrueOk'
<1> SUFFICES ASSUME FollowOk, TrueOk, FollowOk', Receive PROVE TrueOk'
  OBVIOUS
<1>1. /\ reader # None /\ UNCHANGED <<stored, format, pages, older>> /\ reader \in Readers
      /\ Head(stream).seq \in Nat
  <2>1. reader # None /\ UNCHANGED <<stored, format, pages, older>>
    BY DEF Receive, server
  <2>2. reader \in Readers /\ stream \in Seq(Frames) /\ stream # <<>>
    BY ReceiveFields
  <2>3. Head(stream) \in Frames
    BY <2>2
  <2> QED  BY <2>1, <2>2, <2>3 DEF Frames
<1>2. CASE format = "events"
  BY <1>1, <1>2, TrueEventsNext
<1>3. CASE format # "events"
  <2>1. PICK frame, r : frame = Head(stream) /\ r = reader'
    OBVIOUS
  <2>2. ReceiveSnapshot(frame) \/ ReceiveChange(frame)
    BY <1>3, <2>1 DEF Receive, ReceiveEvent
  <2>3. r \in Readers /\ Lesser(r.catchup, reader.catchup)
    <3>1. CASE r = reader
      BY <1>1, <3>1 DEF Lesser
    <3>2. CASE ReceiveChange(frame)
      <4>1. r = [reader EXCEPT !.target = Larger(@, frame.seq), !.projection = TRUE]
        BY <2>1, <3>2 DEF ReceiveChange
      <4>2. Larger(reader.target, frame.seq) \in Nat
        BY <1>1, <2>1, ReaderFields DEF Larger
      <4>3. r \in Readers /\ r.catchup = reader.catchup
        BY <1>1, <4>1, <4>2 DEF Readers
      <4> QED  BY <4>3 DEF Lesser
    <3>3. CASE ReceiveSnapshot(frame) /\ r # reader
      <4>1. r = BeginCatchup([reader EXCEPT !.target = Larger(@, frame.seq), !.recovering = TRUE, !.overflow = FALSE])
        BY <2>1, <3>3 DEF ReceiveSnapshot
      <4>2. Larger(reader.target, frame.seq) \in Nat
        BY <1>1, <2>1, ReaderFields DEF Larger
      <4>3. PICK x : x = [reader EXCEPT !.target = Larger(@, frame.seq), !.recovering = TRUE, !.overflow = FALSE]
        OBVIOUS
      <4>4. x \in Readers /\ x.catchup = reader.catchup
        BY <1>1, <4>2, <4>3 DEF Readers
      <4>5. r \in Readers /\ Lesser(r.catchup, x.catchup)
        BY <4>1, <4>3, <4>4, BeginLesser
      <4> QED  BY <4>4, <4>5
    <3> QED  BY <2>2, <3>1, <3>2, <3>3
  <2>4. reader' # None
    BY <2>1, <2>3, NoneAssumption
  <2>5. Lesser(Ask', Ask)
    BY <1>1, <2>1, <2>3, <2>4 DEF Ask
  <2> QED  BY <1>1, <2>5, TrueRest
<1> QED  BY <1>2, <1>3

(* A timer of the effect.                                                   *)
LEMMA TrueTimer == FollowOk /\ TrueOk /\ (ProjectionTimer \/ RetryTimer) => TrueOk'
<1> SUFFICES ASSUME FollowOk, TrueOk, ProjectionTimer \/ RetryTimer PROVE TrueOk'
  OBVIOUS
<1>1. reader # None /\ UNCHANGED <<stored, format, pages, older>>
  BY DEF ProjectionTimer, RetryTimer, server
<1>2. reader \in Readers
  BY <1>1, WriterFields
<1>3. PICK r : /\ reader' = BeginCatchup(r)
               /\ r = [reader EXCEPT !.projection = FALSE] \/ r = [reader EXCEPT !.retry = FALSE]
  BY DEF ProjectionTimer, RetryTimer
<1>4. r \in Readers /\ r.catchup = reader.catchup
  <2>1. CASE r = [reader EXCEPT !.projection = FALSE]
    BY <1>2, <2>1 DEF Readers
  <2>2. CASE r = [reader EXCEPT !.retry = FALSE]
    BY <1>2, <2>2 DEF Readers
  <2> QED  BY <1>3, <2>1, <2>2
<1>5. PICK q : q = reader'
  OBVIOUS
<1>6. q \in Readers /\ Lesser(q.catchup, reader.catchup)
  BY <1>3, <1>4, <1>5, BeginLesser
<1>7. reader' # None
  BY <1>5, <1>6, NoneAssumption
<1>8. Lesser(Ask', Ask)
  BY <1>1, <1>5, <1>6, <1>7 DEF Ask
<1> QED  BY <1>1, <1>8, TrueRest

(* A request that fails.                                                    *)
LEMMA TrueFails == FollowOk /\ TrueOk /\ (CatchupFails \/ EarlierFails) => TrueOk'
<1> SUFFICES ASSUME FollowOk, TrueOk, CatchupFails \/ EarlierFails PROVE TrueOk'
  OBVIOUS
<1>1. reader # None /\ UNCHANGED <<stored, format, pages>> /\ (older' = older \/ older' = None)
  BY DEF CatchupFails, EarlierFails, server, FollowOk, ClientOk
<1>2. reader \in Readers
  BY <1>1, WriterFields
<1>3. PICK q : q = reader'
  OBVIOUS
<1>4. q \in Readers /\ (q.catchup = None \/ q.catchup = reader.catchup)
  <2>1. CASE CatchupFails
    <3>1. q = [reader EXCEPT !.catchup = None, !.retry = TRUE]
      BY <1>3, <2>1 DEF CatchupFails
    <3> QED  BY <1>2, <3>1 DEF Readers
  <2>2. CASE EarlierFails
    BY <1>2, <1>3, <2>2, ScheduleIs DEF EarlierFails
  <2> QED  BY <2>1, <2>2
<1>5. reader' # None
  BY <1>3, <1>4, NoneAssumption
<1>6. Lesser(Ask', Ask)
  BY <1>1, <1>3, <1>4, <1>5 DEF Ask, Lesser
<1> QED  BY <1>1, <1>6, TrueRest

(* Events are published.                                                    *)
LEMMA TruePublish == FollowOk /\ TrueOk /\ FollowOk' /\ Publish => TrueOk'
<1> SUFFICES ASSUME FollowOk, TrueOk, FollowOk', Publish PROVE TrueOk'
  OBVIOUS
<1>1. reader # None /\ UNCHANGED <<stored, format, older>>
  BY DEF Publish, server
<1>2. CASE format = "events"
  BY <1>1, <1>2, TrueEventsNext
<1>3. CASE format # "events"
  <2>1. reader \in Readers /\ ReaderOk(reader, "transcript", Cursor)
    BY <1>1, <1>3, WriterFields
  <2>2. reader.pending = {}
    BY <2>1 DEF ReaderOk, CursorsOk
  <2>3. pages' = pages
    <3>1. {s \in reader.pending : s > reader.applied} = {}
      BY <2>2
    <3> QED  BY <3>1 DEF Publish
  <2>4. reader' # None
    <3>0. reader.applied \in Nat /\ reader.received \in Nat
      BY <2>1, ReaderFields
    <3>1. CASE reader.recovering \/ ~MayWrite
      <4>1. reader' = [reader EXCEPT !.animation = FALSE]
        BY <3>1 DEF Publish
      <4>2. reader' \in Readers
        BY <2>1, <4>1 DEF Readers
      <4> QED  BY <4>2, NoneAssumption
    <3>2. CASE ~(reader.recovering \/ ~MayWrite)
      <4>1. PICK n : n = Max({s \in reader.pending : s > reader.applied} \union {reader.applied})
        OBVIOUS
      <4>2. {s \in reader.pending : s > reader.applied} \union {reader.applied} = {reader.applied}
        BY <2>2
      <4>3. n \in Nat
        <5>1. n = Max({reader.applied})
          BY <4>1, <4>2
        <5> QED  BY <3>0, <5>1, MaxOfTwo
      <4>4. reader' = [reader EXCEPT !.animation = FALSE, !.pending = {}, !.applied = n, !.received = Larger(@, n)]
        BY <3>2, <4>1 DEF Publish
      <4>5. Larger(reader.received, n) \in Nat
        BY <3>0, <4>3 DEF Larger
      <4>6. reader' \in Readers
        BY <2>1, <4>3, <4>4, <4>5 DEF Readers
      <4> QED  BY <4>6, NoneAssumption
    <3> QED  BY <3>1, <3>2
  <2>5. reader'.catchup = reader.catchup
    BY <2>1 DEF Publish, Readers
  <2>6. Lesser(Ask', Ask)
    BY <1>1, <2>4, <2>5 DEF Ask, Lesser
  <2> QED  BY <1>1, <2>3, <2>6, TrueRest
<1> QED  BY <1>2, <1>3

(* The reader comes back, or leaves.                                        *)
LEMMA TrueReturn == FollowOk /\ TrueOk /\ (Return \/ Leave) => TrueOk'
<1> SUFFICES ASSUME FollowOk, TrueOk, Return \/ Leave PROVE TrueOk'
  OBVIOUS
<1>1. UNCHANGED <<stored, format, pages>> /\ (older' = older \/ older' = None)
  BY DEF Return, Leave, server
<1>2. Ask' = None
  <2>1. CASE Return
    <3>1. reader' = Started(pages)
      BY <2>1 DEF Return
    <3>2. reader'.catchup = None
      BY <3>1 DEF Started
    <3> QED  BY <3>2 DEF Ask
  <2>2. CASE Leave
    BY <2>2 DEF Leave, Ask
  <2> QED  BY <2>1, <2>2
<1>3. Lesser(Ask', Ask)
  BY <1>2 DEF Lesser
<1> QED  BY <1>1, <1>3, TrueRest

(* A row that was revised is visible, and its item ends at it or later.     *)
LEMMA RevisedRows ==
    ASSUME FollowOk, ShownOk, NEW k \in Seqs, stored.rows[k].revision > 0
    PROVE  k \in Visible /\ k <= Item(k).end
<1>1. RowOk(stored.rows[k], k, stored.start, stored.items)
  BY DEF ShownOk, ConversationOk, BlockOk, RowsOk
<1>2. stored.rows[k].body # None
  BY <1>1 DEF RowOk
<1>3. k <= stored.rows[k].body.end
  BY <1>1, <1>2 DEF RowOk
<1> QED  BY <1>2, <1>3 DEF Visible, Item

(* The answer to a request for changes.                                     *)
LEMMA TrueAnswered == FollowOk /\ ShownOk /\ TrueOk /\ FollowOk' /\ CatchupAnswered => TrueOk'
<1> SUFFICES ASSUME FollowOk, ShownOk, TrueOk, FollowOk', CatchupAnswered PROVE TrueOk'
  OBVIOUS
<1>1. /\ reader # None /\ reader.catchup # None /\ reader.catchup.answer = None
      /\ reader' = [reader EXCEPT !.catchup.answer = Changes(reader.catchup)]
      /\ UNCHANGED <<stored, format, pages, older>>
  BY DEF CatchupAnswered, server
<1>2. CASE format = "events"
  BY <1>1, <1>2, TrueEventsNext
<1>3. CASE format # "events"
  <2>0. ServerOk /\ format = "transcript"
    BY <1>3, ClientFields DEF FollowOk
  <2>1. Ask = reader.catchup /\ Ask # None /\ Ask \in Requests
    BY <1>1, ClientFields DEF Ask
  <2>2. PICK q \in Requests : q = Ask
    BY <2>1
  <2>3. PICK a : a = Changes(reader.catchup)
    OBVIOUS
  <2>4. PICK p : p = [q EXCEPT !.answer = a]
    OBVIOUS
  <2>5. a \in Answers /\ \E page : AnswerOf(a, page, q.after, q.through, q.afterKey)
    BY <1>1, <2>0, <2>1, <2>2, <2>3, AnswerIs
  <2>6. /\ p \in Requests /\ p.after = q.after /\ p.through = q.through /\ p.afterKey = q.afterKey /\ p.answer = a
        /\ q.after \in Nat /\ q.through \in Nat /\ q.afterKey \in Nat
    BY <2>4, <2>5 DEF Requests
  <2>7. Ask' = p
    <3>1. reader \in Readers
      BY <1>1, WriterFields
    <3>2. reader' = [reader EXCEPT !.catchup = p]
      BY <1>1, <2>1, <2>2, <2>3, <2>4, <3>1
    <3>3. reader' \in Readers /\ reader'.catchup = p
      BY <2>6, <3>1, <3>2 DEF Readers
    <3> QED  BY <3>3, NoneAssumption DEF Ask
  <2>8. PICK rows : rows = stored.rows
    OBVIOUS
  <2>9. PatchesTrue(p, rows)
    <3>1. PICK page : AnswerOf(a, page, q.after, q.through, q.afterKey)
      BY <2>5
    <3>2. PICK changed : changed = Changed(q.after, q.through, q.afterKey)
      OBVIOUS
    <3>3. /\ page \subseteq changed /\ a.patches = {PatchOf(k) : k \in page}
          /\ a.nextKey = 0 => page = changed
          /\ a.nextKey # 0 => /\ a.nextAfter = rows[a.nextKey].revision
                              /\ \A k \in changed : k = a.nextKey \/ Precedes(rows, k, a.nextKey) => k \in page
      BY <2>8, <3>1, <3>2 DEF AnswerOf
    <3>4. \A k \in Seqs : k \in changed <=> Asked(rows[k], k, p)
      BY <2>6, <2>8, <3>2 DEF Changed, Asked
    <3>5. \A k \in Seqs : rows[k].revision \in Nat
      BY <2>0, <2>8, StoredFields
    <3>6. changed \subseteq Seqs
      BY <3>2 DEF Changed
    <3>7. ASSUME NEW x \in a.patches PROVE PatchTrue(x, p, rows)
      <4>1. PICK k \in page : x = PatchOf(k)
        BY <3>3
      <4>2. k \in Seqs /\ rows[k].revision \in Nat /\ Asked(rows[k], k, p)
        BY <3>3, <3>4, <3>5, <3>6
      <4>3. rows[k].revision > 0 /\ q.after <= rows[k].revision
        BY <2>6, <4>2 DEF Asked
      <4>4. k \in Visible /\ k <= Item(k).end
        BY <2>8, <4>2, <4>3, RevisedRows
      <4>5. x.key = k /\ x.revision = rows[k].revision /\ x.item = Item(k) /\ x.item # None
        BY <2>0, <2>8, <4>1, <4>2, <4>4, PatchIs DEF Visible
      <4>6. Item(k).key = k /\ Item(k).revision = rows[k].revision
        BY <2>0, <2>8, <4>4, ItemIs
      <4> QED  BY <2>6, <4>2, <4>3, <4>4, <4>5, <4>6 DEF PatchTrue
    <3>8. ASSUME NEW k \in Seqs, Asked(rows[k], k, p), Answered(rows[k], k, a)
          PROVE  \E x \in a.patches : x.key = k /\ x.revision = rows[k].revision
      <4>1. k \in changed
        BY <3>4, <3>8
      <4>2. k \in page
        <5>1. CASE a.nextKey = 0
          BY <3>3, <4>1, <5>1
        <5>2. CASE a.nextKey # 0
          <6>1. k = a.nextKey \/ Precedes(rows, k, a.nextKey)
            <7>1. a.nextKey \in Nat /\ k \in Nat
              BY <2>0, <2>5, StoredFields DEF Answers
            <7>2. rows[k].revision < rows[a.nextKey].revision \/ (rows[k].revision = rows[a.nextKey].revision /\ k <= a.nextKey)
              BY <3>3, <3>8, <5>2 DEF Answered
            <7> QED  BY <7>1, <7>2 DEF Precedes
          <6> QED  BY <3>3, <4>1, <5>2, <6>1
        <5> QED  BY <5>1, <5>2
      <4>3. PatchOf(k) \in a.patches
        BY <3>3, <4>2
      <4>4. PatchOf(k).key = k /\ PatchOf(k).revision = rows[k].revision
        BY <2>0, <2>8, PatchIs
      <4> QED  BY <4>3, <4>4
    <3> QED  BY <2>6, <3>7, <3>8 DEF PatchesTrue
  <2>10. ASSUME NEW X, NEW low, NEW high, NEW cursor, Loaded(X, low, high, rows, cursor, q)
         PROVE  Loaded(X, low, high, rows, cursor, p)
    <3>1. q # None
      BY <2>1, <2>2
    <3> QED  BY <2>6, <2>10, <3>1 DEF Loaded, SeenBy
  <2>11. ASSUME pages # <<>>
         PROVE  /\ PagesTrue(pages, rows)
                /\ Loaded(ItemsOfPages(pages), pages[1].before, High, rows, Last(pages).cursor, p)
    BY <2>0, <2>2, <2>8, <2>10, <2>11 DEF TrueOk
  <2>12. ASSUME older # None PROVE EarlierTrue(older, pages, rows, Last(pages).cursor, p)
    <3>1. EarlierTrue(older, pages, rows, Last(pages).cursor, q)
      BY <2>2, <2>8, <2>12 DEF TrueOk
    <3> QED  BY <2>10, <3>1 DEF EarlierTrue
  <2>13. format' = format /\ pages' = pages /\ older' = older /\ High' = High /\ stored'.rows = rows
    BY <1>1, <2>8 DEF High
  <2> QED  BY <2>7, <2>9, <2>11, <2>12, <2>13 DEF TrueOk
<1> QED  BY <1>2, <1>3

(* An earlier page is asked for.                                            *)
LEMMA TrueEarlier == FollowOk /\ TrueOk /\ FollowOk' /\ LoadEarlier => TrueOk'
<1> SUFFICES ASSUME FollowOk, TrueOk, FollowOk', LoadEarlier PROVE TrueOk'
  OBVIOUS
<1>1. /\ reader # None /\ pages[1].before # 0 /\ UNCHANGED <<stored, format, pages, reader>>
      /\ older' = [before |-> pages[1].before, captured |-> pages, answer |-> None]
  BY DEF LoadEarlier, server
<1>2. Ask' = Ask /\ High' = High
  BY <1>1 DEF Ask, High
<1>3. older'.before = pages[1].before /\ older'.answer = None
  BY <1>1
<1>4. EarlierTrue(older', pages', stored'.rows, Last(pages').cursor, Ask')
  BY <1>1, <1>3 DEF EarlierTrue
<1> QED  BY <1>1, <1>2, <1>4 DEF TrueOk

(* A page read from the server, before a key.                               *)
PageTrue(p, before, rows) ==
    /\ ItemsTrue(p.items, rows) /\ \A x \in p.items : x.key < before
    /\ \/ \E x \in p.items : x.key = Larger(p.before, 1)
       \/ p.before = 0 /\ before = 1
    /\ p.before < before
    /\ \A cursor, q : Loaded(p.items, p.before, before, rows, cursor, q)

(* conversationPage reads one.                                              *)
LEMMA PageIsTrue ==
    ASSUME ServerOk, ShownOk, NEW before \in Nat, before > 0, NEW p, p = ConversationPage(before)
    PROVE  PageTrue(p, before, stored.rows)
<1>1. /\ p \in Pages
      /\ \A x \in p.items : \E k \in Visible : k < before /\ x = Item(k)
      /\ \A k \in Visible : k < before /\ p.before <= k => Item(k) \in p.items
      /\ p.before # 0 => p.before \in Visible /\ p.before < before
  BY PageIs
<1>2. p.before \in Nat
  BY <1>1 DEF Pages
<1>3. PICK rows : rows = stored.rows
  OBVIOUS
<1>4. \A k \in Visible : k \in Seqs /\ Item(k).key = k /\ Item(k).revision = rows[k].revision
  BY <1>3, ItemIs
<1>5. \A k \in Seqs : k \in Nat /\ k > 0 /\ rows[k].revision \in Nat
  BY <1>3, StoredFields
<1>6. ItemsTrue(p.items, rows) /\ \A x \in p.items : x.key < before
  <2> SUFFICES ASSUME NEW x \in p.items PROVE x.key \in Seqs /\ x.revision <= rows[x.key].revision /\ x.key < before
    BY DEF ItemsTrue
  <2>1. PICK k \in Visible : k < before /\ x = Item(k)
    BY <1>1
  <2> QED  BY <1>4, <1>5, <2>1
<1>7. p.before < before
  BY <1>1, <1>2
<1>8. (\E x \in p.items : x.key = Larger(p.before, 1)) \/ (p.before = 0 /\ before = 1)
  <2>1. CASE p.before # 0
    <3>1. p.before \in Visible /\ Item(p.before) \in p.items /\ Item(p.before).key = p.before
      BY <1>1, <1>2, <1>4, <2>1
    <3>2. Larger(p.before, 1) = p.before
      BY <1>2, <2>1 DEF Larger
    <3> QED  BY <3>1, <3>2
  <2>2. CASE p.before = 0 /\ before # 1
    <3>1. 1 \in Visible
      BY StreamAssumption DEF ShownOk, Visible, Seqs
    <3>2. 1 < before
      BY <2>2
    <3>3. p.before <= 1
      BY <2>2
    <3>4. Item(1) \in p.items /\ Item(1).key = 1
      BY <1>1, <1>4, <3>1, <3>2, <3>3
    <3>5. Larger(p.before, 1) = 1
      BY <2>2 DEF Larger
    <3> QED  BY <3>4, <3>5
  <2> QED  BY <2>1, <2>2
<1>9. ASSUME NEW cursor, NEW q PROVE Loaded(p.items, p.before, before, rows, cursor, q)
  <2> SUFFICES ASSUME NEW k \in Seqs, rows[k].body # None, p.before <= k, k < before PROVE Shown(p.items, rows[k], k)
    BY DEF Loaded
  <2>1. k \in Visible
    BY <1>3 DEF Visible
  <2>2. Item(k) \in p.items
    BY <1>1, <2>1
  <2> QED  BY <1>4, <2>1, <2>2 DEF Shown
<1> QED  BY <1>3, <1>6, <1>7, <1>8, <1>9 DEF PageTrue

(* The earlier page is read.                                                *)
LEMMA TrueEarlierAnswered == FollowOk /\ ShownOk /\ TrueOk /\ EarlierAnswered => TrueOk'
<1> SUFFICES ASSUME FollowOk, ShownOk, TrueOk, EarlierAnswered PROVE TrueOk'
  OBVIOUS
<1>1. /\ older # None /\ UNCHANGED <<stored, format, pages, reader>>
      /\ older' = [older EXCEPT !.answer = ConversationPage(older.before)]
  BY DEF EarlierAnswered, server
<1>2. Ask' = Ask /\ High' = High
  BY <1>1 DEF Ask, High
<1>3. older \in Earlier /\ older.before \in Nat /\ ServerOk
  BY <1>1, ClientFields DEF FollowOk
<1>4. PICK rows : rows = stored.rows
  OBVIOUS
<1>5. older.before = pages[1].before /\ older.before # 0
  BY <1>1 DEF TrueOk, EarlierTrue
<1>6. PICK p : p = ConversationPage(older.before)
  OBVIOUS
<1>7. PageTrue(p, older.before, rows)
  BY <1>3, <1>4, <1>5, <1>6, PageIsTrue
<1>8. older'.before = older.before /\ older'.answer = p
  BY <1>1, <1>3, <1>6 DEF Earlier
<1>9. EarlierTrue(older', pages', stored'.rows, Last(pages').cursor, Ask')
  BY <1>1, <1>4, <1>5, <1>7, <1>8 DEF EarlierTrue, PageTrue
<1> QED  BY <1>1, <1>2, <1>9 DEF TrueOk

(* The first page.                                                          *)
LEMMA TrueFirst == FollowOk /\ ShownOk /\ LoadFirst => TrueOk'
<1> SUFFICES ASSUME FollowOk, ShownOk, LoadFirst PROVE TrueOk'
  OBVIOUS
<1>1. /\ reader = None /\ pages' = <<ConversationPage(MaxEvents + 1)>> /\ format' = "transcript"
      /\ reader' = Started(pages') /\ UNCHANGED <<stored, older>>
  BY DEF LoadFirst, server
<1>2. PICK ps, p : ps = pages' /\ p = ConversationPage(High)
  OBVIOUS
<1>3. ps = <<p>> /\ Len(ps) = 1 /\ ps[1] = p /\ DOMAIN ps = {1}
  BY <1>1, <1>2 DEF High
<1>4. older' = None
  BY <1>1 DEF FollowOk, ClientOk
<1>5. Ask' = None
  <2>1. reader'.catchup = None
    BY <1>1 DEF Started
  <2> QED  BY <2>1 DEF Ask
<1>6. High \in Nat /\ High > 1 /\ ServerOk
  BY StreamAssumption DEF High, FollowOk
<1>7. PICK rows : rows = stored.rows
  OBVIOUS
<1>8. PageTrue(p, High, rows)
  BY <1>2, <1>6, <1>7, PageIsTrue
<1>9. ItemsOfPages(ps) = p.items
  BY <1>3 DEF ItemsOfPages
<1>10. PagesTrue(ps, rows)
  <2>1. Begun(ps, 1)
    BY <1>3, <1>6, <1>8 DEF Begun, PageTrue
  <2> QED  BY <1>3, <1>8, <1>9, <2>1 DEF PagesTrue, PageTrue
<1>11. \A cursor, q : Loaded(ItemsOfPages(ps), ps[1].before, High, rows, cursor, q)
  BY <1>3, <1>8, <1>9 DEF PageTrue
<1>12. High' = High /\ stored'.rows = rows
  BY <1>1, <1>7 DEF High
<1> QED  BY <1>2, <1>4, <1>5, <1>10, <1>11, <1>12 DEF TrueOk

(* An item is on one of the pages.                                          *)
LEMMA ItemsAre ==
    ASSUME NEW ps
    PROVE  \A x : x \in ItemsOfPages(ps) <=> \E i \in DOMAIN ps : x \in ps[i].items
BY DEF ItemsOfPages

(* A page that fits before a key.                                           *)
PageFits(a, before, rows) ==
    /\ ItemsTrue(a.items, rows) /\ a.before < before /\ \A x \in a.items : x.key < before
    /\ \/ \E x \in a.items : x.key = Larger(a.before, 1)
       \/ a.before = 0 /\ before = 1

(* A page put before the others.                                            *)
LEMMA Prepended ==
    ASSUME NEW ps \in Seq(Pages), ps # <<>>, NEW a \in Pages, NEW rows, NEW before \in Nat, before = ps[1].before,
           PageFits(a, before, rows),
           PagesTrue(ps, rows), NEW new, new = <<a>> \o ps
    PROVE  /\ PagesTrue(new, rows) /\ new[1] = a /\ new # <<>> /\ Last(new) = Last(ps)
           /\ ItemsOfPages(new) = a.items \union ItemsOfPages(ps)
<1>1. /\ Len(ps) \in Nat /\ Len(ps) > 0 /\ DOMAIN ps = 1..Len(ps)
      /\ \A i \in DOMAIN ps : ps[i] \in Pages /\ ps[i].before \in Nat /\ ps[i].items \subseteq Items
  <2>1. Len(ps) \in Nat /\ Len(ps) > 0 /\ DOMAIN ps = 1..Len(ps) /\ \A i \in 1..Len(ps) : ps[i] \in Pages
    BY SeqFields
  <2> QED  BY <2>1 DEF Pages
<1>2. PICK n \in Nat : n = Len(ps)
  BY <1>1
<1>3. new \in Seq(Pages) /\ Len(new) = n + 1 /\ DOMAIN new = 1..(n + 1) /\ new[1] = a /\ \A i \in 1..n : new[i + 1] = ps[i]
  <2>1. <<a>> \in Seq(Pages) /\ Len(<<a>>) = 1
    OBVIOUS
  <2> QED  BY <1>2, <2>1
<1>4. \A i \in DOMAIN new : i # 1 => i - 1 \in DOMAIN ps /\ new[i] = ps[i - 1]
  <2> SUFFICES ASSUME NEW i \in DOMAIN new, i # 1 PROVE i - 1 \in DOMAIN ps /\ new[i] = ps[i - 1]
    OBVIOUS
  <2>1. i - 1 \in 1..n /\ (i - 1) + 1 = i
    BY <1>3
  <2> QED  BY <1>1, <1>2, <1>3, <2>1
<1>5. \A i \in DOMAIN ps : i + 1 \in DOMAIN new /\ new[i + 1] = ps[i]
  BY <1>1, <1>2, <1>3
<1>6. a.before \in Nat /\ a.items \subseteq Items /\ 1 \in DOMAIN new /\ 1 \in DOMAIN ps
  BY <1>1, <1>2, <1>3 DEF Pages
<1>7. ItemsOfPages(new) = a.items \union ItemsOfPages(ps)
  <2>1. ASSUME NEW x, x \in ItemsOfPages(new) PROVE x \in a.items \union ItemsOfPages(ps)
    <3>1. PICK i \in DOMAIN new : x \in new[i].items
      BY <2>1, ItemsAre
    <3>2. CASE i = 1
      BY <1>3, <3>1, <3>2
    <3>3. CASE i # 1
      BY <1>4, <3>1, <3>3, ItemsAre
    <3> QED  BY <3>2, <3>3
  <2>2. ASSUME NEW x, x \in a.items PROVE x \in ItemsOfPages(new)
    BY <1>3, <1>6, <2>2, ItemsAre
  <2>3. ASSUME NEW x, x \in ItemsOfPages(ps) PROVE x \in ItemsOfPages(new)
    <3>1. PICK i \in DOMAIN ps : x \in ps[i].items
      BY <2>3, ItemsAre
    <3>2. i + 1 \in DOMAIN new /\ x \in new[i + 1].items
      BY <1>5, <3>1
    <3> QED  BY <3>2, ItemsAre
  <2> QED  BY <2>1, <2>2, <2>3
<1>8. Last(new) = Last(ps) /\ new # <<>>
  <2>1. new[n + 1] = ps[n]
    BY <1>1, <1>2, <1>5
  <2> QED  BY <1>2, <1>3, <2>1 DEF Last
<1>9. \A i \in DOMAIN ps : before <= ps[i].before
  <2> SUFFICES ASSUME NEW i \in DOMAIN ps PROVE before <= ps[i].before
    OBVIOUS
  <2>1. CASE i = 1
    BY <2>1
  <2>2. CASE i # 1
    <3>1. 1 < i
      BY <1>1, <2>2
    <3> QED  BY <1>6, <3>1 DEF PagesTrue
  <2> QED  BY <2>1, <2>2
<1>10. ASSUME NEW i \in DOMAIN new, NEW j \in DOMAIN new, i < j
       PROVE  new[i].before <= new[j].before /\ \A x \in new[i].items : x.key < new[j].before
  <2>1. j # 1 /\ j - 1 \in DOMAIN ps /\ new[j] = ps[j - 1]
    BY <1>3, <1>4, <1>10
  <2>2. PICK m \in DOMAIN ps : m = j - 1
    BY <2>1
  <2>3. CASE i = 1
    <3>1. before <= ps[m].before /\ ps[m].before \in Nat
      BY <1>1, <1>9
    <3>2. \A x \in a.items : x.key < before /\ x.key \in Nat
      BY <1>6 DEF Items, PageFits
    <3>3. a.before < before
      BY DEF PageFits
    <3> QED  BY <1>3, <1>6, <2>1, <2>2, <2>3, <3>1, <3>2, <3>3
  <2>4. CASE i # 1
    <3>1. PICK l \in DOMAIN ps : l = i - 1
      BY <1>4, <2>4
    <3>2. l < m /\ new[i] = ps[l] /\ new[j] = ps[m]
      BY <1>3, <1>4, <1>10, <2>1, <2>2, <2>4, <3>1
    <3> QED  BY <3>2 DEF PagesTrue
  <2> QED  BY <2>3, <2>4
<1>11. ASSUME NEW i \in DOMAIN new PROVE Begun(new, i)
  <2>1. ASSUME NEW l \in DOMAIN ps, i <= l + 1, NEW y, y = Larger(new[i].before, 1), \E j \in DOMAIN ps : l <= j /\ \E x \in ps[j].items : x.key = y
        PROVE  Begun(new, i)
    <3>1. PICK j \in DOMAIN ps : l <= j /\ \E x \in ps[j].items : x.key = y
      BY <2>1
    <3>2. j + 1 \in DOMAIN new /\ new[j + 1] = ps[j] /\ i <= j + 1
      BY <1>1, <1>3, <1>5, <2>1, <3>1
    <3> QED  BY <2>1, <3>1, <3>2 DEF Begun
  <2>2. CASE i # 1
    <3>1. PICK l \in DOMAIN ps : l = i - 1
      BY <1>4, <2>2
    <3>2. Begun(ps, l) /\ new[i] = ps[l] /\ i <= l + 1
      BY <1>3, <1>4, <2>2, <3>1 DEF PagesTrue
    <3> QED  BY <2>1, <3>2 DEF Begun
  <2>3. CASE i = 1
    <3>1. CASE \E x \in a.items : x.key = Larger(a.before, 1)
      BY <1>3, <1>6, <2>3, <3>1 DEF Begun
    <3>2. CASE a.before = 0 /\ before = 1
      <4>1. Begun(ps, 1)
        BY <1>6 DEF PagesTrue
      <4>2. Larger(new[1].before, 1) = Larger(ps[1].before, 1)
        BY <1>3, <3>2 DEF Larger
      <4>3. i <= 1 + 1
        BY <2>3
      <4> QED  BY <1>6, <2>1, <2>3, <4>1, <4>2, <4>3 DEF Begun
    <3> QED  BY <3>1, <3>2 DEF PageFits
  <2> QED  BY <2>2, <2>3
<1>12. ItemsTrue(ItemsOfPages(new), rows)
  BY <1>7 DEF PagesTrue, ItemsTrue, PageFits
<1> QED  BY <1>3, <1>7, <1>8, <1>10, <1>11, <1>12 DEF PagesTrue
(* The earlier page arrives.                                                *)
LEMMA TrueArrives == FollowOk /\ TrueOk /\ EarlierArrives => TrueOk'
<1> SUFFICES ASSUME FollowOk, TrueOk, EarlierArrives PROVE TrueOk'
  OBVIOUS
<1>1. /\ older # None /\ older.answer # None /\ UNCHANGED <<stored, format>> /\ older' = None
      /\ pages' = <<older.answer>> \o older.captured /\ reader' = Schedule(reader, None)
  BY DEF EarlierArrives, server
<1>2. /\ reader # None /\ pages # <<>> /\ format = "transcript" /\ pages \in Seq(Pages)
      /\ older.captured = pages /\ older.before \in Nat /\ older.answer \in Pages
  BY <1>1, ClientFields
<1>3. Ask' = Ask /\ High' = High
  <2>1. PICK r : r = reader'
    OBVIOUS
  <2>2. reader \in Readers
    BY <1>2, WriterFields
  <2>3. r \in Readers /\ r.catchup = reader.catchup
    BY <1>1, <2>1, <2>2, ScheduleIs
  <2>4. r # None
    BY <2>3, NoneAssumption
  <2> QED  BY <1>2, <2>1, <2>3, <2>4 DEF Ask, High
<1>4. PICK ps \in Seq(Pages), a \in Pages : ps = pages /\ a = older.answer
  BY <1>2
<1>5. PICK rows, q, new : rows = stored.rows /\ q = Ask /\ new = pages'
  OBVIOUS
<1>6. /\ EarlierTrue(older, ps, rows, Last(ps).cursor, q) /\ PagesTrue(ps, rows)
      /\ Loaded(ItemsOfPages(ps), ps[1].before, High, rows, Last(ps).cursor, q)
  BY <1>1, <1>2, <1>4, <1>5 DEF TrueOk
<1>7. PICK before \in Nat : before = older.before
  BY <1>2
<1>8. /\ before = ps[1].before /\ PageFits(a, before, rows)
      /\ Loaded(a.items, a.before, before, rows, Last(ps).cursor, q)
  BY <1>1, <1>4, <1>6, <1>7 DEF EarlierTrue, PageFits
<1>9. ps # <<>> /\ new = <<a>> \o ps
  BY <1>1, <1>2, <1>4, <1>5
<1>10. /\ PagesTrue(new, rows) /\ new[1] = a /\ new # <<>> /\ Last(new) = Last(ps)
       /\ ItemsOfPages(new) = a.items \union ItemsOfPages(ps)
  BY <1>6, <1>8, <1>9, Prepended
<1>11. Loaded(ItemsOfPages(new), new[1].before, High, rows, Last(new).cursor, q)
  <2>1. PICK X, Y, cursor : X = a.items /\ Y = ItemsOfPages(ps) /\ cursor = Last(ps).cursor
    OBVIOUS
  <2>2. Loaded(X, a.before, before, rows, cursor, q) /\ Loaded(Y, before, High, rows, cursor, q)
    BY <1>6, <1>8, <2>1
  <2>3. a.before \in Nat /\ High \in Nat /\ Seqs \subseteq Nat
    BY StreamAssumption DEF Pages, High, Seqs
  <2>4. Loaded(X \union Y, a.before, High, rows, cursor, q)
    <3> SUFFICES ASSUME NEW k \in Seqs, rows[k].body # None, SeenBy(rows[k], k, cursor, q), a.before <= k, k < High
                 PROVE  Shown(X \union Y, rows[k], k)
      BY DEF Loaded
    <3>1. k < before \/ before <= k
      BY <2>3
    <3>2. Shown(X, rows[k], k) \/ Shown(Y, rows[k], k)
      BY <2>2, <3>1 DEF Loaded
    <3> QED  BY <3>2 DEF Shown
  <2> QED  BY <1>10, <2>1, <2>4
<1>12. stored'.rows = rows /\ format' = format
  BY <1>1, <1>5
<1>13. format = "transcript" /\ Ask # None => (Ask.answer # None => PatchesTrue(Ask, rows))
  BY <1>5 DEF TrueOk
<1> QED  BY <1>1, <1>3, <1>4, <1>5, <1>10, <1>11, <1>12, <1>13 DEF TrueOk

(* The oldest page dropped.                                                 *)
LEMMA Shortened ==
    ASSUME NEW ps \in Seq(Pages), NEW new, new = Tail(ps), ps # <<>>, new # <<>>, NEW rows, PagesTrue(ps, rows)
    PROVE  /\ PagesTrue(new, rows) /\ new[1].before \in Nat /\ ps[1].before <= new[1].before /\ Last(new) = Last(ps)
           /\ \A x \in ItemsOfPages(ps) : x.key < new[1].before \/ x \in ItemsOfPages(new)
<1>1. /\ Len(ps) \in Nat /\ Len(ps) > 0 /\ DOMAIN ps = 1..Len(ps)
      /\ \A i \in DOMAIN ps : ps[i] \in Pages /\ ps[i].before \in Nat
  <2>1. Len(ps) \in Nat /\ Len(ps) > 0 /\ DOMAIN ps = 1..Len(ps) /\ \A i \in 1..Len(ps) : ps[i] \in Pages
    BY SeqFields
  <2> QED  BY <2>1 DEF Pages
<1>2. new \in Seq(Pages) /\ Len(new) = Len(ps) - 1 /\ DOMAIN new = 1..(Len(ps) - 1) /\ \A i \in 1..(Len(ps) - 1) : new[i] = ps[i + 1]
  <2>1. new \in Seq(Pages) /\ Len(new) = Len(ps) - 1 /\ \A i \in 1..(Len(ps) - 1) : new[i] = ps[i + 1]
    OBVIOUS
  <2> QED  BY <2>1
<1>3. Len(new) > 0
  BY <1>2, SeqFields
<1>4. \A i \in DOMAIN new : i \in Nat /\ i > 0 /\ i + 1 \in DOMAIN ps /\ new[i] = ps[i + 1]
  BY <1>1, <1>2
<1>5. \A i \in DOMAIN ps : i # 1 => i - 1 \in DOMAIN new /\ new[i - 1] = ps[i]
  <2> SUFFICES ASSUME NEW i \in DOMAIN ps, i # 1 PROVE i - 1 \in DOMAIN new /\ new[i - 1] = ps[i]
    OBVIOUS
  <2>1. i - 1 \in 1..(Len(ps) - 1) /\ (i - 1) + 1 = i
    BY <1>1
  <2> QED  BY <1>2, <2>1
<1>6. 1 \in DOMAIN new /\ 1 \in DOMAIN ps /\ 2 \in DOMAIN ps /\ new[1] = ps[2]
  BY <1>1, <1>2, <1>3
<1>7. new[1].before \in Nat /\ ps[1].before <= new[1].before /\ \A x \in ps[1].items : x.key < new[1].before
  BY <1>1, <1>6 DEF PagesTrue
<1>8. Last(new) = Last(ps)
  <2>1. Len(new) \in DOMAIN new /\ Len(new) + 1 = Len(ps)
    BY <1>1, <1>2, <1>3
  <2> QED  BY <1>4, <2>1 DEF Last
<1>9. \A x \in ItemsOfPages(ps) : x.key < new[1].before \/ x \in ItemsOfPages(new)
  <2> SUFFICES ASSUME NEW x \in ItemsOfPages(ps) PROVE x.key < new[1].before \/ x \in ItemsOfPages(new)
    OBVIOUS
  <2>1. PICK i \in DOMAIN ps : x \in ps[i].items
    BY ItemsAre
  <2>2. CASE i = 1
    BY <1>7, <2>1, <2>2
  <2>3. CASE i # 1
    BY <1>5, <2>1, <2>3, ItemsAre
  <2> QED  BY <2>2, <2>3
<1>10. ItemsTrue(ItemsOfPages(new), rows)
  <2>1. ItemsOfPages(new) \subseteq ItemsOfPages(ps)
    BY <1>4, ItemsAre
  <2> QED  BY <2>1 DEF ItemsTrue, PagesTrue
<1>11. ASSUME NEW i \in DOMAIN new, NEW j \in DOMAIN new, i < j
       PROVE  new[i].before <= new[j].before /\ \A x \in new[i].items : x.key < new[j].before
  <2>1. PICK l \in DOMAIN ps, m \in DOMAIN ps : l = i + 1 /\ m = j + 1
    BY <1>4
  <2>2. l < m /\ new[i] = ps[l] /\ new[j] = ps[m]
    BY <1>4, <1>11, <2>1
  <2> QED  BY <2>2 DEF PagesTrue
<1>12. ASSUME NEW i \in DOMAIN new PROVE Begun(new, i)
  <2>1. PICK l \in DOMAIN ps : l = i + 1
    BY <1>4
  <2>2. new[i] = ps[l] /\ Begun(ps, l) /\ i \in Nat /\ i > 0
    BY <1>4, <2>1 DEF PagesTrue
  <2>3. PICK y : y = Larger(ps[l].before, 1)
    OBVIOUS
  <2>4. PICK j \in DOMAIN ps : l <= j /\ \E x \in ps[j].items : x.key = y
    BY <2>2, <2>3 DEF Begun
  <2>5. j # 1 /\ i <= j - 1
    BY <1>1, <2>1, <2>2, <2>4
  <2>6. j - 1 \in DOMAIN new /\ new[j - 1] = ps[j]
    BY <1>5, <2>5
  <2> QED  BY <2>2, <2>3, <2>4, <2>5, <2>6 DEF Begun
<1> QED  BY <1>7, <1>8, <1>9, <1>10, <1>11, <1>12 DEF PagesTrue

(* An inactive task loses its oldest page, or all of them.                  *)
LEMMA TruePrune == FollowOk /\ TrueOk /\ FollowOk' /\ Prune => TrueOk'
<1> SUFFICES ASSUME FollowOk, TrueOk, FollowOk', Prune PROVE TrueOk'
  OBVIOUS
<1>1. /\ reader = None /\ pages # <<>> /\ pages' \in {Tail(pages), <<>>} /\ UNCHANGED <<stored, format, reader, older>>
  BY DEF Prune, server
<1>2. older' = None /\ Ask' = None /\ Ask = None /\ High' = High
  BY <1>1 DEF Ask, High, FollowOk, ClientOk
<1>3. CASE pages' = <<>> \/ format = "events"
  BY <1>1, <1>2, <1>3 DEF TrueOk
<1>4. CASE pages' # <<>> /\ format # "events"
  <2>1. format = "transcript" /\ pages \in Seq(Pages)
    BY <1>4, ClientFields
  <2>2. PICK ps \in Seq(Pages) : ps = pages
    BY <2>1
  <2>3. PICK rows, new : rows = stored.rows /\ new = pages'
    OBVIOUS
  <2>4. /\ PagesTrue(ps, rows) /\ ps # <<>> /\ new # <<>> /\ new = Tail(ps)
        /\ Loaded(ItemsOfPages(ps), ps[1].before, High, rows, Last(ps).cursor, None)
    BY <1>1, <1>2, <1>4, <2>1, <2>2, <2>3 DEF TrueOk
  <2>5. /\ PagesTrue(new, rows) /\ new[1].before \in Nat /\ ps[1].before <= new[1].before /\ Last(new) = Last(ps)
        /\ \A x \in ItemsOfPages(ps) : x.key < new[1].before \/ x \in ItemsOfPages(new)
    BY <2>4, Shortened
  <2>6. Loaded(ItemsOfPages(new), new[1].before, High, rows, Last(new).cursor, None)
    <3>1. PICK low, high, X, Y, cursor :
             low = ps[1].before /\ high = new[1].before /\ X = ItemsOfPages(ps) /\ Y = ItemsOfPages(new) /\ cursor = Last(ps).cursor
      OBVIOUS
    <3>2. low \in Nat /\ high \in Nat /\ low <= high /\ Seqs \subseteq Nat
      <4>1. ps[1] \in Pages
        BY <2>4, SeqFields
      <4> QED  BY <2>5, <3>1, <4>1 DEF Pages, Seqs
    <3> SUFFICES ASSUME NEW k \in Seqs, rows[k].body # None, SeenBy(rows[k], k, cursor, None), high <= k, k < High
                 PROVE  Shown(Y, rows[k], k)
      BY <2>5, <3>1 DEF Loaded
    <3>3. low <= k
      BY <3>2
    <3>4. PICK x \in X : x.key = k /\ x.revision = rows[k].revision
      BY <2>4, <3>1, <3>3 DEF Loaded, Shown
    <3>5. x \in Y
      BY <2>5, <3>1, <3>2, <3>4
    <3> QED  BY <3>4, <3>5 DEF Shown
  <2> QED  BY <1>1, <1>2, <2>2, <2>3, <2>5, <2>6 DEF TrueOk
<1> QED  BY <1>3, <1>4

(* The pages and the request they are merged with.                          *)
Mergeable(ps, q, rows) ==
    /\ ps \in Seq(Pages) /\ ps # <<>> /\ q \in Requests /\ q.answer \in Answers
    /\ PagesTrue(ps, rows) /\ PatchesTrue(q, rows) /\ \A k \in Seqs : rows[k].revision \in Nat

(* The values of these.                                                     *)
LEMMA MergeFields ==
    ASSUME NEW ps, NEW q, NEW rows, Mergeable(ps, q, rows)
    PROVE  /\ Len(ps) \in Nat /\ Len(ps) > 0 /\ DOMAIN ps = 1..Len(ps) /\ 1 \in DOMAIN ps
           /\ \A i \in DOMAIN ps : i \in Nat /\ ps[i].before \in Nat /\ ps[i].items \subseteq Items
           /\ \A i \in DOMAIN ps : \A x \in ps[i].items : /\ x \in ItemsOfPages(ps) /\ x.key \in Seqs /\ x.revision \in Nat
                                                         /\ x.revision <= rows[x.key].revision
           /\ \A p \in q.answer.patches : PatchTrue(p, q, rows) /\ p.revision \in Nat /\ p.key \in Seqs
           /\ q.answer.patches \subseteq Patches /\ Seqs \subseteq Nat /\ \A k \in Seqs : k >= 1
<1>1. Len(ps) \in Nat /\ Len(ps) > 0 /\ DOMAIN ps = 1..Len(ps) /\ \A i \in 1..Len(ps) : ps[i] \in Pages
  BY SeqFields DEF Mergeable
<1>2. 1 \in DOMAIN ps /\ \A i \in DOMAIN ps : i \in Nat /\ ps[i].before \in Nat /\ ps[i].items \subseteq Items
  BY <1>1 DEF Pages
<1>3. ASSUME NEW i \in DOMAIN ps, NEW x \in ps[i].items
      PROVE  x \in ItemsOfPages(ps) /\ x.key \in Seqs /\ x.revision \in Nat /\ x.revision <= rows[x.key].revision
  <2>1. x \in ItemsOfPages(ps) /\ x \in Items
    BY <1>2, ItemsAre
  <2> QED  BY <2>1 DEF Mergeable, PagesTrue, ItemsTrue, Items
<1>4. q.answer.patches \subseteq Patches
  BY DEF Mergeable, Answers
<1>5. ASSUME NEW p \in q.answer.patches PROVE PatchTrue(p, q, rows) /\ p.revision \in Nat /\ p.key \in Seqs
  <2>1. PatchTrue(p, q, rows) /\ p \in Patches
    BY <1>4 DEF Mergeable, PatchesTrue
  <2> QED  BY <2>1 DEF PatchTrue, Patches
<1> QED  BY <1>1, <1>2, <1>3, <1>4, <1>5, StreamAssumption DEF Seqs

(* The page that owns a patch is the first with its key.                    *)
LEMMA HomeIs ==
    ASSUME NEW ps, NEW q, NEW rows, Mergeable(ps, q, rows), NEW p \in q.answer.patches
    PROVE  /\ HomeOf(ps, p) \in DOMAIN ps
           /\ OwnersOf(ps, p) # {} => /\ \E y \in ps[HomeOf(ps, p)].items : y.key = p.key
                                      /\ \A i \in DOMAIN ps : (\E y \in ps[i].items : y.key = p.key) => HomeOf(ps, p) <= i
           /\ OwnersOf(ps, p) = {} => HomeOf(ps, p) = Len(ps)
<1>0. Len(ps) \in Nat /\ Len(ps) > 0 /\ DOMAIN ps = 1..Len(ps)
  BY MergeFields
<1>1. CASE OwnersOf(ps, p) # {}
  <2>1. PICK S : S = OwnersOf(ps, p)
    OBVIOUS
  <2>2. S \subseteq DOMAIN ps /\ S \subseteq Nat /\ S # {}
    BY <1>0, <1>1, <2>1 DEF OwnersOf
  <2>3. Min(S) \in S /\ \A i \in S : Min(S) <= i
    BY <2>2, MinIs
  <2>4. HomeOf(ps, p) = Min(S)
    BY <1>1, <2>1 DEF HomeOf
  <2>5. \A i : i \in S <=> i \in DOMAIN ps /\ \E y \in ps[i].items : y.key = p.key
    BY <2>1 DEF OwnersOf
  <2> QED  BY <1>1, <2>3, <2>4, <2>5
<1>2. CASE OwnersOf(ps, p) = {}
  BY <1>0, <1>2 DEF HomeOf
<1> QED  BY <1>1, <1>2

(* The floor is where the pages begin, or before it.                        *)
LEMMA FloorIs ==
    ASSUME NEW ps, NEW q, NEW rows, Mergeable(ps, q, rows)
    PROVE  FloorOf(ps) \in Nat /\ FloorOf(ps) <= Larger(ps[1].before, 1)
<1> DEFINE all == ItemsOfPages(ps)
<1>1. PICK L : L = Larger(ps[1].before, 1)
  OBVIOUS
<1>2. PICK j \in DOMAIN ps : \E x \in ps[j].items : x.key = L
  BY <1>1, MergeFields DEF Mergeable, PagesTrue, Begun
<1>3. PICK y \in ps[j].items : y.key = L
  BY <1>2
<1>4. y \in all /\ L \in Seqs
  BY <1>3, MergeFields
<1>5. \A x \in all : x.key \in Seqs /\ x.revision \in Nat /\ x.revision <= rows[x.key].revision
  <2> TAKE x \in all
  <2>1. PICK i \in DOMAIN ps : x \in ps[i].items
    BY ItemsAre
  <2> QED  BY <2>1, MergeFields
<1> HIDE DEF all
<1>6. PICK S : S = {x.revision : x \in {z \in all : z.key = L}}
  OBVIOUS
<1>7. S \subseteq Nat /\ S # {} /\ rows[L].revision \in Nat /\ \A r \in S : r <= rows[L].revision
  BY <1>3, <1>4, <1>5, <1>6 DEF Mergeable
<1>8. Max(S) \in S /\ \A r \in S : Max(S) >= r
  BY <1>7, MaxIs
<1>9. PICK x \in all : x.key = L /\ x.revision = Max(S)
  BY <1>6, <1>8
<1>10. \A z \in all : z.key = x.key => z.revision \in S
  BY <1>6, <1>9
<1>11. PICK R : R = Retained(ps)
  OBVIOUS
<1>12. R = {u \in all : \A z \in all : z.key = u.key => z.revision <= u.revision}
  BY <1>11 DEF Retained, all
<1>13. x \in R
  <2>1. \A z \in all : z.key = x.key => z.revision <= x.revision
    BY <1>5, <1>7, <1>8, <1>9, <1>10
  <2> QED  BY <1>12, <2>1
<1>14. PICK K : K = {u.key : u \in R}
  OBVIOUS
<1>15. K \subseteq Nat /\ L \in K
  <2>1. Seqs \subseteq Nat
    BY MergeFields
  <2> QED  BY <1>5, <1>9, <1>12, <1>13, <1>14, <2>1
<1>16. Min(K) \in Nat /\ Min(K) <= L
  BY <1>15, MinIs
<1>17. FloorOf(ps) = Min(K)
  BY <1>11, <1>13, <1>14 DEF FloorOf
<1> QED  BY <1>1, <1>16, <1>17

(* A patch that is as new as its row, in the part that is loaded, is taken. *)
LEMMA NewestPlaced ==
    ASSUME NEW ps, NEW q, NEW rows, Mergeable(ps, q, rows), NEW p \in q.answer.patches,
           p.revision = rows[p.key].revision, ps[1].before <= p.key
    PROVE  p \in PlacedIn(ps, q.answer.patches) /\ p.item.key = p.key /\ p.item.revision = p.revision
<1>1. /\ p.key \in Seqs /\ p.key \in Nat /\ p.key >= 1 /\ p.item # None /\ p.item.key = p.key
      /\ p.item.revision = p.revision /\ p.key <= p.item.end /\ p.item.end \in Nat /\ p.revision \in Nat
  <2>1. PatchTrue(p, q, rows) /\ p.revision \in Nat /\ p.key \in Seqs /\ p \in Patches
    BY MergeFields
  <2>2. p.item # None
    BY <2>1 DEF PatchTrue
  <2>3. p.item \in Items
    BY <2>1, <2>2 DEF Patches
  <2>4. p.item.end \in Nat
    BY <2>3 DEF Items
  <2>5. p.key \in Nat /\ p.key >= 1
    BY <2>1, MergeFields
  <2> QED  BY <2>1, <2>4, <2>5 DEF PatchTrue
<1>2. ~StaleIn(ps, p)
  <2> SUFFICES ASSUME StaleIn(ps, p) PROVE FALSE
    OBVIOUS
  <2>1. OwnersOf(ps, p) # {} /\ \E x \in ps[Min(OwnersOf(ps, p))].items : x.key = p.key /\ x.revision > p.revision
    BY DEF StaleIn
  <2>2. HomeOf(ps, p) = Min(OwnersOf(ps, p)) /\ HomeOf(ps, p) \in DOMAIN ps
    BY <2>1, HomeIs DEF HomeOf
  <2>3. PICK h \in DOMAIN ps : h = HomeOf(ps, p)
    BY <2>2
  <2>4. PICK x \in ps[h].items : x.key = p.key /\ x.revision > p.revision
    BY <2>1, <2>2, <2>3
  <2>5. x.revision \in Nat /\ x.revision <= rows[p.key].revision
    BY <2>4, MergeFields
  <2> QED  BY <1>1, <2>4, <2>5
<1>3. p.item.end >= FloorOf(ps)
  <2>1. FloorOf(ps) \in Nat /\ FloorOf(ps) <= Larger(ps[1].before, 1) /\ ps[1].before \in Nat
    BY FloorIs, MergeFields
  <2>2. Larger(ps[1].before, 1) <= p.key
    BY <1>1, <2>1 DEF Larger
  <2>3. Larger(ps[1].before, 1) \in Nat
    BY <2>1 DEF Larger
  <2> QED  BY <1>1, <2>1, <2>2, <2>3
<1> QED  BY <1>1, <1>2, <1>3 DEF PlacedIn, EffectiveIn

(* What is on a page after the merge.                                       *)
LEMMA MergedItem ==
    ASSUME NEW ps, NEW q, NEW rows, Mergeable(ps, q, rows), NEW i \in DOMAIN ps,
           NEW x \in ItemsMerged(ps, q.answer.patches, i)
    PROVE  /\ x.key \in Seqs /\ x.revision <= rows[x.key].revision
           /\ i = Len(ps) \/ \E y \in ps[i].items : y.key = x.key
<1>1. CASE x \in ps[i].items
  BY <1>1, MergeFields
<1>2. CASE x \notin ps[i].items
  <2>1. PICK p \in PlacedIn(ps, q.answer.patches) : HomeOf(ps, p) = i /\ x = p.item
    BY <1>2 DEF ItemsMerged
  <2>2. p \in q.answer.patches
    BY DEF PlacedIn, EffectiveIn
  <2>3. PatchTrue(p, q, rows)
    BY <2>2, MergeFields
  <2>4. x.key = p.key /\ x.revision = p.revision /\ p.key \in Seqs /\ p.revision <= rows[p.key].revision
    BY <2>1, <2>3 DEF PatchTrue
  <2>5. i = Len(ps) \/ \E y \in ps[i].items : y.key = p.key
    BY <2>1, <2>2, HomeIs
  <2> QED  BY <2>4, <2>5
<1> QED  BY <1>1, <1>2

(* Every key that was there is there still, on a page that had it: an item   *)
(* stays, or a patch takes its place on the first page with its key.        *)
LEMMA KeyKept ==
    ASSUME NEW ps, NEW q, NEW rows, Mergeable(ps, q, rows), NEW j \in DOMAIN ps, NEW x \in ps[j].items
    PROVE  \/ x \in ItemsMerged(ps, q.answer.patches, j)
           \/ \E p \in q.answer.patches : \E h \in DOMAIN ps :
                 /\ p.key = x.key /\ p.item \in ItemsMerged(ps, q.answer.patches, h) /\ p.item.key = x.key
                 /\ p.item.revision = p.revision /\ \E y \in ps[h].items : y.key = x.key
<1>1. CASE \A p \in EffectiveIn(ps, q.answer.patches) : p.key # x.key
  BY <1>1 DEF ItemsMerged
<1>2. CASE \E p \in EffectiveIn(ps, q.answer.patches) : p.key = x.key
  <2>1. PICK p \in EffectiveIn(ps, q.answer.patches) : p.key = x.key
    BY <1>2
  <2>2. p \in q.answer.patches
    BY DEF EffectiveIn
  <2>3. PatchTrue(p, q, rows)
    BY <2>2, MergeFields
  <2>4. OwnersOf(ps, p) # {}
    BY <2>1 DEF OwnersOf
  <2>5. p \in PlacedIn(ps, q.answer.patches)
    BY <2>3, <2>4 DEF PlacedIn, PatchTrue
  <2>6. PICK h \in DOMAIN ps : h = HomeOf(ps, p)
    BY <2>2, HomeIs
  <2>7. \E y \in ps[h].items : y.key = p.key
    BY <2>2, <2>4, <2>6, HomeIs
  <2>8. p.item \in ItemsMerged(ps, q.answer.patches, h)
    BY <2>5, <2>6 DEF ItemsMerged
  <2>9. p.item.key = p.key /\ p.item.revision = p.revision
    BY <2>3 DEF PatchTrue
  <2> QED  BY <2>1, <2>2, <2>7, <2>8, <2>9
<1> QED  BY <1>1, <1>2

(* The pages after the merge.                                               *)
Merged(new, ps, patches) ==
    /\ Len(new) = Len(ps) /\ DOMAIN new = DOMAIN ps
    /\ \A i \in DOMAIN ps : new[i].items = ItemsMerged(ps, patches, i) /\ new[i].before = ps[i].before

(* They lie one behind the other as before.                                 *)
LEMMA MergedPages ==
    ASSUME NEW ps, NEW q, NEW rows, Mergeable(ps, q, rows), NEW new, Merged(new, ps, q.answer.patches)
    PROVE  PagesTrue(new, rows)
<1>0. /\ Len(ps) \in Nat /\ Len(ps) > 0 /\ DOMAIN ps = 1..Len(ps) /\ \A i \in DOMAIN ps : i \in Nat /\ ps[i].before \in Nat
  BY MergeFields
<1>00. /\ DOMAIN new = DOMAIN ps
       /\ \A i \in DOMAIN ps : new[i].items = ItemsMerged(ps, q.answer.patches, i) /\ new[i].before = ps[i].before
  BY DEF Merged
<1>1. ASSUME NEW i \in DOMAIN new, NEW j \in DOMAIN new, i < j
      PROVE  new[i].before <= new[j].before /\ \A x \in new[i].items : x.key < new[j].before
  <2>1. i \in DOMAIN ps /\ j \in DOMAIN ps
    BY <1>00
  <2>2. ps[i].before <= ps[j].before /\ \A y \in ps[i].items : y.key < ps[j].before
    BY <1>1, <2>1 DEF Mergeable, PagesTrue
  <2>3. i # Len(ps)
    BY <1>0, <1>1, <2>1
  <2>4. \A x \in new[i].items : \E y \in ps[i].items : y.key = x.key
    BY <1>00, <2>1, <2>3, MergedItem
  <2> QED  BY <1>00, <2>1, <2>2, <2>4
<1>2. ASSUME NEW i \in DOMAIN new PROVE Begun(new, i)
  <2>1. i \in DOMAIN ps /\ Begun(ps, i) /\ i \in Nat
    BY <1>0, <1>00 DEF Mergeable, PagesTrue
  <2>2. PICK L : L = Larger(ps[i].before, 1)
    OBVIOUS
  <2>3. PICK j \in DOMAIN ps : i <= j /\ \E x \in ps[j].items : x.key = L
    BY <2>1, <2>2 DEF Begun
  <2>4. PICK x \in ps[j].items : x.key = L
    BY <2>3
  <2>5. Larger(new[i].before, 1) = L
    BY <1>00, <2>1, <2>2
  <2>6. CASE x \in ItemsMerged(ps, q.answer.patches, j)
    BY <1>00, <2>1, <2>3, <2>4, <2>5, <2>6 DEF Begun
  <2>7. CASE x \notin ItemsMerged(ps, q.answer.patches, j)
    <3>1. PICK p \in q.answer.patches : \E h \in DOMAIN ps :
                 /\ p.key = x.key /\ p.item \in ItemsMerged(ps, q.answer.patches, h) /\ p.item.key = x.key
                 /\ p.item.revision = p.revision /\ \E y \in ps[h].items : y.key = x.key
      BY <2>7, KeyKept
    <3>2. PICK h \in DOMAIN ps : /\ p.item \in ItemsMerged(ps, q.answer.patches, h) /\ p.item.key = x.key
                                 /\ \E y \in ps[h].items : y.key = x.key
      BY <3>1
    <3>3. PICK y \in ps[h].items : y.key = L
      BY <2>4, <3>2
    <3>4. i <= h
      <4> SUFFICES ASSUME h < i PROVE FALSE
        BY <1>0, <2>1
      <4>1. y.key < ps[i].before
        BY <2>1 DEF Mergeable, PagesTrue
      <4>2. ps[i].before \in Nat
        BY <1>0, <2>1
      <4>3. L < ps[i].before
        BY <3>3, <4>1
      <4> QED  BY <2>2, <4>2, <4>3 DEF Larger
    <3>5. h \in DOMAIN new /\ p.item \in new[h].items /\ p.item.key = Larger(new[i].before, 1)
      BY <1>00, <2>4, <2>5, <3>2
    <3> QED  BY <3>4, <3>5 DEF Begun
  <2> QED  BY <2>6, <2>7
<1>3. ItemsTrue(ItemsOfPages(new), rows)
  <2> SUFFICES ASSUME NEW x \in ItemsOfPages(new) PROVE x.key \in Seqs /\ x.revision <= rows[x.key].revision
    BY DEF ItemsTrue
  <2>1. PICK i \in DOMAIN new : x \in new[i].items
    BY ItemsAre
  <2> QED  BY <1>00, <2>1, MergedItem
<1> QED  BY <1>1, <1>2, <1>3 DEF PagesTrue

(* What the cursor and the next request may claim after an answer.          *)
Advanced(n, next, q, a, c) ==
    /\ c \in Nat /\ c <= q.after /\ q.after <= c + 1 /\ q.after <= q.through /\ (q.afterKey = 0 => q.after = c)
    /\ a.nextAfter <= q.through
    /\ n = IF a.nextKey = 0 THEN a.nextAfter ELSE Larger(c, a.nextAfter - 1)
    /\ next = None \/ next.afterKey = 0 \/ (next.after = a.nextAfter /\ next.afterKey = a.nextKey)

(* A row that becomes known was asked for, and the answer has it.           *)
LEMMA AskedFor ==
    ASSUME NEW q \in Requests, q # None, NEW a \in Answers, NEW n, NEW next, NEW c, Advanced(n, next, q, a, c),
           NEW row, row.revision \in Nat, NEW k \in Nat, SeenBy(row, k, n, next), ~SeenBy(row, k, c, q)
    PROVE  Asked(row, k, q) /\ Answered(row, k, a)
<1>1. PICK rev \in Nat : rev = row.revision
  OBVIOUS
<1>2. /\ q.after \in Nat /\ q.through \in Nat /\ q.afterKey \in Nat /\ a.nextAfter \in Nat /\ a.nextKey \in Nat /\ c \in Nat
  BY DEF Requests, Answers, Advanced
<1>3. /\ rev > c /\ ~(q.afterKey # 0 /\ rev = q.after /\ k <= q.afterKey)
  BY <1>1, <1>2 DEF SeenBy
<1>4. rev <= n \/ (a.nextKey # 0 /\ rev = a.nextAfter /\ k <= a.nextKey)
  BY <1>1 DEF SeenBy, Advanced
<1>5. n = IF a.nextKey = 0 THEN a.nextAfter ELSE Larger(c, a.nextAfter - 1)
  BY DEF Advanced
<1>6. /\ c <= q.after /\ q.after <= c + 1 /\ q.after <= q.through /\ (q.afterKey = 0 => q.after = c) /\ a.nextAfter <= q.through
  BY DEF Advanced
<1>7. a.nextKey = 0 \/ rev < a.nextAfter \/ (rev = a.nextAfter /\ k <= a.nextKey)
  <2>1. CASE rev <= n /\ a.nextKey # 0
    BY <1>2, <1>3, <1>5, <2>1 DEF Larger
  <2> QED  BY <1>4, <2>1
<1>8. rev <= q.through
  BY <1>2, <1>4, <1>5, <1>6, <1>7
<1>9. rev > q.after \/ (q.afterKey # 0 /\ rev = q.after /\ rev > 0 /\ k > q.afterKey)
  BY <1>2, <1>3, <1>6
<1> QED  BY <1>1, <1>7, <1>8, <1>9 DEF Asked, Answered

(* Everything known is on the pages.                                        *)
LEMMA MergedLoaded ==
    ASSUME NEW ps, NEW q, NEW rows, Mergeable(ps, q, rows), NEW new, Merged(new, ps, q.answer.patches), q # None,
           NEW n, NEW next, NEW c, Advanced(n, next, q, q.answer, c),
           Loaded(ItemsOfPages(ps), ps[1].before, High, rows, c, q)
    PROVE  Loaded(ItemsOfPages(new), new[1].before, High, rows, n, next)
<1>0. /\ 1 \in DOMAIN ps /\ ps[1].before \in Nat /\ Seqs \subseteq Nat
  BY MergeFields
<1>00. /\ DOMAIN new = DOMAIN ps
       /\ \A i \in DOMAIN ps : new[i].items = ItemsMerged(ps, q.answer.patches, i) /\ new[i].before = ps[i].before
  BY DEF Merged
<1>1. PICK low : low = ps[1].before /\ low = new[1].before
  BY <1>0, <1>00
<1> SUFFICES ASSUME NEW k \in Seqs, rows[k].body # None, SeenBy(rows[k], k, n, next), low <= k, k < High
             PROVE  Shown(ItemsOfPages(new), rows[k], k)
  BY <1>1 DEF Loaded
<1>2. PICK row : row = rows[k]
  OBVIOUS
<1>3. row.revision \in Nat
  BY <1>2 DEF Mergeable
<1>4. ASSUME NEW p \in q.answer.patches, p.key = k, p.revision = row.revision
      PROVE  Shown(ItemsOfPages(new), row, k)
  <2>1. p \in PlacedIn(ps, q.answer.patches) /\ p.item.key = p.key /\ p.item.revision = p.revision
    <3>1. p.revision = rows[p.key].revision /\ ps[1].before <= p.key
      BY <1>1, <1>2, <1>4
    <3> QED  BY <3>1, NewestPlaced
  <2>2. PICK h \in DOMAIN ps : h = HomeOf(ps, p)
    BY HomeIs
  <2>3. p.item \in ItemsMerged(ps, q.answer.patches, h)
    BY <2>1, <2>2 DEF ItemsMerged
  <2>4. p.item \in ItemsOfPages(new)
    BY <1>00, <2>3, ItemsAre
  <2> QED  BY <1>4, <2>1, <2>4 DEF Shown
<1>5. CASE SeenBy(row, k, c, q)
  <2>1. PICK x \in ItemsOfPages(ps) : x.key = k /\ x.revision = row.revision
    BY <1>1, <1>2, <1>5 DEF Loaded, Shown
  <2>2. PICK j \in DOMAIN ps : x \in ps[j].items
    BY ItemsAre
  <2>3. CASE x \in ItemsMerged(ps, q.answer.patches, j)
    <3>1. x \in ItemsOfPages(new)
      BY <1>00, <2>3, ItemsAre
    <3> QED  BY <1>2, <2>1, <3>1 DEF Shown
  <2>4. CASE x \notin ItemsMerged(ps, q.answer.patches, j)
    <3>1. PICK p \in q.answer.patches : p.key = k
      BY <2>1, <2>2, <2>4, KeyKept
    <3>2. PatchTrue(p, q, rows) /\ p.revision \in Nat
      BY MergeFields
    <3>3. p.revision <= row.revision /\ q.after <= p.revision
      BY <1>2, <3>1, <3>2 DEF PatchTrue
    <3>4. row.revision <= q.after
      <4>1. q.after \in Nat /\ c \in Nat /\ c <= q.after
        BY DEF Mergeable, Requests, Advanced
      <4> QED  BY <1>3, <1>5, <4>1 DEF SeenBy
    <3>5. q.after \in Nat
      BY DEF Mergeable, Requests
    <3>6. p.revision = row.revision
      BY <1>3, <3>2, <3>3, <3>4, <3>5
    <3> QED  BY <1>2, <1>4, <3>1, <3>6
  <2> QED  BY <2>3, <2>4
<1>6. CASE ~SeenBy(row, k, c, q)
  <2>1. q \in Requests /\ q.answer \in Answers /\ k \in Nat
    BY <1>0 DEF Mergeable
  <2>2. Asked(row, k, q) /\ Answered(row, k, q.answer)
    BY <1>2, <1>3, <1>6, <2>1, AskedFor
  <2>3. PICK p \in q.answer.patches : p.key = k /\ p.revision = row.revision
    BY <1>2, <2>2 DEF Mergeable, PatchesTrue
  <2> QED  BY <1>2, <1>4, <2>3
<1> QED  BY <1>5, <1>6

(* The request after an answer was taken: the next page, or one from the    *)
(* cursor.                                                                  *)
Following(t, a) ==
    t = None \/ (t.answer = None /\ (t.afterKey = 0 \/ (t.after = a.nextAfter /\ t.afterKey = a.nextKey)))

(* What continues a catch-up is one.                                        *)
LEMMA NextRequest ==
    ASSUME NEW r \in Readers, NEW a \in Answers, NEW request \in Requests, NEW n \in Nat, r.recovering, older = None,
           NEW q, q = Continue([r EXCEPT !.applied = n, !.received = Larger(@, n)], a, request)
    PROVE  q \in Readers /\ Following(q.catchup, a)
<1>1. PICK s : s = [r EXCEPT !.applied = n, !.received = Larger(@, n)]
  OBVIOUS
<1>2. Larger(r.received, n) \in Nat
  BY ReaderFields DEF Larger
<1>3. s \in Readers /\ s.recovering /\ s.applied \in Nat /\ s.target \in Nat
  BY <1>1, <1>2 DEF Readers
<1>4. Continued(q, s, a, request)
  BY <1>1, <1>3, ContinueIs
<1>5. a.nextAfter \in Nat /\ a.nextKey \in Nat /\ request.through \in Nat
  BY DEF Answers, Requests
<1>6. q \in Readers /\ \/ q.catchup = None
                       \/ q.catchup = Request(a.nextAfter, request.through, a.nextKey)
                       \/ q.catchup = Request(s.applied, s.target, 0)
  BY <1>4 DEF Continued
<1>7. PICK t : t = q.catchup
  OBVIOUS
<1>8. CASE t = Request(a.nextAfter, request.through, a.nextKey)
  <2>1. t.after = a.nextAfter /\ t.afterKey = a.nextKey /\ t.answer = None
    BY <1>5, <1>8, RequestIs
  <2> QED  BY <1>6, <1>7, <2>1 DEF Following
<1>9. CASE t = Request(s.applied, s.target, 0)
  <2>1. t.afterKey = 0 /\ t.answer = None
    BY <1>3, <1>9, RequestIs
  <2> QED  BY <1>6, <1>7, <2>1 DEF Following
<1> QED  BY <1>6, <1>7, <1>8, <1>9 DEF Following

(* An answer is merged.                                                     *)
LEMMA TrueApplies == FollowOk /\ TrueOk /\ FollowOk' /\ CatchupApplies => TrueOk'
<1> SUFFICES ASSUME FollowOk, TrueOk, FollowOk', CatchupApplies PROVE TrueOk'
  OBVIOUS
<1>1. /\ reader # None /\ reader.catchup # None /\ reader.catchup.answer # None /\ older = None /\ older' = None
      /\ UNCHANGED <<stored, format>>
  BY DEF CatchupApplies, MayWrite, server
<1>2. CASE format = "events"
  BY <1>1, <1>2, TrueEventsNext
<1>3. CASE format # "events"
  <2>0. ServerOk /\ format = "transcript"
    BY <1>3, ClientFields DEF FollowOk
  <2>1. /\ reader \in Readers /\ Ask = reader.catchup /\ Ask # None /\ Ask \in Requests
        /\ RequestOk(Ask, reader, format) /\ reader.applied = Last(pages).cursor /\ ReaderOk(reader, format, Cursor)
    BY <1>1, ClientFields, WriterFields DEF Ask
  <2>2. PICK q \in Requests : q = Ask
    BY <2>1
  <2>3. PICK a \in Answers : a = q.answer
    BY <1>1, <2>1, <2>2 DEF Requests
  <2>4. PICK ps \in Seq(Pages) : ps = pages
    BY <2>0, ClientFields
  <2>5. PICK rows, new, r : rows = stored.rows /\ new = pages' /\ r = reader'
    OBVIOUS
  <2>6. PICK n : n = SafeCursor(reader, a)
    OBVIOUS
  <2>7. /\ new = Merge(ps, a.patches, n)
        /\ r = Continue([reader EXCEPT !.applied = n, !.received = Larger(@, n)], a, q)
    BY <2>0, <2>1, <2>2, <2>3, <2>4, <2>5, <2>6 DEF CatchupApplies
  <2>8. PICK c \in Nat : c = reader.applied /\ c = Last(ps).cursor
    BY <2>1, <2>4, ReaderFields
  <2>9. /\ q.after \in Nat /\ q.through \in Nat /\ q.afterKey \in Nat /\ a.nextAfter \in Nat /\ a.nextKey \in Nat
        /\ a.patches \subseteq Patches
    BY DEF Requests, Answers
  <2>10. /\ c <= q.after /\ q.after <= c + 1 /\ q.after <= q.through /\ (q.afterKey = 0 => q.after = c)
         /\ q.after <= a.nextAfter /\ a.nextAfter <= q.through /\ (a.nextKey = 0 => a.nextAfter = q.through)
    <3>1. RequestOk(q, reader, format) /\ q.answer # None
      BY <1>1, <2>1, <2>2
    <3> QED  BY <2>0, <2>3, <2>8, <3>1 DEF RequestOk
  <2>11. n = IF a.nextKey = 0 THEN a.nextAfter ELSE Larger(c, a.nextAfter - 1)
    BY <2>6, <2>8 DEF SafeCursor
  <2>12. n \in Nat /\ c <= n
    BY <2>9, <2>10, <2>11 DEF Larger
  <2>13. ps # <<>>
    BY <1>1, <2>4 DEF FollowOk, ClientOk
  <2>14. /\ Len(new) = Len(ps) /\ DOMAIN new = DOMAIN ps /\ Merged(new, ps, a.patches)
         /\ new[Len(ps)].cursor = Larger(ps[Len(ps)].cursor, n)
    BY <2>7, <2>9, <2>12, <2>13, MergeIs DEF Merged
  <2>15. Last(new).cursor = n
    <3>1. ps[Len(ps)].cursor = c
      BY <2>8 DEF Last
    <3>2. Larger(c, n) = n
      BY <2>12 DEF Larger
    <3> QED  BY <2>14, <3>1, <3>2 DEF Last
  <2>16. r \in Readers /\ Following(r.catchup, a)
    <3>1. reader.recovering
      BY <1>1, <2>1 DEF ReaderOk
    <3> QED  BY <1>1, <2>1, <2>7, <2>12, <3>1, NextRequest
  <2>17. PICK next : next = r.catchup
    OBVIOUS
  <2>18. Ask' = next
    BY <2>5, <2>16, <2>17, NoneAssumption DEF Ask
  <2>19. Mergeable(ps, q, rows)
    <3>1. PagesTrue(ps, rows)
      BY <2>0, <2>4, <2>5, <2>13 DEF TrueOk
    <3>2. PatchesTrue(q, rows)
      BY <1>1, <2>0, <2>1, <2>2, <2>5 DEF TrueOk
    <3>3. \A k \in Seqs : rows[k].revision \in Nat
      BY <2>0, <2>5, StoredFields
    <3> QED  BY <2>3, <2>13, <3>1, <3>2, <3>3 DEF Mergeable
  <2>20. Advanced(n, next, q, q.answer, c)
    BY <2>3, <2>10, <2>11, <2>16, <2>17 DEF Advanced, Following
  <2>21. Loaded(ItemsOfPages(ps), ps[1].before, High, rows, c, q)
    BY <2>0, <2>2, <2>4, <2>5, <2>8, <2>13 DEF TrueOk
  <2>22. Merged(new, ps, q.answer.patches) /\ q # None
    BY <2>1, <2>2, <2>3, <2>14
  <2>23. PagesTrue(new, rows)
    BY <2>19, <2>22, MergedPages
  <2>24. Loaded(ItemsOfPages(new), new[1].before, High, rows, n, next)
    BY <2>19, <2>20, <2>21, <2>22, MergedLoaded
  <2>25. next = None \/ next.answer = None
    BY <2>16, <2>17 DEF Following
  <2>26. stored'.rows = rows /\ format' = format /\ High' = High
    BY <1>1, <2>5 DEF High
  <2> QED  BY <1>1, <2>5, <2>15, <2>18, <2>23, <2>24, <2>25, <2>26 DEF TrueOk
<1> QED  BY <1>2, <1>3

(* Nothing is loaded at first, or only raw events.                          *)
LEMMA TrueInit == Init => TrueOk
<1> SUFFICES ASSUME Init PROVE TrueOk
  OBVIOUS
<1>1. older = None /\ Ask = None
  BY DEF Init, Ask
<1>2. format = "transcript" => pages = <<>>
  BY DEF Init
<1> QED  BY <1>1, <1>2 DEF TrueOk

(* Every step keeps it.                                                     *)
LEMMA TrueNext == FollowOk /\ ShownOk /\ TrueOk /\ FollowOk' /\ [Next]_vars => TrueOk'
<1>1. TrueOk /\ UNCHANGED vars => TrueOk'
  BY DEF vars, TrueOk, Ask, High
<1> QED
  BY <1>1, TrueCommit, TrueConnection, TrueReceive, TrueTimer, TrueAnswered, TrueFails, TrueApplies, TruePublish,
     TrueEarlier, TrueEarlierAnswered, TrueArrives, TrueFirst, TrueReturn, TruePrune DEF Next

(* The client's cursor is truthful, whatever was appended, paged, dropped,  *)
(* retried or loaded in between.                                            *)
THEOREM TruthfulInvariant == Spec => []CursorIsTruthful
<1>1. Spec => [](FollowOk /\ ShownOk /\ TrueOk)
  BY FollowInit, FollowNext, ShownInit, ShownNext, TrueInit, TrueNext, PTL DEF Spec
<1> QED  BY <1>1, TrueImplies, PTL
=============================================================================
