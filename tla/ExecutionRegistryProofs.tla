----------------------- MODULE ExecutionRegistryProofs -----------------------
(***************************************************************************)
(* The registry implements Invocation; whoever admits does so in order and  *)
(* within the capacity; and no two live hosts share a provider session.     *)
(* The first two look only at the states of the rows and at the             *)
(* invocations, so every step is first reduced to what it does to them      *)
(* (Transitions).  The third needs SessionsOwned: the rows that are live    *)
(* have different owner keys, and a host that speaks to its provider does   *)
(* so under the key of its row.                                             *)
(*                                                                         *)
(* The second half is about commands: their receipts, the answers among     *)
(* them, and the order in which they are written.                           *)
(***************************************************************************)
EXTENDS ExecutionInvocation, ExecutionSystemProofs

StateKept(e) == /\ rows'[e].state = rows[e].state
                /\ provider'[e].invoked = provider[e].invoked

Reserves(e) == /\ rows[e].state = "absent" /\ rows'[e].state = "queued"
               /\ provider[e].invoked = 0 /\ provider'[e].invoked = 0
Claims(e) == /\ rows[e].state = "starting" /\ rows'[e].state = "running"
             /\ provider'[e].invoked = provider[e].invoked
Invokes(e) == /\ rows[e].state = "running" /\ rows'[e].state = "running"
              /\ provider[e].invoked = 0 /\ provider'[e].invoked = 1
Ends(e) == /\ rows[e].state # "absent" /\ rows'[e].state \in Ended
           /\ provider'[e].invoked = provider[e].invoked

Moves(e) == Reserves(e) \/ Claims(e) \/ Invokes(e) \/ Ends(e)

Quiet == \A e \in Executions : StateKept(e)
Admits == AdmitExecutions /\ capacity' = capacity
            /\ \A e \in Executions : provider'[e].invoked = provider[e].invoked
OneMoves == \E e \in Executions : Moves(e) /\ \A f \in Executions \ {e} : StateKept(f)

(* The web inserts, withdraws and ends one row at a time, or admits.        *)
LEMMA WebTransitions ==
    ASSUME Invariant, WebNext
    PROVE  Quiet \/ Admits \/ OneMoves
<1> USE DEF Invariant
<1>1. ASSUME NEW e \in Executions, NEW args \in Args, OpenReserves(e, args)
      PROVE  OneMoves
  <2>1. /\ UNCHANGED <<hosts, provider>>
        /\ rows[e].state = "absent" /\ rows'[e].state = "queued"
        /\ \A f \in Executions \ {e} : rows'[f] = rows[f]
    BY <1>1, OpenEffect
  <2>2. provider[e].invoked = 0
    BY <2>1 DEF Ownership, RowOwns
  <2> QED  BY <2>1, <2>2 DEF OneMoves, Moves, Reserves, StateKept
<1>2. ASSUME NEW e \in Executions, NEW args \in Args, OpenFindsReserved(e, args)
      PROVE  Quiet
  BY <1>2, FoundEffect DEF Quiet, StateKept
<1>3. ASSUME OpenAdmits \/ WebAdmits
      PROVE  Admits
  <2>1. AdmitExecutions /\ UNCHANGED <<hosts, provider>>
    BY <1>3, WebAdmitEffect
  <2> QED  BY <1>3, <2>1 DEF Admits, OpenAdmits, WebAdmits
<1>4. ASSUME NEW t \in Tasks, ReconcileReads(t)
      PROVE  Quiet
  BY <1>4, ReadsEffect DEF Quiet, StateKept
<1>5. ASSUME ReconcileProbes
      PROVE  Quiet
  <2>1. doing.exec \in Executions /\ doing.pid \in Attempts
    BY <1>5 DEF ReconcileProbes, Ownership, CheckOwns
  <2>2. RowsKept /\ UNCHANGED <<hosts, provider>>
    BY <1>5, <2>1, ProbesEffect
  <2> QED  BY <2>2 DEF Quiet, StateKept, RowsKept, RowKept
<1>6. ASSUME ReconcileMarksLost
      PROVE  OneMoves
  <2> DEFINE e == doing.exec
  <2>1. e \in Executions /\ doing.pid \in Attempts /\ rows[e].pid = doing.pid
    BY <1>6 DEF ReconcileMarksLost, Ownership, CheckOwns
  <2>2. /\ UNCHANGED <<hosts, provider>> /\ rows'[e].state \in Ended
        /\ \A f \in Executions \ {e} : rows'[f] = rows[f]
    BY <1>6, <2>1, MarksLostEffect
  <2>3. rows[e].state # "absent"
    BY <2>1, NoneIsNoProcess DEF Ownership, RowOwns
  <2> HIDE DEF e
  <2> QED  BY <2>1, <2>2, <2>3 DEF OneMoves, Moves, Ends, StateKept
<1>7. ASSUME NEW t \in Tasks, HandleCompletes(t)
      PROVE  Quiet
  BY <1>7, CompletesEffect DEF Quiet, StateKept
<1>8. ASSUME NEW t \in Tasks, NEW c \in Commands, NEW body \in Bodies, WebCommands(t, c, body)
      PROVE  Quiet
  <2>1. RowsKept /\ UNCHANGED <<hosts, provider, doing>>
    BY <1>8, CommandsEffect
  <2> QED  BY <2>1 DEF Quiet, StateKept, RowsKept, RowKept
<1>9. ASSUME NEW t \in Tasks, WebCancelsBeforeStart(t)
      PROVE  OneMoves
  <2>1. /\ view[t] \in Executions /\ UNCHANGED <<hosts, provider, doing>>
        /\ rows[view[t]].state \in {"queued", "starting"} /\ rows'[view[t]].state \in Ended
        /\ \A f \in Executions \ {view[t]} : rows'[f] = rows[f]
    BY <1>9, CancelEffect
  <2> QED  BY <2>1 DEF OneMoves, Moves, Ends, StateKept
<1>10. ASSUME WebCrashes \/ WebStarts
       PROVE  Quiet
  BY <1>10, CrashAndStartEffect DEF Quiet, StateKept
<1> QED  BY <1>1, <1>2, <1>3, <1>4, <1>5, <1>6, <1>7, <1>8, <1>9, <1>10 DEF WebNext

(* A host claims, invokes and ends its own row, and admits as its last act. *)
LEMMA HostTransitions ==
    ASSUME Invariant, NEW e \in Executions, NEW k \in Attempts, HostNext(e, k)
    PROVE  Quiet \/ Admits \/ OneMoves
<1> USE DEF Invariant
<1>0. HostOwns(e, k) /\ RowOwns(e)
  BY DEF Ownership
<1>1. CASE LaunchArrives(e, k)
  BY <1>1, LaunchEffect DEF Quiet, StateKept
<1>2. CASE HostClaims(e, k)
  <2>1. /\ UNCHANGED <<provider, doing>>
        /\ rows[e].state = "starting" /\ rows'[e].state = "running"
        /\ \A f \in Executions \ {e} : rows'[f] = rows[f]
    BY <1>2, ClaimEffect
  <2> QED  BY <2>1 DEF OneMoves, Moves, Claims, StateKept
<1>3. CASE HostClaimRefused(e, k) \/ HostCrashes(e, k)
  BY <1>3 DEF HostClaimRefused, HostCrashes, Quiet, StateKept
<1>4. CASE HostCloses(e, k)
  BY <1>4 DEF HostCloses, Admits
<1>5. CASE HostInvokes(e, k)
  <2>1. /\ UNCHANGED <<rows, doing>> /\ hosts[e][k].pc = "claimed"
        /\ provider'[e].invoked = provider[e].invoked + 1
        /\ \A f \in Executions \ {e} : provider'[f] = provider[f]
    BY <1>5, InvokeEffect
  <2>2. rows[e].state = "running" /\ provider[e].invoked = 0
    BY <1>0, <2>1 DEF HostOwns, Working
  <2> QED  BY <2>1, <2>2 DEF OneMoves, Moves, Invokes, StateKept
<1>6. CASE Works(e, k)
  <2>1. UNCHANGED <<rows, doing>> /\ CallsKept
    BY <1>6, WorkEffect
  <2> QED  BY <2>1 DEF Quiet, StateKept, CallsKept
<1>7. ASSUME NEW c \in Commands, NEW took \in BOOLEAN, HostWrites(e, k, c, took)
      PROVE  Quiet
  <2>1. UNCHANGED <<rows, doing>> /\ \A f \in Executions : provider'[f].invoked = provider[f].invoked
    BY <1>7, WriteEffect
  <2> QED  BY <2>1 DEF Quiet, StateKept
<1>8. CASE Commits(e, k)
  <2>1. RowsKept /\ UNCHANGED <<provider, doing>>
    BY <1>8, CommitEffect
  <2> QED  BY <2>1 DEF Quiet, StateKept, RowsKept, RowKept
<1>9. CASE PersistPending(e, k)
  <2>1. RowsKept /\ UNCHANGED <<provider, doing>>
    BY <1>9, PendingEffect
  <2> QED  BY <2>1 DEF Quiet, StateKept, RowsKept, RowKept
<1>10. CASE PersistFinish(e, k)
  <2>1. /\ UNCHANGED <<provider, doing>> /\ hosts[e][k].tail # <<>> /\ rows'[e].state \in Ended
        /\ \A f \in Executions \ {e} : rows'[f] = rows[f]
    BY <1>10, FinishEffect
  <2>2. rows[e].state # "absent"
    BY <1>0, <2>1, NoneIsNoProcess DEF HostOwns, RowOwns
  <2> QED  BY <2>1, <2>2 DEF OneMoves, Moves, Ends, StateKept
<1>11. CASE HostFails(e, k)
  BY <1>11, FailEffect DEF Quiet, StateKept
<1>12. CASE HostFailureExits(e, k) \/ OrphanEnds(e, k)
  BY <1>12, EndEffect DEF Quiet, StateKept
<1> QED  BY <1>1, <1>2, <1>3, <1>4, <1>5, <1>6, <1>7, <1>8, <1>9, <1>10, <1>11, <1>12
         DEF HostNext, Works, Commits, Persists

(* Every step of the system keeps all states and invocations, admits, or    *)
(* moves a single execution.                                                *)
LEMMA Transitions ==
    ASSUME Invariant, [Next]_vars
    PROVE  Quiet \/ Admits \/ OneMoves
<1>1. CASE WebNext
  BY <1>1, WebTransitions
<1>2. ASSUME NEW e \in Executions, LaunchIsLost(e) PROVE Quiet
  BY <1>2, LaunchLostEffect DEF Invariant, Quiet, StateKept
<1>3. ASSUME NEW e \in Executions, NEW k \in Attempts, HostNext(e, k)
      PROVE  Quiet \/ Admits \/ OneMoves
  BY <1>3, HostTransitions
<1>4. CASE UNCHANGED vars
  BY <1>4 DEF vars, Quiet, StateKept
<1> QED  BY <1>1, <1>2, <1>3, <1>4 DEF Next
-----------------------------------------------------------------------------
(* The refinement.                                                          *)

(* The phase of an execution that keeps its state and its invocations.      *)
LEMMA PhaseKept ==
    ASSUME NEW e \in Executions, StateKept(e)
    PROVE  PhaseOf(e)' = PhaseOf(e)
BY DEF StateKept, PhaseOf

(* Admission keeps every phase: a reservation stays a reservation.          *)
LEMMA AdmissionKeepsPhase ==
    ASSUME Invariant, Admits, NEW e \in Executions
    PROVE  PhaseOf(e)' = PhaseOf(e)
<1>1. /\ provider'[e].invoked = provider[e].invoked
      /\ \/ rows'[e].state = rows[e].state
         \/ rows[e].state = "queued" /\ rows'[e].state = "starting"
  BY AdmitEffect DEF Admits, Invariant
<1> QED  BY <1>1 DEF PhaseOf, Ended

(* What a single execution does is a step of Invocation or none.            *)
LEMMA MovePhases ==
    ASSUME TypeOK, NEW e \in Executions, Moves(e)
    PROVE  \/ PhaseOf(e)' = PhaseOf(e)
           \/ PhaseOf(e) = "none" /\ PhaseOf(e)' = "reserved"
           \/ PhaseOf(e) = "reserved" /\ PhaseOf(e)' = "invoked"
           \/ PhaseOf(e) \in {"reserved", "invoked"} /\ PhaseOf(e)' = "over"
<1>1. CASE Reserves(e)
  BY <1>1 DEF Reserves, PhaseOf, Ended
<1>2. CASE Claims(e)
  BY <1>2 DEF Claims, PhaseOf, Ended
<1>3. CASE Invokes(e)
  BY <1>3 DEF Invokes, PhaseOf, Ended
<1>4. CASE Ends(e)
  BY <1>4 DEF Ends, PhaseOf, Ended
<1> QED  BY <1>1, <1>2, <1>3, <1>4 DEF Moves

(* Every step of the system is a step of Invocation on the phases, or none. *)
LEMMA InvocationStep ==
    ASSUME Invariant, [Next]_vars
    PROVE  [Registry!Next]_([e \in Executions |-> PhaseOf(e)])
<1> DEFINE before == [e \in Executions |-> PhaseOf(e)]
           after == [e \in Executions |-> PhaseOf(e)']
<1>1. CASE Quiet \/ Admits
  <2>1. \A e \in Executions : PhaseOf(e)' = PhaseOf(e)
    BY <1>1, PhaseKept, AdmissionKeepsPhase DEF Quiet
  <2>2. after = before
    BY <2>1
  <2> QED  BY <2>2
<1>2. CASE OneMoves
  <2>1. PICK e \in Executions : Moves(e) /\ \A f \in Executions \ {e} : StateKept(f)
    BY <1>2 DEF OneMoves
  <2>2. \A f \in Executions \ {e} : PhaseOf(f)' = PhaseOf(f)
    BY <2>1, PhaseKept
  <2>3. after = [before EXCEPT ![e] = PhaseOf(e)']
    BY <2>2
  <2>4. CASE PhaseOf(e)' = PhaseOf(e)
    <3>1. after = before
      BY <2>3, <2>4
    <3> QED  BY <3>1
  <2>5. CASE PhaseOf(e)' # PhaseOf(e)
    <3>1. \/ PhaseOf(e) \in {"none"} /\ PhaseOf(e)' = "reserved"
          \/ PhaseOf(e) \in {"reserved"} /\ PhaseOf(e)' = "invoked"
          \/ PhaseOf(e) \in {"reserved", "invoked"} /\ PhaseOf(e)' = "over"
      BY <2>1, <2>5, MovePhases DEF Invariant
    <3>2. before[e] = PhaseOf(e) /\ after[e] = PhaseOf(e)'
      OBVIOUS
    <3> HIDE DEF before, after
    <3>3. \/ before[e] \in {"none"} /\ after[e] = "reserved" /\ after = [before EXCEPT ![e] = "reserved"]
          \/ before[e] \in {"reserved"} /\ after[e] = "invoked" /\ after = [before EXCEPT ![e] = "invoked"]
          \/ /\ before[e] \in {"reserved", "invoked"} /\ after[e] = "over"
             /\ after = [before EXCEPT ![e] = "over"]
      BY <2>3, <3>1, <3>2
    <3>4. Registry!Reserve(e) \/ Registry!Invoke(e) \/ Registry!End(e)
      BY <3>3 DEF Registry!Reserve, Registry!Invoke, Registry!End, Registry!Becomes, before, after
    <3> QED  BY <3>4 DEF Registry!Next
  <2> QED  BY <2>4, <2>5
<1> QED  BY <1>1, <1>2, Transitions

(* Before anything is reserved every phase is "none".                       *)
LEMMA InvocationInit == Init => Registry!Init
<1> SUFFICES ASSUME Init PROVE Registry!Init
  OBVIOUS
<1>1. \A e \in Executions : PhaseOf(e) = "none"
  BY DEF Init, PhaseOf, NoRow
<1> QED  BY <1>1 DEF Registry!Init

(* The registry, its launches and its hosts implement Invocation: whatever  *)
(* is repeated, late, lost or crashes, an execution is reserved, invoked at *)
(* most once and over for good, and one that is over is never invoked       *)
(* (claim, finish, cancelBeforeStart, admit), for any number of them.       *)
THEOREM ImplementsInvocation == Spec => InvocationIsImplemented
<1>1. Invariant /\ [Next]_vars => [Registry!Next]_([e \in Executions |-> PhaseOf(e)])
  BY InvocationStep
<1> QED  BY <1>1, InvocationInit, InvariantHolds, PTL DEF Spec, InvocationIsImplemented, Registry!Spec
-----------------------------------------------------------------------------
(* Admission.                                                               *)

(* A set of executions that is not empty has a newest one.                  *)
LEMMA Newest ==
    ASSUME NEW S, S \subseteq Executions, S # {}
    PROVE  \E e \in S : \A f \in S : f <= e
<1> DEFINE younger(e) == MaxExecutions - e
           D == {younger(e) : e \in S}
<1>1. \A e \in S : e \in Nat /\ younger(e) \in Nat
  BY StoreAssumption DEF Executions
<1>2. D \subseteq Nat
  BY <1>1
<1>3. D # {}
  <2>1. PICK e \in S : TRUE
    OBVIOUS
  <2>2. younger(e) \in D
    BY <2>1
  <2> QED  BY <2>2
<1>4. \E x \in D : \A y \in D : ~(<<y, x>> \in OpToRel(<, Nat))
  <2> HIDE DEF D
  <2> QED  BY <1>2, <1>3, NatLessThanWellFounded, WFMin, Zenon
<1>5. PICK x \in D : \A y \in D : ~(<<y, x>> \in OpToRel(<, Nat))
  BY <1>4
<1>6. \A y \in D : ~(y < x)
  BY <1>2, <1>5 DEF OpToRel
<1>7. PICK e \in S : x = younger(e)
  OBVIOUS
<1>8. ASSUME NEW f \in S PROVE f <= e
  <2>1. younger(f) \in D
    OBVIOUS
  <2>2. ~(younger(f) < younger(e))
    BY <1>6, <1>7, <2>1
  <2>3. e \in Nat /\ f \in Nat /\ MaxExecutions \in Nat
    BY <1>1, StoreAssumption
  <2> QED  BY <2>2, <2>3
<1> QED  BY <1>8

(* Sets of executions are finite, and the larger counts at least as many.   *)
LEMMA CountOfExecutions ==
    ASSUME NEW S, S \subseteq Executions
    PROVE  /\ IsFiniteSet(S) /\ Cardinality(S) \in Nat
           /\ \A T \in SUBSET S : Cardinality(T) \in Nat /\ Cardinality(T) <= Cardinality(S)
<1>1. IsFiniteSet(Executions)
  <2>1. 1 \in Int /\ MaxExecutions \in Int
    BY StoreAssumption
  <2>2. IsFiniteSet(1..MaxExecutions)
    BY <2>1, FS_Interval, Zenon
  <2> QED  BY <2>2 DEF Executions
<1>2. IsFiniteSet(S)
  BY <1>1, FS_Subset
<1> QED  BY <1>2, FS_Subset, FS_CardinalityType

(* admit fills free slots only: the newest of those it admits still had one *)
(* free after everything older was given its own.                           *)
LEMMA AdmittedFit ==
    ASSUME TypeOK, Admitted # {}
    PROVE  Cardinality(Admitted) + Occupied <= capacity
<1> DEFINE Older(e) == {f \in Rows({"queued"}) : f < e}
<1>0. Rows({"queued"}) \subseteq Executions /\ Rows({"starting", "running"}) \subseteq Executions
  BY DEF Rows
<1>1. Admitted \subseteq Rows({"queued"})
  BY DEF Admitted
<1>2. PICK e \in Admitted : \A f \in Admitted : f <= e
  BY <1>0, <1>1, Newest
<1>3. Cardinality(Older(e)) + Occupied < capacity
  BY <1>2 DEF Admitted
<1>4. Admitted \subseteq Older(e) \cup {e}
  <2>1. ASSUME NEW f \in Admitted, f # e PROVE f < e
    <3>1. e \in Nat /\ f \in Nat /\ f <= e
      BY <1>0, <1>1, <1>2, <2>1, StoreAssumption DEF Executions
    <3> QED  BY <2>1, <3>1
  <2> QED  BY <1>1, <2>1
<1>5. Older(e) \subseteq Executions /\ Older(e) \cup {e} \subseteq Executions /\ e \notin Older(e)
  <2>1. e \in Executions /\ ~(e < e)
    BY <1>0, <1>1, <1>2, StoreAssumption DEF Executions
  <2> QED  BY <1>0, <2>1
<1> HIDE DEF Older
<1>6. IsFiniteSet(Older(e)) /\ Cardinality(Older(e)) \in Nat
  BY <1>5, CountOfExecutions
<1>7. Cardinality(Older(e) \cup {e}) = Cardinality(Older(e)) + 1
  BY <1>5, <1>6, FS_AddElement
<1>8. Cardinality(Admitted) \in Nat /\ Cardinality(Admitted) <= Cardinality(Older(e) \cup {e})
  BY <1>4, <1>5, CountOfExecutions
<1>9. Occupied \in Nat /\ capacity \in Nat
  BY <1>0, CountOfExecutions, SystemAssumption DEF Occupied, TypeOK
<1> QED  BY <1>3, <1>6, <1>7, <1>8, <1>9

(* admit takes the reservations in the order they were made.                *)
LEMMA OlderIsAdmitted ==
    ASSUME TypeOK, NEW e \in Admitted, NEW f \in Rows({"queued"}), f < e
    PROVE  f \in Admitted
<1> DEFINE Older(g) == {h \in Rows({"queued"}) : h < g}
<1>1. Cardinality(Older(e)) + Occupied < capacity
  BY DEF Admitted
<1>2. Older(e) \subseteq Executions /\ Rows({"starting", "running"}) \subseteq Executions
  BY DEF Rows
<1>3. Older(f) \subseteq Older(e)
  <2>1. e \in Nat /\ \A h \in Rows({"queued"}) : h \in Nat
    BY StoreAssumption DEF Admitted, Rows, Executions
  <2> QED  BY <2>1
<1>4. /\ Cardinality(Older(e)) \in Nat /\ Cardinality(Older(f)) \in Nat
      /\ Cardinality(Older(f)) <= Cardinality(Older(e))
  <2> HIDE DEF Older
  <2> QED  BY <1>2, <1>3, CountOfExecutions
<1>5. Occupied \in Nat /\ capacity \in Nat
  BY <1>2, CountOfExecutions, SystemAssumption DEF Occupied, TypeOK
<1>6. Cardinality(Older(f)) + Occupied < capacity
  <2> HIDE DEF Older
  <2> QED  BY <1>1, <1>4, <1>5
<1> QED  BY <1>6 DEF Admitted

(* The slots taken after an admission are those taken before and one for    *)
(* each admitted reservation.                                               *)
LEMMA OccupiedAfterAdmission ==
    ASSUME TypeOK, Admits
    PROVE  /\ Occupied' = Occupied + Cardinality(Admitted)
           /\ \A e \in Executions : rows'[e].state =
                 IF e \in Admitted THEN "starting" ELSE rows[e].state
<1> DEFINE Busy == Rows({"starting", "running"})
           after == {e \in Executions : rows'[e].state \in {"starting", "running"}}
<1>1. rows' = AdmitRows /\ rows \in [Executions -> Row]
  BY DEF Admits, AdmitExecutions, TypeOK
<1>2. \A e \in Executions : rows'[e].state = IF e \in Admitted THEN "starting" ELSE rows[e].state
  <2> SUFFICES ASSUME NEW e \in Executions
               PROVE  rows'[e].state = IF e \in Admitted THEN "starting" ELSE rows[e].state
    OBVIOUS
  <2>1. rows[e] \in Row /\ [rows[e] EXCEPT !.state = "starting"].state = "starting"
    BY <1>1 DEF Row
  <2> QED  BY <1>1, <2>1 DEF AdmitRows
<1>3. Admitted \subseteq Executions /\ Admitted \cap Busy = {}
  BY DEF Admitted, Rows
<1>4. after = Busy \cup Admitted /\ Busy \subseteq Executions
  BY <1>2, <1>3 DEF Rows
<1>5. Occupied' = Cardinality(after)
  BY DEF Occupied, Rows
<1> HIDE DEF after
<1>6. IsFiniteSet(Busy) /\ IsFiniteSet(Admitted)
  BY <1>3, <1>4, CountOfExecutions
<1>7. Cardinality(Busy \cup Admitted) = Cardinality(Busy) + Cardinality(Admitted) - 0
  BY <1>3, <1>6, FS_Union, FS_EmptySet
<1>8. Cardinality(Busy) \in Nat /\ Cardinality(Admitted) \in Nat
  BY <1>6, FS_CardinalityType
<1>9. Occupied' = Occupied + Cardinality(Admitted)
  BY <1>4, <1>5, <1>7, <1>8 DEF Occupied
<1> QED  BY <1>2, <1>9

(* No other step takes a slot: a claim keeps its reservation's, and an end  *)
(* frees one.                                                               *)
LEMMA OthersTakeNoSlot ==
    ASSUME TypeOK, Quiet \/ OneMoves
    PROVE  /\ ~(Occupied' > Occupied)
           /\ \A e \in Executions : rows[e].state = "queued" => rows'[e].state # "starting"
<1> DEFINE Busy == Rows({"starting", "running"})
           after == {e \in Executions : rows'[e].state \in {"starting", "running"}}
<1>1. \A e \in Executions :
        /\ rows[e].state = "queued" => rows'[e].state # "starting"
        /\ rows'[e].state \in {"starting", "running"} => rows[e].state \in {"starting", "running"}
  <2>1. CASE Quiet
    BY <2>1 DEF Quiet, StateKept
  <2>2. CASE OneMoves
    BY <2>2 DEF OneMoves, Moves, Reserves, Claims, Invokes, Ends, Ended, StateKept
  <2> QED  BY <2>1, <2>2
<1>2. after \in SUBSET Busy /\ Busy \subseteq Executions
  BY <1>1 DEF Rows
<1>3. Occupied' = Cardinality(after)
  BY DEF Occupied, Rows
<1> HIDE DEF after
<1>4. Cardinality(after) \in Nat /\ Cardinality(Busy) \in Nat /\ Cardinality(after) <= Cardinality(Busy)
  BY <1>2, CountOfExecutions
<1> QED  BY <1>1, <1>3, <1>4 DEF Occupied

(* Every step that takes slots stays within the capacity it read, and none  *)
(* passes over an older reservation.                                        *)
LEMMA OrderlyStep ==
    ASSUME Invariant, [Next]_vars
    PROVE  /\ Occupied' > Occupied => Occupied' <= capacity
           /\ \A e, f \in Executions :
                rows[e].state = "queued" /\ rows[f].state = "queued" /\ f < e
                  /\ rows'[e].state = "starting" => rows'[f].state # "queued"
<1>0. TypeOK
  BY DEF Invariant
<1>1. CASE Quiet \/ OneMoves
  BY <1>0, <1>1, OthersTakeNoSlot
<1>2. CASE Admits
  <2>1. /\ Occupied' = Occupied + Cardinality(Admitted)
        /\ \A e \in Executions : rows'[e].state =
              IF e \in Admitted THEN "starting" ELSE rows[e].state
    BY <1>0, <1>2, OccupiedAfterAdmission
  <2>2. Admitted \subseteq Executions /\ Rows({"starting", "running"}) \subseteq Executions
    BY DEF Admitted, Rows
  <2>3. Occupied \in Nat /\ Cardinality(Admitted) \in Nat
    BY <2>2, CountOfExecutions DEF Occupied
  <2>4. Admitted = {} => Cardinality(Admitted) = 0
    BY FS_EmptySet
  <2>5. Occupied' > Occupied => Occupied' <= capacity
    <3>1. ASSUME Admitted # {} PROVE Cardinality(Admitted) + Occupied <= capacity
      BY <1>0, <3>1, AdmittedFit
    <3>2. CASE Admitted = {}
      BY <2>1, <2>3, <2>4, <3>2
    <3>3. CASE Admitted # {}
      BY <2>1, <2>3, <3>1, <3>3
    <3> QED  BY <3>2, <3>3
  <2>6. ASSUME NEW e \in Executions, NEW f \in Executions,
               rows[e].state = "queued", rows[f].state = "queued", f < e,
               rows'[e].state = "starting"
        PROVE  rows'[f].state # "queued"
    <3>1. e \in Admitted
      BY <2>1, <2>6
    <3>2. f \in Rows({"queued"})
      BY <2>6 DEF Rows
    <3>3. f \in Admitted
      BY <1>0, <2>6, <3>1, <3>2, OlderIsAdmitted
    <3> QED  BY <2>1, <3>3
  <2> QED  BY <2>5, <2>6
<1> QED  BY <1>1, <1>2, Transitions

(* Whoever admits, at any moment and between whatever other transactions:   *)
(* no slot beyond the stored capacity and no older reservation passed over  *)
(* (admit, reserve and claim together), for every number of executions.     *)
THEOREM AdmitsInOrder == Spec => AdmissionIsOrderly
<1>1. Invariant /\ [Next]_vars =>
        [/\ Occupied' > Occupied => Occupied' <= capacity
         /\ \A e, f \in Executions :
              rows[e].state = "queued" /\ rows[f].state = "queued" /\ f < e
                /\ rows'[e].state = "starting" => rows'[f].state # "queued"]_vars
  BY OrderlyStep
<1> QED  BY <1>1, InvariantHolds, PTL DEF Spec, AdmissionIsOrderly
-----------------------------------------------------------------------------
(* Sessions.  The registry keeps the owner keys of live rows apart (the     *)
(* unique index live_owner); that two hosts at work never share a session   *)
(* needs, besides, that a host's session is the owner key of its row from   *)
(* its launch until it has finished.                                        *)

Speaking == {"claimed", "serving", "finishing"}
Waiting == {"queued", "starting"}

OwnersDiffer ==
    \A e, f \in Executions :
        /\ rows[e].state \in Live /\ rows[f].state \in Live
        /\ rows[e].ownerKey = rows[f].ownerKey
        => e = f

(* A launch is requested for a reservation only, and a reservation that no  *)
(* process has claimed is owned by what its arguments ask for.              *)
LaunchesReserved == \A e \in launches : rows[e].state # "absent"
KeyIsRequested(e) ==
    rows[e].state \in Waiting => rows[e].ownerKey = OwnerOf(e, rows[e].args)

(* A host starts with the session it is to resume; once it has claimed, a   *)
(* session it knows is the owner key of its row.                            *)
SpeaksAsOwner(e, k) ==
    /\ hosts[e][k].pc = "booted" =>
         rows[e].state # "absent" /\ hosts[e][k].session = rows[e].args.resume
    /\ hosts[e][k].pc \in Speaking /\ hosts[e][k].session # None =>
         rows[e].ownerKey = hosts[e][k].session

SessionsOwned ==
    /\ OwnersDiffer
    /\ LaunchesReserved
    /\ \A e \in Executions : KeyIsRequested(e)
    /\ \A e \in Executions, k \in Attempts : SpeaksAsOwner(e, k)

(* What almost every step leaves alone.                                     *)
RowSteady(e) ==
    /\ SameKey(rows[e], rows'[e])
    /\ rows'[e].state \in Live => rows[e].state \in Live
    /\ rows'[e].state \in Waiting => rows[e].state \in Waiting
    /\ rows'[e].state = "absent" => rows[e].state = "absent"
HostSteady(e, k) ==
    /\ hosts'[e][k].pc = "booted" => hosts[e][k].pc = "booted"
    /\ hosts'[e][k].pc \in Speaking => hosts[e][k].pc \in Speaking
    /\ hosts'[e][k].pc \in Speaking \cup {"booted"} => hosts'[e][k].session = hosts[e][k].session

RowsSteady == \A e \in Executions : RowSteady(e)
HostsSteady == \A e \in Executions, k \in Attempts : HostSteady(e, k)
LaunchesSteady == \A e \in launches' : e \in launches \/ rows'[e].state # "absent"

(* A step that is steady keeps the sessions owned.                          *)
LEMMA SteadyStep ==
    ASSUME TypeOK, SessionsOwned, RowsSteady, HostsSteady, LaunchesSteady
    PROVE  SessionsOwned'
<1>1. OwnersDiffer'
  <2> SUFFICES ASSUME NEW e \in Executions, NEW f \in Executions,
                      rows'[e].state \in Live, rows'[f].state \in Live,
                      rows'[e].ownerKey = rows'[f].ownerKey
               PROVE  e = f
    BY DEF OwnersDiffer
  <2>1. RowSteady(e) /\ RowSteady(f) /\ OwnersDiffer
    BY DEF RowsSteady, SessionsOwned
  <2> QED  BY <2>1 DEF RowSteady, SameKey, OwnersDiffer
<1>2. LaunchesReserved'
  BY DEF SessionsOwned, LaunchesReserved, LaunchesSteady, RowsSteady, RowSteady, TypeOK
<1>3. ASSUME NEW e \in Executions PROVE KeyIsRequested(e)'
  <2>1. RowSteady(e) /\ KeyIsRequested(e)
    BY DEF RowsSteady, SessionsOwned
  <2> QED  BY <2>1 DEF RowSteady, SameKey, KeyIsRequested
<1>4. ASSUME NEW e \in Executions, NEW k \in Attempts PROVE SpeaksAsOwner(e, k)'
  <2>1. RowSteady(e) /\ HostSteady(e, k) /\ SpeaksAsOwner(e, k)
    BY DEF RowsSteady, HostsSteady, SessionsOwned
  <2> QED  BY <2>1 DEF RowSteady, HostSteady, SameKey, SpeaksAsOwner
<1> QED  BY <1>1, <1>2, <1>3, <1>4 DEF SessionsOwned

(* Nothing happens to the rows, to the hosts or to the launches.            *)
LEMMA StillIsSteady ==
    /\ UNCHANGED rows => RowsSteady
    /\ UNCHANGED hosts => HostsSteady
    /\ launches' \subseteq launches => LaunchesSteady
BY DEF RowsSteady, RowSteady, SameKey, HostsSteady, HostSteady, LaunchesSteady

(* One row is replaced by one with the same key, in the same state or at    *)
(* its end.                                                                 *)
LEMMA OneRowSteady ==
    ASSUME TypeOK, NEW e \in Executions, NEW row, UpdateRow(e, row), SameKey(rows[e], row),
           row.state = rows[e].state \/ (row.state \in Ended /\ rows[e].state # "absent")
    PROVE  RowsSteady
<1>1. rows'[e] = row /\ \A f \in Executions \ {e} : rows'[f] = rows[f]
  BY ReplacedRow
<1>2. RowSteady(e)
  BY <1>1 DEF RowSteady, Ended, Live, Waiting
<1>3. ASSUME NEW f \in Executions \ {e} PROVE RowSteady(f)
  BY <1>1 DEF RowSteady, SameKey
<1> QED  BY <1>2, <1>3 DEF RowsSteady

(* One host is replaced.                                                    *)
LEMMA OneHostSteady ==
    ASSUME TypeOK, NEW e \in Executions, NEW k \in Attempts, NEW host, SetHost(e, k, host),
           host.pc # "booted" \/ hosts[e][k].pc = "booted",
           host.pc \in Speaking => hosts[e][k].pc \in Speaking,
           host.pc \in Speaking \cup {"booted"} => host.session = hosts[e][k].session
    PROVE  HostsSteady
<1>1. hosts'[e][k] = host /\ OthersKept(e, k)
  BY ReplacedHost
<1> QED  BY <1>1 DEF HostsSteady, HostSteady, OthersKept

(* Admission moves waiting rows on and requests launches of reservations.   *)
LEMMA AdmissionSteady ==
    ASSUME TypeOK, AdmitExecutions
    PROVE  RowsSteady /\ LaunchesSteady
<1>1. rows \in [Executions -> Row] /\ rows' = AdmitRows
  BY DEF TypeOK, AdmitExecutions
<1>2. ASSUME NEW e \in Executions PROVE RowSteady(e)
  <2>1. SameKey(rows[e], rows'[e])
    BY <1>1, AdmissionKey
  <2>2. \/ rows'[e].state = rows[e].state
        \/ rows[e].state = "queued" /\ rows'[e].state = "starting"
    BY AdmitEffect
  <2> QED  BY <2>1, <2>2 DEF RowSteady, Live, Waiting
<1>3. LaunchesSteady
  BY <1>1 DEF LaunchesSteady, AdmitExecutions, Claimable
<1> QED  BY <1>2, <1>3 DEF RowsSteady

(* reserve inserts a row whose owner key no live row has.                   *)
LEMMA ReserveOwned ==
    ASSUME Invariant, SessionsOwned, NEW e \in Executions, NEW args \in Args, OpenReserves(e, args)
    PROVE  SessionsOwned'
<1>1. /\ TypeOK /\ UNCHANGED <<hosts, launches>>
      /\ rows[e].state = "absent" /\ rows'[e].state = "queued"
      /\ \A f \in Executions \ {e} : rows'[f] = rows[f]
  BY OpenEffect DEF Invariant, OpenReserves
<1>2. rows'[e].args = args /\ rows'[e].ownerKey = OwnerOf(e, args)
  BY <1>1, ReplacedRow, ReserveKey DEF OpenReserves
<1>3. \A f \in Executions \ {e} : rows[f].state \in Live => rows[f].ownerKey # OwnerOf(e, args)
  BY DEF OpenReserves, CanReserve, OwnerFree, Rows
<1>4. OwnersDiffer'
  <2> SUFFICES ASSUME NEW f \in Executions, NEW g \in Executions,
                      rows'[f].state \in Live, rows'[g].state \in Live,
                      rows'[f].ownerKey = rows'[g].ownerKey
               PROVE  f = g
    BY DEF OwnersDiffer
  <2>1. CASE f = e
    BY <1>1, <1>2, <1>3, <2>1
  <2>2. CASE g = e
    BY <1>1, <1>2, <1>3, <2>2
  <2>3. CASE f # e /\ g # e
    BY <1>1, <2>3 DEF SessionsOwned, OwnersDiffer
  <2> QED  BY <2>1, <2>2, <2>3
<1>5. LaunchesReserved'
  BY <1>1 DEF SessionsOwned, LaunchesReserved, TypeOK
<1>6. ASSUME NEW f \in Executions PROVE KeyIsRequested(f)'
  <2>1. CASE f = e
    BY <1>2, <2>1 DEF KeyIsRequested
  <2>2. CASE f # e
    BY <1>1, <2>2 DEF SessionsOwned, KeyIsRequested
  <2> QED  BY <2>1, <2>2
<1>7. ASSUME NEW f \in Executions, NEW k \in Attempts PROVE SpeaksAsOwner(f, k)'
  <2>1. CASE f = e
    <3>1. SpeaksAsOwner(e, k) /\ HostOwns(e, k)
      BY DEF SessionsOwned, Invariant, Ownership
    <3>2. hosts'[e][k].pc # "booted" /\ hosts'[e][k].pc \notin Speaking
      BY <1>1, <3>1 DEF SpeaksAsOwner, HostOwns, Working, Speaking
    <3> QED  BY <2>1, <3>2 DEF SpeaksAsOwner
  <2>2. CASE f # e
    BY <1>1, <2>2 DEF SessionsOwned, SpeaksAsOwner
  <2> QED  BY <2>1, <2>2
<1> QED  BY <1>4, <1>5, <1>6, <1>7 DEF SessionsOwned

(* Every transaction of the web keeps the sessions owned.                   *)
LEMMA WebSessions ==
    ASSUME Invariant, SessionsOwned, WebNext
    PROVE  SessionsOwned'
<1>0. TypeOK /\ rows \in [Executions -> Row] /\ \A e \in Executions : rows[e] \in Row
  BY DEF Invariant, TypeOK
<1>1. ASSUME UNCHANGED hosts, RowsSteady, LaunchesSteady PROVE SessionsOwned'
  BY <1>0, <1>1, SteadyStep, StillIsSteady
<1>2. ASSUME UNCHANGED <<rows, hosts, launches>> PROVE SessionsOwned'
  BY <1>1, <1>2, StillIsSteady
<1>3. ASSUME NEW e \in Executions, NEW row, UpdateRow(e, row), UNCHANGED <<hosts, launches>>,
             SameKey(rows[e], row),
             row.state = rows[e].state \/ (row.state \in Ended /\ rows[e].state # "absent")
      PROVE  SessionsOwned'
  <2>1. RowsSteady
    BY <1>0, <1>3, OneRowSteady
  <2> QED  BY <1>1, <1>3, <2>1, StillIsSteady
<1>4. ASSUME OpenAdmits \/ WebAdmits
      PROVE  SessionsOwned'
  <2>1. AdmitExecutions /\ UNCHANGED hosts
    BY <1>4 DEF OpenAdmits, WebAdmits
  <2> QED  BY <1>0, <1>1, <2>1, AdmissionSteady
<1>5. ASSUME ReconcileProbes
      PROVE  SessionsOwned'
  <2> DEFINE e == doing.exec
             row == Append1(rows[e], Note("process_exit"))
  <2>1. e \in Executions /\ UNCHANGED <<hosts, launches>>
    BY <1>5 DEF ReconcileProbes, Invariant, Ownership, CheckOwns
  <2>2. UNCHANGED rows \/ UpdateRow(e, row)
    BY <1>5 DEF ReconcileProbes
  <2>3. SameKey(rows[e], row) /\ row.state = rows[e].state
    BY <1>0, <2>1, AppendKey, Append1Type, NoteType DEF EventKinds
  <2> HIDE DEF e, row
  <2> QED  BY <1>2, <1>3, <2>1, <2>2, <2>3
<1>6. ASSUME ReconcileMarksLost
      PROVE  SessionsOwned'
  <2> DEFINE e == doing.exec
  <2>1. /\ e \in Executions /\ UNCHANGED <<hosts, launches>>
        /\ doing.pid \in Attempts /\ rows[e].pid = doing.pid
    BY <1>6 DEF ReconcileMarksLost, Invariant, Ownership, CheckOwns
  <2>2. rows[e].state # "absent"
    BY <2>1, NoneIsNoProcess DEF Invariant, Ownership, RowOwns
  <2>3. UpdateRow(e, FinishRow(rows[e], TRUE))
    BY <1>6 DEF ReconcileMarksLost
  <2> HIDE DEF e
  <2>4. \A lost \in BOOLEAN : /\ SameKey(rows[e], FinishRow(rows[e], lost))
                              /\ FinishRow(rows[e], lost).state \in Ended
    BY <1>0, <2>1, FinishKey, FinishRowType
  <2>5. SameKey(rows[e], FinishRow(rows[e], TRUE)) /\ FinishRow(rows[e], TRUE).state \in Ended
    BY <2>4, Zenon
  <2> QED  BY <1>3, <2>1, <2>2, <2>3, <2>5
<1>7. ASSUME NEW t \in Tasks, NEW c \in Commands, NEW body \in Bodies, WebCommands(t, c, body)
      PROVE  SessionsOwned'
  <2> DEFINE e == view[t]
             row == EnqueueRow(rows[e], c, body)
  <2>1. e \in Executions /\ UNCHANGED <<hosts, launches>> /\ UpdateRow(e, row)
    BY <1>0, <1>7 DEF TypeOK, WebCommands
  <2>2. SameKey(rows[e], row) /\ row.state = rows[e].state
    BY <1>0, <2>1, CommandKey, EnqueueRowType
  <2> HIDE DEF e, row
  <2> QED  BY <1>3, <2>1, <2>2
<1>8. ASSUME NEW t \in Tasks, WebCancelsBeforeStart(t)
      PROVE  SessionsOwned'
  <2> DEFINE e == view[t]
             row == CancelRow(rows[e])
  <2>1. e \in Executions /\ UNCHANGED <<hosts, launches>> /\ UpdateRow(e, row)
    BY <1>0, <1>8 DEF TypeOK, WebCancelsBeforeStart
  <2>2. SameKey(rows[e], row) /\ row.state \in Ended /\ rows[e].state # "absent"
    BY <1>0, <1>8, <2>1, CancelKey, CancelRowType DEF WebCancelsBeforeStart, CancellableBeforeStart
  <2> HIDE DEF e, row
  <2> QED  BY <1>3, <2>1, <2>2
<1>9. ASSUME NEW e \in Executions, NEW args \in Args, OpenReserves(e, args) \/ OpenFindsReserved(e, args)
      PROVE  SessionsOwned'
  BY <1>2, <1>9, ReserveOwned DEF OpenFindsReserved
<1>10. ASSUME NEW t \in Tasks, ReconcileReads(t) \/ HandleCompletes(t)
       PROVE  SessionsOwned'
  BY <1>2, <1>10 DEF ReconcileReads, HandleCompletes
<1>11. ASSUME WebCrashes \/ WebStarts
       PROVE  SessionsOwned'
  BY <1>2, <1>11 DEF WebCrashes, WebStarts
<1> QED  BY <1>4, <1>5, <1>6, <1>7, <1>8, <1>9, <1>10, <1>11 DEF WebNext

(* A new process is told the session its reservation is to resume.          *)
LEMMA LaunchOwned ==
    ASSUME Invariant, SessionsOwned, NEW e \in Executions, NEW k \in Attempts, LaunchArrives(e, k)
    PROVE  SessionsOwned'
<1> DEFINE resume == rows[e].args.resume
           host == [NoHost EXCEPT !.pc = "booted", !.session = resume]
<1>0. TypeOK /\ UNCHANGED rows /\ launches' \subseteq launches /\ rows[e].state # "absent"
  BY DEF Invariant, LaunchArrives, SessionsOwned, LaunchesReserved
<1>1. SetHost(e, k, host)
  BY DEF LaunchArrives, SetHost
<1>2. hosts'[e][k] = host /\ OthersKept(e, k)
  BY <1>0, <1>1, ReplacedHost
<1>3. host.pc = "booted" /\ host.session = resume
  BY DEF NoHost
<1> HIDE DEF host
<1>4. OwnersDiffer' /\ LaunchesReserved' /\ \A f \in Executions : KeyIsRequested(f)'
  BY <1>0 DEF SessionsOwned, OwnersDiffer, LaunchesReserved, KeyIsRequested
<1>5. ASSUME NEW f \in Executions, NEW j \in Attempts PROVE SpeaksAsOwner(f, j)'
  <2>1. CASE f = e /\ j = k
    BY <1>0, <1>2, <1>3, <2>1 DEF SpeaksAsOwner, Speaking
  <2>2. CASE f # e \/ j # k
    BY <1>0, <1>2, <2>2 DEF OthersKept, SessionsOwned, SpeaksAsOwner
  <2> QED  BY <2>1, <2>2
<1> QED  BY <1>4, <1>5 DEF SessionsOwned

(* claim is granted for a reservation only, whose owner key is still what   *)
(* its arguments ask for: the session the claimant resumes.                 *)
LEMMA ClaimOwned ==
    ASSUME Invariant, SessionsOwned, NEW e \in Executions, NEW k \in Attempts, HostClaims(e, k)
    PROVE  SessionsOwned'
<1> DEFINE old == hosts[e][k]
           host == [old EXCEPT !.pc = "claimed"]
<1>0. /\ TypeOK /\ rows \in [Executions -> Row] /\ rows[e] \in Row /\ old \in Host
      /\ old.pc = "booted" /\ UNCHANGED launches
  BY DEF Invariant, TypeOK, HostClaims
<1>1. UpdateRow(e, ClaimRow(rows[e], k)) /\ SetHost(e, k, host)
  BY DEF HostClaims
<1>2. /\ rows'[e] = ClaimRow(rows[e], k) /\ \A f \in Executions \ {e} : rows'[f] = rows[f]
      /\ hosts'[e][k] = host /\ OthersKept(e, k)
  BY <1>0, <1>1, ReplacedRow, ReplacedHost
<1>3. host.pc = "claimed" /\ host.session = old.session
  BY <1>0 DEF Host, HostMemory
<1>4. /\ rows[e].state = "starting" /\ rows'[e].state = "running" /\ SameKey(rows[e], rows'[e])
  BY <1>0, <1>2, ClaimRowType, AdmissionKey DEF HostClaims, Claimable
<1> HIDE DEF host, old
<1>5. RowsSteady
  BY <1>2, <1>4 DEF RowsSteady, RowSteady, SameKey, Live, Waiting
<1>6. ASSUME NEW f \in Executions, NEW j \in Attempts PROVE SpeaksAsOwner(f, j)'
  <2>1. CASE f = e /\ j = k
    <3>1. old.session = rows[e].args.resume /\ rows[e].ownerKey = OwnerOf(e, rows[e].args)
      BY <1>0, <1>4 DEF SessionsOwned, SpeaksAsOwner, KeyIsRequested, Waiting, old
    <3>2. old.session # None => rows'[e].ownerKey = old.session
      BY <1>4, <3>1 DEF OwnerOf, SameKey
    <3> QED  BY <1>2, <1>3, <2>1, <3>2 DEF SpeaksAsOwner
  <2>2. CASE f # e \/ j # k
    <3>1. SpeaksAsOwner(f, j) /\ RowSteady(f) /\ hosts'[f][j] = hosts[f][j]
      BY <1>2, <1>5, <2>2 DEF OthersKept, SessionsOwned, RowsSteady
    <3> QED  BY <3>1 DEF SpeaksAsOwner, RowSteady, SameKey
  <2> QED  BY <2>1, <2>2
<1>7. OwnersDiffer'
  <2> SUFFICES ASSUME NEW f \in Executions, NEW g \in Executions,
                      rows'[f].state \in Live, rows'[g].state \in Live,
                      rows'[f].ownerKey = rows'[g].ownerKey
               PROVE  f = g
    BY DEF OwnersDiffer
  <2> QED  BY <1>5 DEF RowsSteady, RowSteady, SameKey, SessionsOwned, OwnersDiffer
<1>8. LaunchesReserved' /\ \A f \in Executions : KeyIsRequested(f)'
  BY <1>0, <1>5 DEF SessionsOwned, LaunchesReserved, KeyIsRequested, RowsSteady, RowSteady, SameKey, TypeOK
<1> QED  BY <1>6, <1>7, <1>8 DEF SessionsOwned

(* A host that learns its session binds it, unless another live execution   *)
(* owns it: the check and the binding are one transaction.                  *)
LEMMA StoreOwned ==
    ASSUME Invariant, SessionsOwned, NEW e \in Executions, NEW k \in Attempts, PersistStores(e, k)
    PROVE  SessionsOwned'
<1> DEFINE old == hosts[e][k]
           popped == Popped(old)
           event == Head(old.tail).event
           session == event.session
           entry == [kind |-> event.kind, request |-> event.request]
<1>0. /\ TypeOK /\ rows \in [Executions -> Row] /\ rows[e] \in Row /\ old \in Host
      /\ old.tail # <<>> /\ UNCHANGED launches /\ ~ForeignSession(e, old, session)
  BY DEF Invariant, TypeOK, PersistStores, AtHead
<1>1. Head(old.tail) \in Op /\ popped \in Host /\ popped.pc = old.pc /\ popped.session = old.session
  BY <1>0, HeadType, PoppedFields
<1>2. event \in Emitted /\ session \in Sessions \cup {None} /\ entry \in Entry
  BY <1>1 DEF PersistStores, AtHead, Op, Emitted, Entry
<1>3. CASE old.session = None /\ session # None
  <2> DEFINE bound == BindRow(rows[e], session)
             row == Append1(bound, entry)
             host == [popped EXCEPT !.session = session]
  <2>1. UpdateRow(e, row) /\ SetHost(e, k, host)
    BY <1>3 DEF PersistStores
  <2>2. session \in Sessions
    BY <1>2, <1>3
  <2> HIDE DEF session, entry, popped
  <2>3. /\ bound \in Row /\ bound.state = rows[e].state /\ bound.args = rows[e].args
        /\ rows[e].state = "running" => bound.ownerKey = session
        /\ rows[e].state # "running" => bound.ownerKey = rows[e].ownerKey
    BY <1>0, <2>2, BindRowType, BindKey
  <2>4. host.pc = old.pc /\ host.session = session
    BY <1>1 DEF Host, HostMemory
  <2> HIDE DEF bound
  <2>5. row.state = bound.state /\ SameKey(bound, row)
    BY <1>2, <2>3, Append1Type, AppendKey
  <2> HIDE DEF row, host
  <2>6. /\ rows'[e] = row /\ \A f \in Executions \ {e} : rows'[f] = rows[f]
        /\ hosts'[e][k] = host /\ OthersKept(e, k)
    BY <1>0, <2>1, ReplacedRow, ReplacedHost
  <2>7. /\ rows'[e].state = rows[e].state /\ rows'[e].args = rows[e].args
        /\ rows[e].state = "running" => rows'[e].ownerKey = session
        /\ rows[e].state # "running" => rows'[e].ownerKey = rows[e].ownerKey
    BY <2>3, <2>5, <2>6 DEF SameKey
  <2>8. rows[e].pid = k
    BY <1>0 DEF Invariant, Ownership, HostOwns, old
  <2>9. rows[e].state \notin Waiting
    <3>1. rows[e].pid # None
      BY <2>8, NoneIsNoProcess
    <3> QED  BY <3>1 DEF Invariant, Ownership, RowOwns, Waiting
  <2>10. rows[e].state = "running" =>
            \A f \in Executions \ {e} : rows[f].state \in Live => rows[f].ownerKey # session
    BY <1>0, <1>3, <2>2 DEF ForeignSession, OwnerFree, Rows
  <2>11. OwnersDiffer'
    <3> SUFFICES ASSUME NEW f \in Executions, NEW g \in Executions,
                        rows'[f].state \in Live, rows'[g].state \in Live,
                        rows'[f].ownerKey = rows'[g].ownerKey
                 PROVE  f = g
      BY DEF OwnersDiffer
    <3>1. CASE f = e /\ g # e
      BY <2>6, <2>7, <2>9, <2>10, <3>1 DEF Live, Waiting
    <3>2. CASE g = e /\ f # e
      BY <2>6, <2>7, <2>9, <2>10, <3>2 DEF Live, Waiting
    <3>3. CASE f # e /\ g # e
      BY <2>6, <3>3 DEF SessionsOwned, OwnersDiffer
    <3> QED  BY <3>1, <3>2, <3>3
  <2>12. LaunchesReserved' /\ \A f \in Executions : KeyIsRequested(f)'
    BY <1>0, <2>6, <2>7, <2>9 DEF SessionsOwned, LaunchesReserved, KeyIsRequested, TypeOK
  <2>13. ASSUME NEW f \in Executions, NEW j \in Attempts PROVE SpeaksAsOwner(f, j)'
    <3>0. HostOwns(f, j) /\ SpeaksAsOwner(f, j)
      BY DEF Invariant, Ownership, SessionsOwned
    <3>1. CASE f = e /\ j = k
      <4>1. old.pc \in Speaking => rows[e].state = "running"
        BY <3>0, <3>1 DEF HostOwns, Working, Speaking, old
      <4>2. old.pc # "booted"
        BY <2>8, <3>0, <3>1 DEF HostOwns, old
      <4> QED  BY <2>4, <2>6, <2>7, <3>1, <4>1, <4>2 DEF SpeaksAsOwner
    <3>2. CASE f = e /\ j # k
      <4>1. hosts[e][j].pc \notin Speaking
        BY <2>8, <3>0, <3>2 DEF HostOwns, Working, Speaking
      <4>2. hosts'[e][j] = hosts[e][j]
        BY <2>6, <3>2 DEF OthersKept
      <4> QED  BY <2>7, <3>0, <3>2, <4>1, <4>2 DEF SpeaksAsOwner
    <3>3. CASE f # e
      BY <2>6, <3>0, <3>3 DEF OthersKept, SpeaksAsOwner
    <3> QED  BY <3>1, <3>2, <3>3
  <2> QED  BY <2>11, <2>12, <2>13 DEF SessionsOwned
<1>4. CASE ~(old.session = None /\ session # None)
  <2> DEFINE row == Append1(rows[e], entry)
             host == [popped EXCEPT !.session = popped.session]
  <2>1. UpdateRow(e, row) /\ SetHost(e, k, host)
    BY <1>4 DEF PersistStores
  <2> HIDE DEF session, entry, popped
  <2>2. row.state = rows[e].state /\ SameKey(rows[e], row)
    BY <1>0, <1>2, Append1Type, AppendKey
  <2>3. host.pc = old.pc /\ host.session = old.session
    BY <1>1 DEF Host, HostMemory
  <2> HIDE DEF row, host
  <2>4. RowsSteady
    BY <1>0, <2>1, <2>2, OneRowSteady
  <2>5. HostsSteady
    BY <1>0, <2>1, <2>3, OneHostSteady
  <2> QED  BY <1>0, <2>4, <2>5, SteadyStep, StillIsSteady
<1> QED  BY <1>3, <1>4

(* The other transactions of a host keep its session and its row's key.     *)
LEMMA PersistSessions ==
    ASSUME Invariant, SessionsOwned, NEW e \in Executions, NEW k \in Attempts, Persists(e, k)
    PROVE  SessionsOwned'
<1> DEFINE old == hosts[e][k]
           popped == Popped(old)
           head == Head(old.tail)
<1>0. /\ TypeOK /\ rows[e] \in Row /\ old \in Host
  BY DEF Invariant, TypeOK
<1>1. old.tail # <<>>
  BY DEF Persists, PersistDrops, PersistRefuses, PersistStores, PersistPending, PersistSettle,
         PersistFinish, AtHead
<1>2. head \in Op /\ popped \in Host /\ popped.pc = old.pc /\ popped.session = old.session
  BY <1>0, <1>1, HeadType, PoppedFields
<1>3. ASSUME NEW row, NEW host, UpdateRow(e, row), SetHost(e, k, host), UNCHANGED launches,
             SameKey(rows[e], row),
             row.state = rows[e].state \/ (row.state \in Ended /\ rows[e].state # "absent"),
             host.pc = old.pc \/ host.pc = "closing", host.session = old.session
      PROVE  SessionsOwned'
  <2>1. RowsSteady
    BY <1>0, <1>3, OneRowSteady
  <2>2. HostsSteady
    BY <1>0, <1>3, OneHostSteady DEF Speaking
  <2> QED  BY <1>0, <1>3, <2>1, <2>2, SteadyStep, StillIsSteady
<1>4. CASE PersistDrops(e, k)
  <2>1. SetHost(e, k, popped) /\ UNCHANGED <<rows, launches>>
    BY <1>4 DEF PersistDrops
  <2> HIDE DEF popped
  <2>2. HostsSteady
    BY <1>0, <1>2, <2>1, OneHostSteady
  <2> QED  BY <1>0, <2>1, <2>2, SteadyStep, StillIsSteady
<1>5. CASE PersistRefuses(e, k)
  <2> DEFINE once == Append1(rows[e], Note("error"))
             row == Append1(once, Note("process_exit"))
             host == [popped EXCEPT !.mismatch = TRUE]
  <2>1. UpdateRow(e, row) /\ SetHost(e, k, host) /\ UNCHANGED launches
    BY <1>5 DEF PersistRefuses
  <2>2. once \in Row /\ once.state = rows[e].state /\ SameKey(rows[e], once)
    BY <1>0, Append1Type, AppendKey, NoteType DEF EventKinds
  <2> HIDE DEF once
  <2>3. row.state = once.state /\ SameKey(once, row)
    BY <2>2, Append1Type, AppendKey, NoteType DEF EventKinds
  <2>4. host.pc = popped.pc /\ host.session = popped.session
    BY <1>2 DEF Host, HostMemory
  <2> HIDE DEF row, host
  <2>5. SameKey(rows[e], row)
    BY <2>2, <2>3 DEF SameKey
  <2> QED  BY <1>2, <1>3, <2>1, <2>2, <2>3, <2>4, <2>5
<1>6. CASE PersistPending(e, k)
  <2> DEFINE row == ClaimCommands(rows[e])
             batch == PendingCommands(rows[e])
             host == [popped EXCEPT !.step = "idle", !.batch = batch]
  <2>1. UpdateRow(e, row) /\ SetHost(e, k, host) /\ UNCHANGED launches
    BY <1>6 DEF PersistPending
  <2>2. row.state = rows[e].state /\ SameKey(rows[e], row)
    BY <1>0, ClaimCommandsType, PendingKey
  <2> HIDE DEF batch
  <2>3. host.pc = popped.pc /\ host.session = popped.session
    BY <1>2 DEF Host, HostMemory
  <2> HIDE DEF row, host
  <2> QED  BY <1>2, <1>3, <2>1, <2>2, <2>3
<1>7. CASE PersistSettle(e, k)
  <2> DEFINE row == SettleRow(rows[e], head.command, head.result)
             host == [popped EXCEPT !.step = "idle", !.command = None]
  <2>1. UpdateRow(e, row) /\ SetHost(e, k, host) /\ UNCHANGED launches
    BY <1>7 DEF PersistSettle
  <2>2. head.command \in Commands /\ head.result \in Receipts
    BY <1>2, <1>7 DEF PersistSettle, AtHead, Op
  <2>3. row.state = rows[e].state /\ SameKey(rows[e], row)
    BY <1>0, <2>2, SettleRowType, CommandKey
  <2>4. host.pc = popped.pc /\ host.session = popped.session
    BY <1>2 DEF Host, HostMemory
  <2> HIDE DEF row, host
  <2> QED  BY <1>2, <1>3, <2>1, <2>3, <2>4
<1>8. CASE PersistFinish(e, k)
  <2> DEFINE row == FinishRow(rows[e], head.lost)
             host == [popped EXCEPT !.pc = "closing"]
  <2>1. UpdateRow(e, row) /\ SetHost(e, k, host) /\ UNCHANGED launches
    BY <1>8 DEF PersistFinish
  <2>2. head.lost \in BOOLEAN
    BY <1>2, <1>8 DEF PersistFinish, AtHead, Op
  <2>3. row.state \in Ended /\ SameKey(rows[e], row)
    BY <1>0, <2>2, FinishRowType, FinishKey
  <2>4. host.pc = "closing" /\ host.session = popped.session
    BY <1>2 DEF Host, HostMemory
  <2>5. rows[e].pid = k
    BY <1>1 DEF Invariant, Ownership, HostOwns
  <2>6. rows[e].state # "absent"
    BY <2>5, NoneIsNoProcess DEF Invariant, Ownership, RowOwns
  <2> HIDE DEF row, host
  <2> QED  BY <1>2, <1>3, <2>1, <2>3, <2>4, <2>6
<1>9. CASE PersistStores(e, k)
  BY <1>9, StoreOwned
<1> QED  BY <1>4, <1>5, <1>6, <1>7, <1>8, <1>9 DEF Persists

(* A host at work keeps its session; a dead one has none.                   *)
LEMMA WorkSessions ==
    ASSUME Invariant, SessionsOwned, NEW e \in Executions, NEW k \in Attempts, HostNext(e, k),
           ~LaunchArrives(e, k), ~HostClaims(e, k), ~Persists(e, k)
    PROVE  SessionsOwned'
<1> DEFINE old == hosts[e][k]
<1>0. /\ TypeOK /\ rows[e] \in Row /\ old \in Host
  BY DEF Invariant, TypeOK
<1>1. ASSUME NEW host, SetHost(e, k, host), UNCHANGED <<rows, launches>>,
             \/ host.pc \notin Speaking \cup {"booted"}
             \/ old.pc \in Speaking /\ host.pc \in Speaking /\ host.session = old.session
      PROVE  SessionsOwned'
  <2>1. HostsSteady
    BY <1>0, <1>1, OneHostSteady DEF Speaking
  <2> QED  BY <1>0, <1>1, <2>1, SteadyStep, StillIsSteady
<1>2. ASSUME NEW base \in Host, NEW ops, SetHost(e, k, Push(base, ops)), UNCHANGED <<rows, launches>>,
             old.pc \in Speaking, base.pc \in Speaking, base.session = old.session
      PROVE  SessionsOwned'
  <2>1. Push(base, ops).pc = base.pc /\ Push(base, ops).session = base.session
    BY PushFields
  <2> QED  BY <1>1, <1>2, <2>1
<1>3. CASE HostClaimRefused(e, k) \/ HostCrashes(e, k)
  <2>1. SetHost(e, k, Dead(old)) /\ UNCHANGED <<rows, launches>>
    BY <1>3 DEF HostClaimRefused, HostCrashes
  <2>2. Dead(old).pc = "gone"
    BY <1>0, DeadType
  <2> QED  BY <1>1, <2>1, <2>2 DEF Speaking
<1>4. CASE HostInvokes(e, k) \/ HostCannotInvoke(e, k)
  <2> DEFINE serving == [old EXCEPT !.pc = "serving", !.child = "alive"]
             finishing == [old EXCEPT !.pc = "finishing"]
             ops == <<Plain("started"), Plain("error"), [op |-> "finish", lost |-> TRUE]>>
  <2>1. /\ SetHost(e, k, Push(serving, <<Plain("started")>>)) \/ SetHost(e, k, Push(finishing, ops))
        /\ UNCHANGED <<rows, launches>> /\ old.pc = "claimed"
    BY <1>4 DEF HostInvokes, HostCannotInvoke
  <2>2. /\ serving.pc = "serving" /\ serving.session = old.session
        /\ finishing.pc = "finishing" /\ finishing.session = old.session
        /\ serving \in Host /\ finishing \in Host
    BY <1>0 DEF Host, HostMemory, Phases
  <2> HIDE DEF serving, finishing, ops
  <2> QED  BY <1>2, <2>1, <2>2 DEF Speaking
<1>5. ASSUME NEW event \in ProviderEvents, ProviderEmits(e, k, event)
      PROVE  SessionsOwned'
  <2>1. /\ SetHost(e, k, old) \/ SetHost(e, k, Push(old, <<EventOp(event)>>))
        /\ UNCHANGED <<rows, launches>> /\ old.pc = "serving"
    BY <1>5 DEF ProviderEmits
  <2> HIDE DEF old
  <2> QED  BY <1>0, <1>1, <1>2, <2>1 DEF Speaking
<1>6. ASSUME NEW lost \in BOOLEAN, ProviderExits(e, k, lost)
      PROVE  SessionsOwned'
  <2> DEFINE base == [old EXCEPT !.pc = "finishing", !.child = "dead"]
             ops == (IF old.mismatch THEN <<>> ELSE <<Plain("process_exit")>>)
                      \o <<[op |-> "finish", lost |-> lost]>>
  <2>1. SetHost(e, k, Push(base, ops)) /\ UNCHANGED <<rows, launches>> /\ old.pc = "serving"
    BY <1>6 DEF ProviderExits
  <2>2. base \in Host /\ base.pc = "finishing" /\ base.session = old.session
    BY <1>0 DEF Host, HostMemory, Phases
  <2> HIDE DEF base, ops
  <2> QED  BY <1>2, <2>1, <2>2 DEF Speaking
<1>7. CASE HostDrains(e, k)
  <2> DEFINE base == [old EXCEPT !.step = "claiming"]
             ops == <<[op |-> "pending"]>>
  <2>1. SetHost(e, k, Push(base, ops)) /\ UNCHANGED <<rows, launches>> /\ old.pc = "serving"
    BY <1>7 DEF HostDrains
  <2>2. base \in Host /\ base.pc = old.pc /\ base.session = old.session
    BY <1>0 DEF Host, HostMemory
  <2> HIDE DEF base, ops
  <2> QED  BY <1>2, <2>1, <2>2 DEF Speaking
<1>8. ASSUME NEW c \in Commands, NEW took \in BOOLEAN, HostWrites(e, k, c, took)
      PROVE  SessionsOwned'
  <2> DEFINE batch == old.batch \ {c}
             host == [old EXCEPT !.step = "writing", !.command = c, !.batch = batch]
  <2>1. SetHost(e, k, host) /\ UNCHANGED <<rows, launches>> /\ old.pc = "serving"
    BY <1>8 DEF HostWrites
  <2> HIDE DEF batch
  <2>2. host.pc = old.pc /\ host.session = old.session
    BY <1>0 DEF Host, HostMemory
  <2> HIDE DEF host
  <2> QED  BY <1>1, <2>1, <2>2 DEF Speaking
<1>9. ASSUME NEW result \in Receipts \ {"accepted"}, ProviderReplies(e, k, result)
      PROVE  SessionsOwned'
  <2> DEFINE base == [old EXCEPT !.step = "settling"]
             ops == <<[op |-> "settle", command |-> old.command, result |-> result]>>
  <2>1. SetHost(e, k, Push(base, ops)) /\ UNCHANGED <<rows, launches>> /\ old.pc = "serving"
    BY <1>9 DEF ProviderReplies
  <2>2. base \in Host /\ base.pc = old.pc /\ base.session = old.session
    BY <1>0 DEF Host, HostMemory
  <2> HIDE DEF base, ops
  <2> QED  BY <1>2, <2>1, <2>2 DEF Speaking
<1>10. CASE HostCloses(e, k)
  <2>1. AdmitExecutions /\ SetHost(e, k, Dead(old))
    BY <1>10 DEF HostCloses
  <2>2. Dead(old).pc = "gone"
    BY <1>0, DeadType
  <2>3. HostsSteady
    BY <1>0, <2>1, <2>2, OneHostSteady DEF Speaking
  <2> QED  BY <1>0, <2>1, <2>3, AdmissionSteady, SteadyStep
<1>11. CASE HostFails(e, k)
  <2> DEFINE child == old.child
             host == [NoHost EXCEPT !.pc = "failing", !.child = child]
  <2>1. SetHost(e, k, host) /\ UNCHANGED <<rows, launches>>
    BY <1>11 DEF HostFails
  <2> HIDE DEF child
  <2>2. host.pc = "failing"
    BY DEF NoHost
  <2> HIDE DEF host
  <2> QED  BY <1>1, <2>1, <2>2 DEF Speaking
<1>12. CASE HostFailureExits(e, k) \/ OrphanEnds(e, k)
  <2>1. UNCHANGED <<rows, launches>> /\ hosts'[e][k].pc = "gone" /\ OthersKept(e, k)
    BY <1>0, <1>12, EndEffect DEF HostFailureExits, OrphanEnds
  <2>2. HostsSteady
    BY <2>1 DEF HostsSteady, HostSteady, OthersKept, Speaking
  <2> QED  BY <1>0, <2>1, <2>2, SteadyStep, StillIsSteady
<1> QED  BY <1>3, <1>4, <1>5, <1>6, <1>7, <1>8, <1>9, <1>10, <1>11, <1>12 DEF HostNext

(* SessionsOwned is inductive.                                              *)
LEMMA SessionsStep == Invariant /\ SessionsOwned /\ [Next]_vars => SessionsOwned'
<1> SUFFICES ASSUME Invariant, SessionsOwned, [Next]_vars PROVE SessionsOwned'
  OBVIOUS
<1>0. TypeOK
  BY DEF Invariant
<1>1. CASE WebNext
  BY <1>1, WebSessions
<1>2. ASSUME NEW e \in Executions, NEW k \in Attempts, HostNext(e, k) PROVE SessionsOwned'
  BY <1>2, LaunchOwned, ClaimOwned, PersistSessions, WorkSessions
<1>3. ASSUME NEW e \in Executions, LaunchIsLost(e) PROVE SessionsOwned'
  <2>1. UNCHANGED <<rows, hosts>> /\ launches' \subseteq launches
    BY <1>3 DEF LaunchIsLost
  <2> QED  BY <1>0, <2>1, SteadyStep, StillIsSteady
<1>4. CASE UNCHANGED vars
  <2>1. UNCHANGED <<rows, hosts, launches>>
    BY <1>4 DEF vars
  <2> QED  BY <1>0, <2>1, SteadyStep, StillIsSteady
<1> QED  BY <1>1, <1>2, <1>3, <1>4 DEF Next

(* In the empty installation nobody owns a session.                         *)
LEMMA SessionsInit == Init => SessionsOwned
<1> SUFFICES ASSUME Init PROVE SessionsOwned
  OBVIOUS
<1>1. \A e \in Executions : rows[e].state = "absent"
  BY DEF Init, NoRow
<1>2. \A e \in Executions, k \in Attempts : hosts[e][k].pc = "absent"
  BY DEF Init, NoHost
<1>3. launches = {}
  BY DEF Init
<1> QED  BY <1>1, <1>2, <1>3
         DEF SessionsOwned, OwnersDiffer, LaunchesReserved, KeyIsRequested, SpeaksAsOwner, Live, Waiting, Speaking

(* Two hosts at work never use the same provider session, whether they      *)
(* resumed it (reserve) or learned it from the provider (bindSession), with *)
(* any number of executions, launches and faults.                           *)
THEOREM SessionsAreExclusive == Spec => []SessionExclusive
<1>1. Invariant /\ SessionsOwned => SessionExclusive
  <2> SUFFICES ASSUME Invariant, SessionsOwned,
                      NEW e \in Executions, NEW f \in Executions,
                      NEW i \in Attempts, NEW j \in Attempts, e # f,
                      hosts[e][i].pc = "serving", hosts[e][i].session # None,
                      hosts[f][j].pc = "serving", hosts[e][i].session = hosts[f][j].session
               PROVE  FALSE
    BY DEF SessionExclusive
  <2>1. rows[e].state = "running" /\ rows[f].state = "running"
    BY DEF Invariant, Ownership, HostOwns, Working
  <2>2. rows[e].ownerKey = rows[f].ownerKey
    BY DEF SessionsOwned, SpeaksAsOwner, Speaking
  <2> QED  BY <2>1, <2>2 DEF SessionsOwned, OwnersDiffer, Live
<1>2. Init => Invariant /\ SessionsOwned
  BY InitHolds, SessionsInit DEF Invariant
<1>3. Invariant /\ SessionsOwned /\ [Next]_vars => (Invariant /\ SessionsOwned)'
  BY InvariantStep, SessionsStep
<1> QED  BY <1>1, <1>2, <1>3, PTL DEF Spec

-----------------------------------------------------------------------------
(* What a client may believe about a command: receipts are truthful, no     *)
(* question is answered twice, and commands reach the provider in the order *)
(* they were accepted, for every number of executions, clients, launches    *)
(* and faults.                                                              *)
(*                                                                          *)
(* The argument follows a command from its row through the hands of one     *)
(* host to the provider and back.  Kept is about a row alone, Told about a  *)
(* row and what its provider has seen, Handled about what a host still has  *)
(* to do for its row: commands it has claimed and not yet written, and the  *)
(* receipts that wait in its chain.                                         *)
Unstarted == {"absent", "queued", "starting"}

(* The commands that are in the table.                                      *)
Booked(row) == {c \in Commands : row.commands[c].rowid # 0}

NoneBeforeStart(row) == row.state \in Unstarted => Booked(row) = {}

(* rowids grow.                                                             *)
Numbered(row) == \A c \in Commands : row.commands[c].rowid <= Cardinality(Booked(row))

(* pending takes everything that is open, so nothing is overtaken.          *)
ClaimedInOrder(row) ==
    \A c, d \in Booked(row) :
        row.commands[c].rowid < row.commands[d].rowid /\ row.commands[d].claimed = TRUE
            => row.commands[c].claimed = TRUE

(* A receipt is closed without a host only by the end of the execution,     *)
(* which leaves none open.                                                  *)
OpenWhileRunning(row) ==
    \A c \in Booked(row) :
        /\ row.commands[c].claimed = FALSE /\ row.commands[c].result # "accepted" => row.state \in Ended
        /\ row.state \in Ended => row.commands[c].result # "accepted"

Answers(row, c) == c \in Booked(row) /\ row.commands[c].body.kind = "answer"

(* Of all answers to a question at most one was not rejected.               *)
OneAnswer(row) ==
    \A c, d \in Commands :
        /\ c # d /\ Answers(row, c) /\ Answers(row, d)
        /\ row.commands[c].body.request = row.commands[d].body.request
        => row.commands[c].result = "rejected" \/ row.commands[d].result = "rejected"

Kept(row) ==
    /\ NoneBeforeStart(row) /\ Numbered(row) /\ ClaimedInOrder(row)
    /\ OpenWhileRunning(row) /\ OneAnswer(row)

(* The result is true of what the provider has seen of the command.         *)
TrueOf(p, c, result) ==
    /\ p.writes[c] > 0
    /\ result = "delivered" => c \in p.took
    /\ result = "rejected" => c \notin p.took

ReceiptsTrue(row, p) ==
    \A c \in Commands : row.commands[c].result \in {"delivered", "rejected"} =>
        TrueOf(p, c, row.commands[c].result)
TookWritten(p) == \A c \in p.took : p.writes[c] > 0
InOrder(row, p) ==
    \A c, d \in Booked(row) :
        row.commands[c].rowid < row.commands[d].rowid /\ p.writes[d] > 0 => p.writes[c] > 0

Told(row, p) == ReceiptsTrue(row, p) /\ TookWritten(p) /\ InOrder(row, p)

Control == {"pending", "settle"}

(* drainExecutionCommands waits for the one operation it has put on the     *)
(* chain, and asks for more only when it has nothing left to write.         *)
OneStep(host) ==
    /\ \A i \in 1..Len(host.tail) :
          /\ host.tail[i].op = "pending" => host.step = "claiming"
          /\ host.tail[i].op = "settle" => host.step = "settling"
    /\ \A i, j \in 1..Len(host.tail) :
          host.tail[i].op \in Control /\ host.tail[j].op \in Control => i = j
    /\ host.step = "claiming" => host.batch = {}

(* A receipt on its way to the row is true, and what is being written has   *)
(* been written.                                                            *)
Reports(p, host) ==
    /\ \A i \in 1..Len(host.tail) : host.tail[i].op = "settle" =>
          TrueOf(p, host.tail[i].command, host.tail[i].result)
    /\ host.step = "writing" => p.writes[host.command] > 0

(* What was claimed and not written is still in the claimant's hands.       *)
Holds(row, p, host) ==
    host.pc \in {"claimed", "serving"} =>
        \A c \in Commands : row.commands[c].claimed = TRUE /\ p.writes[c] = 0 => c \in host.batch

Handled(row, p, host) == OneStep(host) /\ Reports(p, host) /\ Holds(row, p, host)

Commanded ==
    \A e \in Executions :
        /\ Kept(rows[e]) /\ Told(rows[e], provider[e])
        /\ \A k \in Attempts : Handled(rows[e], provider[e], hosts[e][k])

-----------------------------------------------------------------------------
(* Rows: what each transaction on the commands table does to Kept.          *)

(* An id is in the table with a complete row or not at all.                 *)
LEMMA CommandFields ==
    ASSUME NEW row \in Row, NEW c \in Commands
    PROVE  /\ c \in Booked(row) => row.commands[c] \in Inserted
           /\ c \notin Booked(row) => row.commands[c] = NoCommand
           /\ row.commands[c].rowid \in Nat
           /\ row.commands[c].claimed \in BOOLEAN
           /\ row.commands[c].result = "accepted" => c \in Booked(row)
<1>1. row.commands[c] \in CommandRow
  BY DEF Row
<1>2. CASE row.commands[c] = NoCommand
  BY <1>2 DEF Booked, NoCommand
<1>3. CASE row.commands[c] \in Inserted
  BY <1>3 DEF Booked, Inserted
<1> QED  BY <1>1, <1>2, <1>3 DEF CommandRow

(* The number of commands in the table.                                     *)
LEMMA CountOfCommands ==
    ASSUME NEW row \in Row
    PROVE  IsFiniteSet(Booked(row)) /\ Cardinality(Booked(row)) \in Nat
<1>1. Booked(row) \in SUBSET Commands /\ IsFiniteSet(Commands)
  BY StoreAssumption DEF Booked
<1>2. IsFiniteSet(Booked(row))
  BY <1>1, FS_Subset
<1> QED  BY <1>2, FS_CardinalityType

(* A step of the life of the row before it ends leaves its commands alone.  *)
LEMMA KeptAlive ==
    ASSUME NEW row \in Row, NEW new \in Row, Kept(row), new.commands = row.commands,
           new.state = row.state \/ (row.state \in Unstarted /\ new.state \in Live)
    PROVE  Kept(new)
<1>1. Booked(new) = Booked(row)
  BY DEF Booked
<1>2. CASE new.state = row.state
  BY <1>1, <1>2 DEF Kept, NoneBeforeStart, Numbered, ClaimedInOrder, OpenWhileRunning, OneAnswer, Answers
<1>3. CASE row.state \in Unstarted /\ new.state \in Live
  <2>1. Booked(row) = {} /\ Booked(new) = {}
    BY <1>1, <1>3 DEF Kept, NoneBeforeStart
  <2>2. Numbered(new)
    BY <1>1 DEF Kept, Numbered
  <2> QED  BY <2>1, <2>2 DEF Kept, NoneBeforeStart, ClaimedInOrder, OpenWhileRunning, OneAnswer, Answers
<1> QED  BY <1>2, <1>3

(* Receipts change and nothing else does.                                   *)
ReceiptsOnly(row, new) ==
    \A c \in Commands : /\ new.commands[c].rowid = row.commands[c].rowid
                        /\ new.commands[c].claimed = row.commands[c].claimed
                        /\ new.commands[c].body = row.commands[c].body
                        /\ row.commands[c].result = "rejected" => new.commands[c].result = "rejected"

(* What does not depend on the receipts.                                    *)
LEMMA ReceiptsOnlyKeeps ==
    ASSUME NEW row \in Row, NEW new \in Row, Kept(row), ReceiptsOnly(row, new)
    PROVE  Booked(new) = Booked(row) /\ Numbered(new) /\ ClaimedInOrder(new) /\ OneAnswer(new)
<1>1. Booked(new) = Booked(row)
  BY DEF Booked, ReceiptsOnly
<1>2. Numbered(new)
  BY <1>1 DEF Kept, Numbered, ReceiptsOnly
<1>3. ClaimedInOrder(new)
  <2>1. Booked(row) \subseteq Commands
    BY DEF Booked
  <2> QED  BY <1>1, <2>1 DEF Kept, ClaimedInOrder, ReceiptsOnly
<1>4. OneAnswer(new)
  <2> SUFFICES ASSUME NEW c \in Commands, NEW d \in Commands,
                      c # d, Answers(new, c), Answers(new, d),
                      new.commands[c].body.request = new.commands[d].body.request
               PROVE  new.commands[c].result = "rejected" \/ new.commands[d].result = "rejected"
    BY DEF OneAnswer
  <2>1. new.commands[c].body = row.commands[c].body /\ new.commands[d].body = row.commands[d].body
    BY DEF ReceiptsOnly
  <2>2. Answers(row, c) /\ Answers(row, d)
    BY <1>1, <2>1 DEF Answers
  <2>3. row.commands[c].result = "rejected" \/ row.commands[d].result = "rejected"
    BY <2>1, <2>2 DEF Kept, OneAnswer
  <2> QED  BY <2>3 DEF ReceiptsOnly
<1> QED  BY <1>1, <1>2, <1>3, <1>4

(* finish closes every open receipt as unknown.                             *)
LEMMA FinishReceipts ==
    ASSUME NEW row \in Row, NEW lost \in BOOLEAN
    PROVE  /\ ReceiptsOnly(row, FinishRow(row, lost))
           /\ \A c \in Commands : FinishRow(row, lost).commands[c].result =
                 IF row.commands[c].result = "accepted" THEN "unknown" ELSE row.commands[c].result
<1> DEFINE ended == EndRow(row, lost)
           cs == [c \in Commands |->
                    IF ended.commands[c].result = "accepted"
                    THEN [ended.commands[c] EXCEPT !.result = "unknown"] ELSE ended.commands[c]]
<1>1. ended \in Row /\ ended.commands = row.commands
  BY DEF EndRow, Row, States, Ended
<1>2. FinishRow(row, lost) = [ended EXCEPT !.commands = cs]
  BY DEF FinishRow, ResolveOpen
<1>3. FinishRow(row, lost).commands = cs
  <2> HIDE DEF ended, cs
  <2> QED  BY <1>1, <1>2 DEF Row
<1> HIDE DEF ended
<1>4. ASSUME NEW c \in Commands
      PROVE  /\ cs[c].rowid = row.commands[c].rowid
             /\ cs[c].claimed = row.commands[c].claimed
             /\ cs[c].body = row.commands[c].body
             /\ cs[c].result = IF row.commands[c].result = "accepted" THEN "unknown"
                                                                    ELSE row.commands[c].result
  <2>1. CASE row.commands[c].result = "accepted"
    <3>1. row.commands[c] \in Inserted
      BY <2>1, CommandFields
    <3>2. cs[c] = [row.commands[c] EXCEPT !.result = "unknown"]
      BY <1>1, <2>1
    <3> QED  BY <2>1, <3>1, <3>2 DEF Inserted
  <2>2. CASE row.commands[c].result # "accepted"
    BY <1>1, <2>2
  <2> QED  BY <2>1, <2>2
<1> HIDE DEF cs
<1> QED  BY <1>3, <1>4 DEF ReceiptsOnly

(* finish leaves a row whose commands are all closed.                       *)
LEMMA KeptByFinish ==
    ASSUME NEW row \in Row, NEW lost \in BOOLEAN, Kept(row)
    PROVE  Kept(FinishRow(row, lost))
<1> DEFINE new == FinishRow(row, lost)
<1>1. new \in Row /\ new.state \in Ended
  BY FinishRowType
<1>2. /\ ReceiptsOnly(row, new)
      /\ \A c \in Commands : new.commands[c].result =
            IF row.commands[c].result = "accepted" THEN "unknown" ELSE row.commands[c].result
  BY FinishReceipts
<1> HIDE DEF new
<1>3. Booked(new) = Booked(row) /\ Numbered(new) /\ ClaimedInOrder(new) /\ OneAnswer(new)
  BY <1>1, <1>2, ReceiptsOnlyKeeps
<1>4. NoneBeforeStart(new) /\ OpenWhileRunning(new)
  BY <1>1, <1>2 DEF NoneBeforeStart, OpenWhileRunning, Booked, Unstarted, Ended
<1>5. Kept(new)
  BY <1>3, <1>4 DEF Kept
<1> QED  BY <1>5 DEF new

(* settle closes one open receipt, with the given result.                   *)
LEMMA SettleReceipts ==
    ASSUME NEW row \in Row, NEW c \in Commands, NEW result \in Receipts
    PROVE  /\ ReceiptsOnly(row, SettleRow(row, c, result))
           /\ \A d \in Commands : SettleRow(row, c, result).commands[d].result =
                 IF d = c /\ row.commands[c].result = "accepted" THEN result
                                                                ELSE row.commands[d].result
<1>1. CASE row.commands[c].result # "accepted"
  <2>1. SettleRow(row, c, result) = row
    BY <1>1 DEF SettleRow
  <2> QED  BY <1>1, <2>1 DEF ReceiptsOnly
<1>2. CASE row.commands[c].result = "accepted"
  <2> DEFINE body == row.commands[c].body
             settled == [row EXCEPT !.commands[c].result = result]
             cleared == [settled EXCEPT !.question = Cleared(settled.question, body.request)]
             answered == [kind |-> "answer", request |-> body.request]
             new == SettleRow(row, c, result)
  <2>1. row.commands[c] \in Inserted
    BY <1>2, CommandFields
  <2>2. /\ settled.commands[c] = [row.commands[c] EXCEPT !.result = result]
        /\ \A d \in Commands \ {c} : settled.commands[d] = row.commands[d]
    BY DEF Row
  <2>3. new \in {settled, Append1(cleared, answered)}
    BY <1>2 DEF SettleRow
  <2>5. new.commands = settled.commands
    <3>2. settled \in Row
      <4>1. [row.commands[c] EXCEPT !.result = result] \in CommandRow
        BY <2>1 DEF CommandRow, Inserted
      <4> QED  BY <4>1 DEF Row
    <3> HIDE DEF settled
    <3>3. cleared.commands = settled.commands
      BY <3>2 DEF Row
    <3>4. cleared \in Row
      <4>1. body \in Bodies /\ body.request \in Requests \cup {None}
        BY <2>1, StoreAssumption DEF Inserted
      <4> HIDE DEF body
      <4> QED  BY <3>2, <4>1 DEF Row, Cleared
    <3>5. answered \in Entry
      <4>1. body \in Bodies /\ body.request \in Requests \cup {None}
        BY <2>1, StoreAssumption DEF Inserted
      <4> HIDE DEF body
      <4> QED  BY <4>1 DEF Entry, EventKinds
    <3> HIDE DEF cleared, answered, new
    <3>6. Append1(cleared, answered).commands = cleared.commands
      BY <3>4, <3>5, Append1Type
    <3> QED  BY <2>3, <3>3, <3>6
  <2> HIDE DEF settled, new
  <2>6. ASSUME NEW d \in Commands
        PROVE  /\ new.commands[d].rowid = row.commands[d].rowid
               /\ new.commands[d].claimed = row.commands[d].claimed
               /\ new.commands[d].body = row.commands[d].body
               /\ new.commands[d].result = IF d = c THEN result ELSE row.commands[d].result
    <3>1. CASE d = c
      BY <2>1, <2>2, <2>5, <3>1 DEF Inserted
    <3>2. CASE d # c
      BY <2>2, <2>5, <3>2
    <3> QED  BY <3>1, <3>2
  <2>7. ReceiptsOnly(row, new)
    <3>1. ASSUME NEW d \in Commands, row.commands[d].result = "rejected"
          PROVE  new.commands[d].result = "rejected"
      BY <1>2, <2>6, <3>1
    <3> QED  BY <2>6, <3>1 DEF ReceiptsOnly
  <2> QED  BY <1>2, <2>6, <2>7 DEF new
<1> QED  BY <1>1, <1>2

(* settle closes a receipt of a claimed command, so nothing is closed       *)
(* without a host.                                                          *)
LEMMA KeptBySettle ==
    ASSUME NEW row \in Row, NEW c \in Commands, NEW result \in Receipts, Kept(row),
           row.commands[c].claimed = TRUE
    PROVE  Kept(SettleRow(row, c, result))
<1> DEFINE new == SettleRow(row, c, result)
<1>1. new \in Row /\ new.state = row.state
  BY SettleRowType
<1>2. /\ ReceiptsOnly(row, new)
      /\ \A d \in Commands : new.commands[d].result =
            IF d = c /\ row.commands[c].result = "accepted" THEN result ELSE row.commands[d].result
  BY SettleReceipts
<1> HIDE DEF new
<1>3. Booked(new) = Booked(row) /\ Numbered(new) /\ ClaimedInOrder(new) /\ OneAnswer(new)
  BY <1>1, <1>2, ReceiptsOnlyKeeps
<1>4. NoneBeforeStart(new)
  BY <1>1, <1>3 DEF Kept, NoneBeforeStart
<1>5. OpenWhileRunning(new)
  <2> SUFFICES ASSUME NEW d \in Booked(new)
               PROVE  /\ new.commands[d].claimed = FALSE /\ new.commands[d].result # "accepted"
                           => new.state \in Ended
                      /\ new.state \in Ended => new.commands[d].result # "accepted"
    BY DEF OpenWhileRunning
  <2>1. d \in Booked(row) /\ d \in Commands /\ new.commands[d].claimed = row.commands[d].claimed
    BY <1>2, <1>3 DEF ReceiptsOnly, Booked
  <2>2. CASE d = c
    <3>1. new.commands[d].claimed # FALSE
      BY <2>1, <2>2
    <3>2. new.state \in Ended => new.commands[d].result # "accepted"
      BY <1>1, <1>2, <2>1, <2>2 DEF Kept, OpenWhileRunning
    <3> QED  BY <3>1, <3>2
  <2>3. CASE d # c
    BY <1>1, <1>2, <2>1, <2>3 DEF Kept, OpenWhileRunning
  <2> QED  BY <2>2, <2>3
<1>6. Kept(new)
  BY <1>3, <1>4, <1>5 DEF Kept
<1> QED  BY <1>6 DEF new

(* pending changes claims and nothing else.                                 *)
LEMMA ClaimReceipts ==
    ASSUME NEW row \in Row, NEW c \in Commands
    PROVE  /\ ClaimCommands(row).commands[c].rowid = row.commands[c].rowid
           /\ ClaimCommands(row).commands[c].body = row.commands[c].body
           /\ ClaimCommands(row).commands[c].result = row.commands[c].result
           /\ c \in PendingCommands(row) => ClaimCommands(row).commands[c].claimed = TRUE
           /\ c \notin PendingCommands(row) => ClaimCommands(row).commands[c] = row.commands[c]
<1> DEFINE cs == [d \in Commands |->
        IF d \in PendingCommands(row) THEN [row.commands[d] EXCEPT !.claimed = TRUE]
                                      ELSE row.commands[d]]
<1>1. ClaimCommands(row).commands = cs
  <2>1. ClaimCommands(row) = [row EXCEPT !.commands = cs]
    BY DEF ClaimCommands
  <2> HIDE DEF cs
  <2> QED  BY <2>1 DEF Row
<1>2. CASE c \in PendingCommands(row)
  <2>1. row.commands[c] \in Inserted
    BY <1>2, CommandFields DEF PendingCommands
  <2>2. cs[c] = [row.commands[c] EXCEPT !.claimed = TRUE]
    BY <1>2
  <2> HIDE DEF cs
  <2> QED  BY <1>1, <1>2, <2>1, <2>2 DEF Inserted
<1>3. CASE c \notin PendingCommands(row)
  <2>1. cs[c] = row.commands[c]
    BY <1>3
  <2> HIDE DEF cs
  <2> QED  BY <1>1, <1>3, <2>1
<1> QED  BY <1>2, <1>3

(* In a running row pending claims all that is left unclaimed.              *)
LEMMA KeptByPending ==
    ASSUME NEW row \in Row, Kept(row)
    PROVE  Kept(ClaimCommands(row))
<1> DEFINE new == ClaimCommands(row)
<1>1. new \in Row /\ new.state = row.state
  BY ClaimCommandsType
<1>2. \A c \in Commands :
        /\ new.commands[c].rowid = row.commands[c].rowid
        /\ new.commands[c].body = row.commands[c].body
        /\ new.commands[c].result = row.commands[c].result
        /\ c \in PendingCommands(row) => new.commands[c].claimed = TRUE
        /\ c \notin PendingCommands(row) => new.commands[c] = row.commands[c]
  BY ClaimReceipts
<1> HIDE DEF new
<1>3. Booked(new) = Booked(row)
  BY <1>2 DEF Booked
<1>4. NoneBeforeStart(new) /\ Numbered(new)
  BY <1>1, <1>2, <1>3 DEF Kept, NoneBeforeStart, Numbered
<1>5. ClaimedInOrder(new)
  <2> SUFFICES ASSUME NEW c \in Booked(new), NEW d \in Booked(new),
                      new.commands[c].rowid < new.commands[d].rowid,
                      new.commands[d].claimed = TRUE
               PROVE  new.commands[c].claimed = TRUE
    BY DEF ClaimedInOrder
  <2>1. c \in Booked(row) /\ d \in Booked(row) /\ c \in Commands /\ d \in Commands
    BY <1>3 DEF Booked
  <2>2. CASE d \notin PendingCommands(row)
    <3>1. row.commands[d].claimed = TRUE /\ row.commands[c].rowid < row.commands[d].rowid
      BY <1>2, <2>1, <2>2
    <3>2. row.commands[c].claimed = TRUE
      BY <2>1, <3>1 DEF Kept, ClaimedInOrder
    <3> QED  BY <1>2, <2>1, <3>2
  <2>3. CASE d \in PendingCommands(row)
    <3>1. row.commands[d].result = "accepted"
      BY <2>3 DEF PendingCommands
    <3>2. row.state \notin Ended
      BY <2>1, <3>1 DEF Kept, OpenWhileRunning
    <3>3. row.commands[c].claimed \in BOOLEAN
      BY <2>1, CommandFields
    <3>4. row.commands[c].claimed = FALSE => row.commands[c].result = "accepted"
      BY <2>1, <3>2 DEF Kept, OpenWhileRunning
    <3>5. CASE row.commands[c].claimed = FALSE
      <4>1. c \in PendingCommands(row)
        BY <2>1, <3>4, <3>5, Zenon DEF PendingCommands
      <4> QED  BY <1>2, <2>1, <4>1
    <3>6. CASE row.commands[c].claimed = TRUE
      BY <1>2, <2>1, <3>6
    <3> QED  BY <3>3, <3>5, <3>6
  <2> QED  BY <2>2, <2>3
<1>6. OpenWhileRunning(new)
  <2> SUFFICES ASSUME NEW c \in Booked(new)
               PROVE  /\ new.commands[c].claimed = FALSE /\ new.commands[c].result # "accepted"
                           => new.state \in Ended
                      /\ new.state \in Ended => new.commands[c].result # "accepted"
    BY DEF OpenWhileRunning
  <2>1. c \in Booked(row) /\ c \in Commands
    BY <1>3 DEF Booked
  <2> QED  BY <1>1, <1>2, <2>1 DEF Kept, OpenWhileRunning
<1>7. OneAnswer(new)
  BY <1>2, <1>3 DEF Kept, OneAnswer, Answers
<1>8. Kept(new)
  BY <1>4, <1>5, <1>6, <1>7 DEF Kept
<1> QED  BY <1>8 DEF new

(* A command enters the table: under a new id and rowid, open, unclaimed,   *)
(* while the execution runs, and an answer only if no other one stands.     *)
Inserts(row, new, c) ==
    /\ row.state = "running" /\ new.state = "running" /\ c \notin Booked(row)
    /\ \A d \in Commands \ {c} : new.commands[d] = row.commands[d]
    /\ new.commands[c].rowid = 1 + Cardinality(Booked(row))
    /\ new.commands[c].claimed = FALSE
    /\ new.commands[c].result = "accepted"
    /\ new.commands[c].body.kind = "answer" =>
          \A d \in Commands : Answers(row, d)
              /\ row.commands[d].body.request = new.commands[c].body.request
              => row.commands[d].result = "rejected"

(* enqueue inserts a command or changes nothing.                            *)
LEMMA EnqueueInserts ==
    ASSUME NEW row \in Row, NEW c \in Commands, NEW body \in Bodies
    PROVE  \/ EnqueueRow(row, c, body) = row
           \/ Inserts(row, EnqueueRow(row, c, body), c)
<1>1. CASE row.commands[c].rowid = 0 /\ EnqueueResult(row, c, body) = "accepted"
  <2> DEFINE n == 1 + Cardinality({d \in Commands : row.commands[d].rowid # 0})
             added == [body |-> body, result |-> "accepted", claimed |-> FALSE, rowid |-> n]
             new == EnqueueRow(row, c, body)
  <2>1. new = [row EXCEPT !.commands[c] = added]
    BY <1>1 DEF EnqueueRow, InsertCommand
  <2>2. /\ row.state = "running"
        /\ body.kind = "answer" => ~AnswerBlocked(row, body.request)
    BY <1>1 DEF EnqueueResult
  <2>3. added.body = body /\ added.result = "accepted" /\ added.claimed = FALSE /\ added.rowid = n
    OBVIOUS
  <2>4. n = 1 + Cardinality(Booked(row)) /\ c \notin Booked(row)
    BY <1>1 DEF Booked
  <2> HIDE DEF n, added, new
  <2>5. /\ new.state = row.state /\ new.commands[c] = added
        /\ \A d \in Commands \ {c} : new.commands[d] = row.commands[d]
    BY <2>1 DEF Row
  <2>6. ASSUME body.kind = "answer", NEW d \in Commands, Answers(row, d),
               row.commands[d].body.request = body.request
        PROVE  row.commands[d].result = "rejected"
    BY <2>2, <2>6 DEF AnswerBlocked, Answers, Booked
  <2>7. Inserts(row, new, c)
    BY <2>2, <2>3, <2>4, <2>5, <2>6 DEF Inserts
  <2> QED  BY <2>7 DEF new
<1>2. CASE ~(row.commands[c].rowid = 0 /\ EnqueueResult(row, c, body) = "accepted")
  BY <1>2 DEF EnqueueRow
<1> QED  BY <1>1, <1>2

(* One more command is in the table, with a rowid above all others.         *)
LEMMA InsertedIsLast ==
    ASSUME NEW row \in Row, NEW new \in Row, NEW c \in Commands, Kept(row), Inserts(row, new, c)
    PROVE  /\ Booked(new) = Booked(row) \cup {c}
           /\ Numbered(new)
           /\ \A d \in Booked(row) : /\ d \in Commands /\ d # c /\ new.commands[d] = row.commands[d]
                                     /\ new.commands[d].rowid < new.commands[c].rowid
<1>1. Cardinality(Booked(row)) \in Nat /\ IsFiniteSet(Booked(row))
  BY CountOfCommands
<1>2. new.commands[c].rowid # 0
  BY <1>1 DEF Inserts
<1>3. Booked(new) = Booked(row) \cup {c}
  BY <1>2 DEF Inserts, Booked
<1>4. Cardinality(Booked(new)) = Cardinality(Booked(row)) + 1
  BY <1>1, <1>3, FS_AddElement DEF Inserts
<1>5. \A d \in Commands : row.commands[d].rowid \in Nat /\ row.commands[d].rowid <= Cardinality(Booked(row))
  BY CommandFields DEF Kept, Numbered
<1>6. Numbered(new)
  BY <1>1, <1>4, <1>5 DEF Numbered, Inserts
<1>7. \A d \in Booked(row) : /\ d \in Commands /\ d # c /\ new.commands[d] = row.commands[d]
                             /\ new.commands[d].rowid < new.commands[c].rowid
  BY <1>1, <1>5 DEF Inserts, Booked
<1> QED  BY <1>3, <1>6, <1>7

(* An accepted command overtakes nobody and is no second answer.            *)
LEMMA KeptByEnqueue ==
    ASSUME NEW row \in Row, NEW new \in Row, NEW c \in Commands, Kept(row), Inserts(row, new, c)
    PROVE  Kept(new)
<1>1. /\ Booked(new) = Booked(row) \cup {c} /\ Numbered(new)
      /\ \A d \in Booked(row) : /\ d \in Commands /\ d # c /\ new.commands[d] = row.commands[d]
                                /\ new.commands[d].rowid < new.commands[c].rowid
  BY InsertedIsLast
<1>2. NoneBeforeStart(new)
  BY DEF NoneBeforeStart, Inserts, Unstarted
<1>3. ClaimedInOrder(new)
  <2> SUFFICES ASSUME NEW d \in Booked(new), NEW x \in Booked(new),
                      new.commands[d].rowid < new.commands[x].rowid,
                      new.commands[x].claimed = TRUE
               PROVE  new.commands[d].claimed = TRUE
    BY DEF ClaimedInOrder
  <2>1. x \in Booked(row)
    BY <1>1 DEF Inserts
  <2>2. d \in Booked(row)
    <3>1. new.commands[x].rowid \in Nat /\ new.commands[c].rowid \in Nat
      BY <1>1, <2>1, CommandFields
    <3>2. ~(new.commands[c].rowid < new.commands[x].rowid)
      BY <1>1, <2>1, <3>1
    <3> QED  BY <1>1, <3>2
  <2> QED  BY <1>1, <2>1, <2>2 DEF Kept, ClaimedInOrder
<1>4. OpenWhileRunning(new)
  <2> SUFFICES ASSUME NEW d \in Booked(new)
               PROVE  new.commands[d].claimed = FALSE /\ new.commands[d].result # "accepted"
                           => new.state \in Ended
    BY DEF OpenWhileRunning, Inserts, Ended
  <2>1. CASE d = c
    BY <2>1 DEF Inserts
  <2>2. CASE d \in Booked(row)
    BY <1>1, <2>2 DEF Kept, OpenWhileRunning, Inserts
  <2> QED  BY <1>1, <2>1, <2>2
<1>5. OneAnswer(new)
  <2>1. ASSUME NEW x \in Commands, x # c, Answers(new, x), Answers(new, c),
               new.commands[x].body.request = new.commands[c].body.request
        PROVE  new.commands[x].result = "rejected"
    <3>1. x \in Booked(row) /\ new.commands[x] = row.commands[x]
      BY <1>1, <2>1 DEF Answers
    <3>2. Answers(row, x) /\ new.commands[c].body.kind = "answer"
      BY <2>1, <3>1 DEF Answers
    <3> QED  BY <2>1, <3>1, <3>2 DEF Inserts
  <2>2. ASSUME NEW d \in Commands, NEW x \in Commands, d # x, d # c, x # c,
               Answers(new, d), Answers(new, x),
               new.commands[d].body.request = new.commands[x].body.request
        PROVE  new.commands[d].result = "rejected" \/ new.commands[x].result = "rejected"
    <3>1. /\ d \in Booked(row) /\ new.commands[d] = row.commands[d]
          /\ x \in Booked(row) /\ new.commands[x] = row.commands[x]
      BY <1>1, <2>2 DEF Answers
    <3>2. Answers(row, d) /\ Answers(row, x)
      BY <2>2, <3>1 DEF Answers
    <3> QED  BY <2>2, <3>1, <3>2 DEF Kept, OneAnswer
  <2> QED  BY <2>1, <2>2 DEF OneAnswer
<1> QED  BY <1>1, <1>2, <1>3, <1>4, <1>5 DEF Kept
-----------------------------------------------------------------------------
(* Rows and providers: what each transaction does to Told.                  *)

(* A change of receipts that adds no confirmation keeps what was told.      *)
LEMMA ToldKept ==
    ASSUME NEW row \in Row, NEW new \in Row, NEW p \in Provider, Told(row, p),
           \A c \in Commands : /\ new.commands[c].rowid = row.commands[c].rowid
                               /\ new.commands[c].result \in {"delivered", "rejected"} =>
                                     \/ new.commands[c].result = row.commands[c].result
                                     \/ TrueOf(p, c, new.commands[c].result)
    PROVE  Told(new, p)
<1>1. Booked(new) = Booked(row)
  BY DEF Booked
<1>2. InOrder(new, p)
  <2>1. Booked(row) \subseteq Commands
    BY DEF Booked
  <2> QED  BY <1>1, <2>1 DEF Told, InOrder
<1>3. ReceiptsTrue(new, p)
  BY DEF Told, ReceiptsTrue
<1> QED  BY <1>2, <1>3 DEF Told

(* A new command has not been written before its elders.                    *)
LEMMA ToldByEnqueue ==
    ASSUME NEW row \in Row, NEW new \in Row, NEW p \in Provider, NEW c \in Commands,
           Kept(row), Told(row, p), Inserts(row, new, c), p.writes[c] = 0
    PROVE  Told(new, p)
<1>1. /\ Booked(new) = Booked(row) \cup {c}
      /\ \A d \in Booked(row) : /\ d \in Commands /\ d # c /\ new.commands[d] = row.commands[d]
                                /\ new.commands[d].rowid < new.commands[c].rowid
  BY InsertedIsLast
<1>2. ReceiptsTrue(new, p)
  BY DEF Told, ReceiptsTrue, Inserts
<1>3. InOrder(new, p)
  <2> SUFFICES ASSUME NEW d \in Booked(new), NEW x \in Booked(new),
                      new.commands[d].rowid < new.commands[x].rowid, p.writes[x] > 0
               PROVE  p.writes[d] > 0
    BY DEF InOrder
  <2>1. x \in Booked(row)
    BY <1>1
  <2>2. d \in Booked(row)
    <3>1. new.commands[x].rowid \in Nat /\ new.commands[c].rowid \in Nat
      BY <1>1, <2>1, CommandFields
    <3>2. ~(new.commands[c].rowid < new.commands[x].rowid)
      BY <1>1, <2>1, <3>1
    <3> QED  BY <1>1, <3>2
  <2> QED  BY <1>1, <2>1, <2>2 DEF Told, InOrder
<1> QED  BY <1>2, <1>3 DEF Told

(* The provider has seen one more write of c, and took it or not.           *)
Writes(p, q, c) ==
    /\ q.writes = [p.writes EXCEPT ![c] = p.writes[c] + 1]
    /\ q.took = p.took \/ q.took = p.took \cup {c}

(* What is true of a written command stays true when another is written.    *)
LEMMA TruthStays ==
    ASSUME NEW p \in Provider, NEW q \in Provider, NEW c \in Commands, Writes(p, q, c),
           p.writes[c] = 0, NEW d \in Commands, NEW result, TrueOf(p, d, result)
    PROVE  TrueOf(q, d, result)
<1>1. d # c /\ q.writes[d] = p.writes[d]
  BY DEF TrueOf, Writes, Provider
<1> QED  BY <1>1 DEF TrueOf, Writes

(* The host writes the first of the commands in its hands: everything older *)
(* has been written, and no receipt spoke of it yet.                        *)
LEMMA ToldByWrite ==
    ASSUME NEW row \in Row, NEW p \in Provider, NEW q \in Provider, NEW c \in Commands,
           Told(row, p), Writes(p, q, c), p.writes[c] = 0,
           \A d \in Booked(row) : row.commands[d].rowid < row.commands[c].rowid => p.writes[d] > 0
    PROVE  Told(row, q)
<1>1. /\ p.writes \in [Commands -> Nat] /\ q.writes \in [Commands -> Nat]
      /\ q.writes[c] = 1 /\ \A d \in Commands \ {c} : q.writes[d] = p.writes[d]
  BY DEF Writes, Provider
<1>2. ReceiptsTrue(row, q)
  BY TruthStays DEF Told, ReceiptsTrue
<1>3. TookWritten(q)
  <2>1. \A d \in q.took : d \in Commands /\ (d = c \/ d \in p.took)
    BY DEF Writes, Provider
  <2> QED  BY <1>1, <2>1 DEF Told, TookWritten
<1>4. InOrder(row, q)
  <2> SUFFICES ASSUME NEW d \in Booked(row), NEW x \in Booked(row),
                      row.commands[d].rowid < row.commands[x].rowid, q.writes[x] > 0
               PROVE  q.writes[d] > 0
    BY DEF InOrder
  <2>1. d \in Commands /\ x \in Commands
    BY DEF Booked
  <2>2. CASE d = c
    BY <1>1, <2>2
  <2>3. CASE x = c /\ d # c
    BY <1>1, <2>1, <2>3
  <2>4. CASE x # c /\ d # c
    BY <1>1, <2>1, <2>4 DEF Told, InOrder
  <2> QED  BY <2>2, <2>3, <2>4
<1> QED  BY <1>2, <1>3, <1>4 DEF Told
-----------------------------------------------------------------------------
(* Hosts: what each step does to Handled.                                   *)

(* The operations of a chain to which others were added.                    *)
LEMMA JoinedAt ==
    ASSUME NEW s \in Seq(Op), NEW t \in Seq(Op), NEW i \in 1..Len(s \o t)
    PROVE  \/ i \in 1..Len(s) /\ (s \o t)[i] = s[i]
           \/ i > Len(s) /\ i - Len(s) \in 1..Len(t) /\ (s \o t)[i] = t[i - Len(s)]
OBVIOUS

(* The operations of a chain without its head.                              *)
LEMMA TailAt ==
    ASSUME NEW s \in Seq(Op), s # <<>>, NEW i \in 1..Len(Tail(s))
    PROVE  i + 1 \in 1..Len(s) /\ Tail(s)[i] = s[i + 1]
OBVIOUS

(* A process without a chain and outside its serving phases owes nothing.   *)
LEMMA HandledEmpty ==
    ASSUME NEW row, NEW p, NEW host, host.tail = <<>>, host.step = "idle",
           host.pc \notin {"claimed", "serving"}
    PROVE  Handled(row, p, host)
BY DEF Handled, OneStep, Reports, Holds

(* A step elsewhere that claims no command keeps what the host holds.       *)
LEMMA HandledElsewhere ==
    ASSUME NEW row, NEW new, NEW p, NEW q, NEW host, Handled(row, p, host),
           q.writes = p.writes, q.took = p.took,
           \A c \in Commands : new.commands[c].claimed = TRUE => row.commands[c].claimed = TRUE
    PROVE  Handled(new, q, host)
BY DEF Handled, OneStep, Reports, Holds, TrueOf

(* An idle process of another launch is not concerned by a write.           *)
LEMMA HandledAside ==
    ASSUME NEW row \in Row, NEW p \in Provider, NEW q \in Provider, NEW host \in Host, NEW c \in Commands,
           Handled(row, p, host), Writes(p, q, c), host.tail = <<>>,
           host.pc \notin {"claimed", "serving"}
    PROVE  Handled(row, q, host)
<1>1. host.step = "writing" => host.command \in Commands /\ p.writes[host.command] > 0
  BY DEF Handled, Reports, Host
<1>2. host.step = "writing" => q.writes[host.command] > 0
  BY <1>1 DEF Writes, Provider
<1> QED  BY <1>2 DEF Handled, OneStep, Reports, Holds

(* The host's memory apart from its chain.                                  *)
SameWork(host, new) ==
    /\ new.step = host.step /\ new.command = host.command /\ new.batch = host.batch
    /\ new.pc \in {"claimed", "serving"} => host.pc \in {"claimed", "serving"}

(* Events and the finish join the chain.                                    *)
LEMMA HandledPush ==
    ASSUME NEW row, NEW p, NEW host \in Host, NEW new \in Host, NEW ops \in Seq(Op),
           Handled(row, p, host), SameWork(host, new), new.tail = host.tail \o ops,
           \A i \in 1..Len(ops) : ops[i].op \notin Control
    PROVE  Handled(row, p, new)
<1>1. host.tail \in Seq(Op)
  BY DEF Host, HostMemory
<1>2. \A i \in 1..Len(new.tail) : new.tail[i].op \in Control =>
         i \in 1..Len(host.tail) /\ new.tail[i] = host.tail[i]
  BY <1>1, JoinedAt
<1>3. OneStep(new)
  BY <1>2 DEF Handled, OneStep, SameWork, Control
<1>4. Reports(p, new)
  BY <1>2 DEF Handled, Reports, SameWork, Control
<1>5. Holds(row, p, new)
  BY DEF Handled, Holds, SameWork
<1> QED  BY <1>3, <1>4, <1>5 DEF Handled

(* The head of the chain commits.                                           *)
LEMMA HandledPop ==
    ASSUME NEW row, NEW p, NEW host \in Host, NEW new \in Host,
           Handled(row, p, host), host.tail # <<>>, new.tail = Tail(host.tail),
           new.batch = host.batch,
           new.pc \in {"claimed", "serving"} => host.pc \in {"claimed", "serving"},
           \/ new.step = host.step /\ new.command = host.command
           \/ Head(host.tail).op \in Control /\ new.step = "idle"
    PROVE  Handled(row, p, new)
<1>1. host.tail \in Seq(Op)
  BY DEF Host, HostMemory
<1>2. \A i \in 1..Len(new.tail) : i + 1 \in 1..Len(host.tail) /\ new.tail[i] = host.tail[i + 1]
  BY <1>1, TailAt
<1>3. Head(host.tail) = host.tail[1] /\ 1 \in 1..Len(host.tail)
  BY <1>1
<1>4. \A i \in 1..Len(new.tail) : Head(host.tail).op \in Control => new.tail[i].op \notin Control
  <2> SUFFICES ASSUME NEW i \in 1..Len(new.tail), Head(host.tail).op \in Control,
                      new.tail[i].op \in Control
               PROVE  FALSE
    OBVIOUS
  <2>1. 1 = i + 1
    BY <1>2, <1>3 DEF Handled, OneStep
  <2> QED  BY <2>1
<1>5. \A i, j \in 1..Len(new.tail) :
          new.tail[i].op \in Control /\ new.tail[j].op \in Control => i = j
  <2> SUFFICES ASSUME NEW i \in 1..Len(new.tail), NEW j \in 1..Len(new.tail),
                      new.tail[i].op \in Control, new.tail[j].op \in Control
               PROVE  i = j
    OBVIOUS
  <2>1. i + 1 = j + 1
    BY <1>2 DEF Handled, OneStep
  <2> QED  BY <2>1
<1>6. OneStep(new)
  <2>1. ASSUME NEW i \in 1..Len(new.tail), new.tail[i].op \in Control
        PROVE  new.step = host.step
    BY <1>4, <2>1
  <2>2. new.step = "claiming" => new.batch = {}
    BY DEF Handled, OneStep
  <2> QED  BY <1>2, <1>5, <2>1, <2>2 DEF Handled, OneStep, Control
<1>7. Reports(p, new)
  BY <1>2 DEF Handled, Reports
<1>8. Holds(row, p, new)
  BY DEF Handled, Holds
<1> QED  BY <1>6, <1>7, <1>8 DEF Handled

(* drain asks for the pending commands only with empty hands.               *)
LEMMA HandledDrain ==
    ASSUME NEW row, NEW p, NEW host \in Host, NEW new \in Host, Handled(row, p, host),
           host.step = "idle", host.batch = {}, new.step = "claiming", new.batch = {},
           new.pc = host.pc, new.tail = host.tail \o <<[op |-> "pending"]>>
    PROVE  Handled(row, p, new)
<1> DEFINE ops == <<[op |-> "pending"]>>
<1>0. host.tail \in Seq(Op) /\ ops \in Seq(Op) /\ Len(ops) = 1 /\ ops[1].op = "pending"
  BY OpTypes DEF Host, HostMemory
<1>1. \A i \in 1..Len(host.tail) : host.tail[i].op \notin Control
  BY DEF Handled, OneStep, Control
<1> HIDE DEF ops
<1>2. \A i \in 1..Len(new.tail) :
         \/ i \in 1..Len(host.tail) /\ new.tail[i] = host.tail[i]
         \/ i > Len(host.tail) /\ i - Len(host.tail) \in 1..Len(ops) /\ new.tail[i] = ops[i - Len(host.tail)]
  BY <1>0, JoinedAt DEF ops
<1>3. \A i \in 1..Len(new.tail) : new.tail[i].op \in Control =>
         i = Len(host.tail) + 1 /\ new.tail[i].op = "pending"
  BY <1>0, <1>1, <1>2
<1>4. OneStep(new)
  BY <1>3 DEF OneStep, Control
<1>5. Reports(p, new)
  BY <1>3 DEF Reports, Control
<1>6. Holds(row, p, new)
  BY DEF Handled, Holds
<1> QED  BY <1>4, <1>5, <1>6 DEF Handled

(* The answer of the provider becomes a receipt on the chain.               *)
LEMMA HandledReply ==
    ASSUME NEW row, NEW p, NEW host \in Host, NEW new \in Host, NEW result \in Receipts,
           Handled(row, p, host), host.step = "writing",
           new.step = "settling", new.batch = host.batch, new.pc = host.pc,
           new.tail = host.tail \o <<[op |-> "settle", command |-> host.command, result |-> result]>>,
           result = "delivered" => host.command \in p.took,
           result = "rejected" => host.command \notin p.took
    PROVE  Handled(row, p, new)
<1> DEFINE op == [op |-> "settle", command |-> host.command, result |-> result]
           ops == <<op>>
<1>0. /\ host.tail \in Seq(Op) /\ ops \in Seq(Op) /\ Len(ops) = 1
      /\ ops[1].op = "settle" /\ ops[1].command = host.command /\ ops[1].result = result
  BY OpTypes DEF Host, HostMemory
<1>1. \A i \in 1..Len(host.tail) : host.tail[i].op \notin Control
  BY DEF Handled, OneStep, Control
<1>2. TrueOf(p, host.command, result)
  BY DEF Handled, Reports, TrueOf
<1> HIDE DEF op, ops
<1>3. \A i \in 1..Len(new.tail) :
         \/ i \in 1..Len(host.tail) /\ new.tail[i] = host.tail[i]
         \/ i > Len(host.tail) /\ i - Len(host.tail) \in 1..Len(ops) /\ new.tail[i] = ops[i - Len(host.tail)]
  BY <1>0, JoinedAt DEF op, ops
<1>4. \A i \in 1..Len(new.tail) : new.tail[i].op \in Control =>
         i = Len(host.tail) + 1 /\ new.tail[i] = ops[1]
  BY <1>0, <1>1, <1>3
<1>5. OneStep(new)
  BY <1>0, <1>4 DEF OneStep, Control
<1>6. Reports(p, new)
  BY <1>0, <1>2, <1>4 DEF Reports, Control
<1>7. Holds(row, p, new)
  BY DEF Handled, Holds
<1> QED  BY <1>5, <1>6, <1>7 DEF Handled

(* One command leaves the host's hands and is written.                      *)
LEMMA HandledWrite ==
    ASSUME NEW row \in Row, NEW p \in Provider, NEW q \in Provider, NEW host \in Host, NEW new \in Host,
           NEW c \in Commands, Handled(row, p, host), Writes(p, q, c), p.writes[c] = 0,
           host.step = "idle", new.step = "writing", new.command = c, new.tail = host.tail,
           new.batch = host.batch \ {c}, new.pc = host.pc
    PROVE  Handled(row, q, new)
<1>1. host.tail \in Seq(Op)
  BY DEF Host, HostMemory
<1>2. \A i \in 1..Len(host.tail) : host.tail[i].op \notin Control
  BY DEF Handled, OneStep, Control
<1>3. /\ q.writes[c] = 1 /\ \A d \in Commands \ {c} : q.writes[d] = p.writes[d]
  BY DEF Writes, Provider
<1>4. OneStep(new) /\ Reports(q, new)
  BY <1>2, <1>3 DEF OneStep, Reports, Control
<1>5. Holds(row, q, new)
  BY <1>3 DEF Handled, Holds
<1> QED  BY <1>4, <1>5 DEF Handled

(* The pending operation commits: what it claims is what the host holds.    *)
LEMMA HandledPending ==
    ASSUME NEW row \in Row, NEW p, NEW host \in Host, NEW new \in Host, Handled(row, p, host),
           host.tail # <<>>, Head(host.tail).op = "pending", new.tail = Tail(host.tail),
           new.step = "idle", new.batch = PendingCommands(row), new.pc = host.pc
    PROVE  Handled(ClaimCommands(row), p, new)
<1> DEFINE popped == [new EXCEPT !.batch = host.batch]
<1>1. host.tail \in Seq(Op)
  BY DEF Host, HostMemory
<1>2. Head(host.tail) = host.tail[1] /\ 1 \in 1..Len(host.tail)
  BY <1>1
<1>3. host.batch = {}
  BY <1>2 DEF Handled, OneStep
<1>4. /\ popped \in Host /\ popped.tail = new.tail /\ popped.step = new.step
      /\ popped.batch = host.batch /\ popped.pc = new.pc /\ popped.command = new.command
  BY DEF Host, HostMemory
<1> HIDE DEF popped
<1>5. Handled(row, p, popped)
  BY <1>4, HandledPop DEF Control
<1>6. OneStep(new) /\ Reports(p, new)
  BY <1>4, <1>5 DEF Handled, OneStep, Reports
<1>7. Holds(ClaimCommands(row), p, new)
  <2> SUFFICES ASSUME new.pc \in {"claimed", "serving"}, NEW c \in Commands,
                      ClaimCommands(row).commands[c].claimed = TRUE, p.writes[c] = 0
               PROVE  c \in PendingCommands(row)
    BY DEF Holds
  <2>1. c \notin PendingCommands(row) => row.commands[c].claimed = TRUE
    BY ClaimReceipts
  <2> QED  BY <1>3, <2>1 DEF Handled, Holds
<1> QED  BY <1>6, <1>7 DEF Handled

(* A claim of commands does not concern a process that does not serve.      *)
LEMMA HandledUnclaimed ==
    ASSUME NEW row, NEW new, NEW p, NEW host, Handled(row, p, host),
           host.pc \notin {"claimed", "serving"}
    PROVE  Handled(new, p, host)
BY DEF Handled, Holds
-----------------------------------------------------------------------------
(* The system.                                                              *)

(* One execution is concerned, the others stay as they are.                 *)
LEMMA OneExecution ==
    ASSUME Commanded, NEW e \in Executions,
           \A f \in Executions \ {e} :
               /\ rows'[f] = rows[f] /\ provider'[f] = provider[f]
               /\ \A j \in Attempts : hosts'[f][j] = hosts[f][j],
           Kept(rows'[e]), Told(rows'[e], provider'[e]),
           \A j \in Attempts : Handled(rows'[e], provider'[e], hosts'[e][j])
    PROVE  Commanded'
<1> SUFFICES ASSUME NEW f \in Executions
             PROVE  /\ Kept(rows'[f]) /\ Told(rows'[f], provider'[f])
                    /\ \A j \in Attempts : Handled(rows'[f], provider'[f], hosts'[f][j])
  BY DEF Commanded
<1>1. CASE f = e
  BY <1>1
<1>2. CASE f # e
  BY <1>2 DEF Commanded
<1> QED  BY <1>1, <1>2

(* Only rows change, none of them claims a command.                         *)
LEMMA RowsCommanded ==
    ASSUME Commanded, UNCHANGED <<hosts, provider>>,
           \A e \in Executions :
               /\ Kept(rows'[e]) /\ Told(rows'[e], provider[e])
               /\ \A c \in Commands :
                     rows'[e].commands[c].claimed = TRUE => rows[e].commands[c].claimed = TRUE
    PROVE  Commanded'
<1> SUFFICES ASSUME NEW e \in Executions
             PROVE  /\ Kept(rows'[e]) /\ Told(rows'[e], provider'[e])
                    /\ \A j \in Attempts : Handled(rows'[e], provider'[e], hosts'[e][j])
  BY DEF Commanded
<1>1. ASSUME NEW j \in Attempts PROVE Handled(rows'[e], provider'[e], hosts'[e][j])
  <2>1. Handled(rows[e], provider[e], hosts[e][j])
    BY DEF Commanded
  <2>2. Handled(rows'[e], provider[e], hosts[e][j])
    BY <2>1, HandledElsewhere
  <2> QED  BY <2>2
<1> QED  BY <1>1

(* Only one row changes, and claims no command.                             *)
LEMMA RowCommanded ==
    ASSUME Commanded, UNCHANGED <<hosts, provider>>, NEW e \in Executions,
           \A f \in Executions \ {e} : rows'[f] = rows[f],
           Kept(rows'[e]), Told(rows'[e], provider[e]),
           \A c \in Commands : rows'[e].commands[c].claimed = TRUE => rows[e].commands[c].claimed = TRUE
    PROVE  Commanded'
<1>1. ASSUME NEW f \in Executions
      PROVE  /\ Kept(rows'[f]) /\ Told(rows'[f], provider[f])
             /\ \A c \in Commands :
                   rows'[f].commands[c].claimed = TRUE => rows[f].commands[c].claimed = TRUE
  <2>1. CASE f = e
    BY <2>1
  <2>2. CASE f # e
    BY <2>2 DEF Commanded
  <2> QED  BY <2>1, <2>2
<1> QED  BY <1>1, RowsCommanded

(* Only one host changes; the rows keep their commands.                     *)
LEMMA HostCommanded ==
    ASSUME Commanded, NEW e \in Executions, NEW k \in Attempts, OthersKept(e, k),
           UNCHANGED rows,
           \A f \in Executions : /\ provider'[f].writes = provider[f].writes
                                 /\ provider'[f].took = provider[f].took,
           Handled(rows[e], provider[e], hosts'[e][k])
    PROVE  Commanded'
<1> SUFFICES ASSUME NEW f \in Executions
             PROVE  /\ Kept(rows[f]) /\ Told(rows[f], provider'[f])
                    /\ \A j \in Attempts : Handled(rows[f], provider'[f], hosts'[f][j])
  BY DEF Commanded
<1>1. Kept(rows[f]) /\ Told(rows[f], provider[f])
  BY DEF Commanded
<1>2. Told(rows[f], provider'[f])
  BY <1>1 DEF Told, ReceiptsTrue, TookWritten, InOrder, TrueOf
<1>3. ASSUME NEW j \in Attempts PROVE Handled(rows[f], provider'[f], hosts'[f][j])
  <2>1. Handled(rows[f], provider[f], hosts'[f][j])
    <3>1. CASE f = e /\ j = k
      BY <3>1
    <3>2. CASE f # e \/ j # k
      BY <3>2 DEF Commanded, OthersKept
    <3> QED  BY <3>1, <3>2
  <2> QED  BY <2>1, HandledElsewhere
<1> QED  BY <1>1, <1>2, <1>3

(* Rows whose commands stay as they are keep what was told.                 *)
LEMMA ToldSame ==
    ASSUME NEW row \in Row, NEW new \in Row, NEW p \in Provider, Told(row, p), new.commands = row.commands
    PROVE  Told(new, p)
BY ToldKept

(* admit touches no command.                                                *)
LEMMA AdmissionCommanded ==
    ASSUME Invariant, Commanded, [Next]_vars, AdmitExecutions, NEW e \in Executions
    PROVE  /\ Kept(rows'[e]) /\ Told(rows'[e], provider[e])
           /\ rows'[e].commands = rows[e].commands
<1>1. rows[e] \in Row /\ rows'[e] \in Row /\ provider[e] \in Provider /\ rows \in [Executions -> Row]
  BY StepTypes DEF TypeOK
<1>2. /\ rows'[e].commands = rows[e].commands
      /\ \/ rows'[e].state = rows[e].state
         \/ rows[e].state = "queued" /\ rows'[e].state = "starting"
  BY <1>1, AdmitRowsType DEF AdmitExecutions
<1>3. Kept(rows[e]) /\ Told(rows[e], provider[e])
  BY DEF Commanded
<1>4. Kept(rows'[e])
  BY <1>1, <1>2, <1>3, KeptAlive DEF Unstarted, Live
<1>5. Told(rows'[e], provider[e])
  BY <1>1, <1>2, <1>3, ToldSame
<1> QED  BY <1>2, <1>4, <1>5

(* finish, whoever calls it, on a row.                                      *)
LEMMA FinishCommanded ==
    ASSUME NEW row \in Row, NEW p \in Provider, NEW lost \in BOOLEAN, Kept(row), Told(row, p)
    PROVE  /\ Kept(FinishRow(row, lost)) /\ Told(FinishRow(row, lost), p)
           /\ \A c \in Commands : FinishRow(row, lost).commands[c].claimed = row.commands[c].claimed
<1> DEFINE new == FinishRow(row, lost)
<1>1. new \in Row /\ Kept(new)
  BY FinishRowType, KeptByFinish
<1>2. /\ ReceiptsOnly(row, new)
      /\ \A c \in Commands : new.commands[c].result =
            IF row.commands[c].result = "accepted" THEN "unknown" ELSE row.commands[c].result
  BY FinishReceipts
<1> HIDE DEF new
<1>3. Told(new, p)
  BY <1>1, <1>2, ToldKept DEF ReceiptsOnly
<1>4. \A c \in Commands : new.commands[c].claimed = row.commands[c].claimed
  BY <1>2 DEF ReceiptsOnly
<1> QED  BY <1>1, <1>3, <1>4 DEF new

(* The same for a fixed outcome.                                            *)
LEMMA FinishBoth ==
    ASSUME NEW row \in Row, NEW p \in Provider, Kept(row), Told(row, p)
    PROVE  \A lost \in BOOLEAN :
              /\ Kept(FinishRow(row, lost)) /\ Told(FinishRow(row, lost), p)
              /\ \A c \in Commands : FinishRow(row, lost).commands[c].claimed = row.commands[c].claimed
BY FinishCommanded

(* Every transaction of the web keeps what is known of the commands.        *)
LEMMA WebCommanded ==
    ASSUME Invariant, Commanded, WebNext
    PROVE  Commanded'
<1>0. /\ TypeOK /\ TypeOK' /\ Next
      /\ \A e \in Executions : /\ rows[e] \in Row /\ rows'[e] \in Row /\ provider[e] \in Provider
                               /\ Kept(rows[e]) /\ Told(rows[e], provider[e])
  <2>1. Next
    BY DEF Next
  <2> QED  BY <2>1, StepTypes DEF Commanded
<1>1. ASSUME NEW e \in Executions, NEW args \in Args, OpenReserves(e, args)
      PROVE  Commanded'
  <2>1. /\ UNCHANGED <<hosts, provider>>
        /\ rows[e].state = "absent" /\ rows'[e].state = "queued"
        /\ rows'[e].commands = NoRow.commands
        /\ \A f \in Executions \ {e} : rows'[f] = rows[f]
    BY <1>0, <1>1, OpenEffect
  <2>2. Booked(rows[e]) = {}
    BY <1>0, <2>1 DEF Kept, NoneBeforeStart, Unstarted
  <2>3. \A c \in Commands : rows[e].commands[c] = NoCommand /\ rows'[e].commands[c] = NoCommand
    BY <1>0, <2>1, <2>2, CommandFields DEF NoRow
  <2>4. rows'[e].commands = rows[e].commands
    BY <1>0, <2>3 DEF Row
  <2>5. Kept(rows'[e]) /\ Told(rows'[e], provider[e])
    BY <1>0, <2>1, <2>4, KeptAlive, ToldSame DEF Unstarted, Live
  <2> QED  BY <2>1, <2>4, <2>5, RowCommanded
<1>2. ASSUME OpenAdmits \/ WebAdmits
      PROVE  Commanded'
  <2>1. AdmitExecutions /\ UNCHANGED <<hosts, provider>>
    BY <1>0, <1>2, WebAdmitEffect
  <2>2. \A e \in Executions : /\ Kept(rows'[e]) /\ Told(rows'[e], provider[e])
                              /\ rows'[e].commands = rows[e].commands
    BY <1>0, <2>1, AdmissionCommanded
  <2> QED  BY <2>1, <2>2, RowsCommanded
<1>3. ASSUME ReconcileProbes
      PROVE  Commanded'
  <2>1. doing.exec \in Executions /\ doing.pid \in Attempts
    BY <1>3 DEF ReconcileProbes, Invariant, Ownership, CheckOwns
  <2>2. UNCHANGED <<hosts, provider>>
    BY <1>3 DEF ReconcileProbes
  <2>3. CASE UNCHANGED rows
    BY <2>2, <2>3 DEF Commanded
  <2>4. CASE UpdateRow(doing.exec, Append1(rows[doing.exec], Note("process_exit")))
    <3> DEFINE e == doing.exec
    <3>1. /\ rows'[e] = Append1(rows[e], Note("process_exit"))
          /\ \A f \in Executions \ {e} : rows'[f] = rows[f]
      BY <1>0, <2>1, <2>4, ReplacedRow
    <3>2. Note("process_exit") \in Entry
      BY NoteType DEF EventKinds
    <3>3. rows'[e].commands = rows[e].commands /\ rows'[e].state = rows[e].state
      BY <1>0, <2>1, <3>1, <3>2, Append1Type
    <3> HIDE DEF e
    <3>4. Kept(rows'[e]) /\ Told(rows'[e], provider[e])
      BY <1>0, <2>1, <3>3, KeptAlive, ToldSame DEF e
    <3> QED  BY <2>1, <2>2, <3>1, <3>3, <3>4, RowCommanded DEF e
  <2> QED  BY <1>3, <2>3, <2>4 DEF ReconcileProbes
<1>4. ASSUME ReconcileMarksLost
      PROVE  Commanded'
  <2> DEFINE e == doing.exec
  <2>1. e \in Executions /\ doing.pid \in Attempts
    BY <1>4 DEF ReconcileMarksLost, Invariant, Ownership, CheckOwns
  <2>2. UNCHANGED <<hosts, provider>> /\ UpdateRow(e, FinishRow(rows[e], TRUE))
    BY <1>4 DEF ReconcileMarksLost
  <2> HIDE DEF e
  <2>3. rows'[e] = FinishRow(rows[e], TRUE) /\ \A f \in Executions \ {e} : rows'[f] = rows[f]
    BY <1>0, <2>1, <2>2, ReplacedRow
  <2>4. \A lost \in BOOLEAN :
           /\ Kept(FinishRow(rows[e], lost)) /\ Told(FinishRow(rows[e], lost), provider[e])
           /\ \A c \in Commands : FinishRow(rows[e], lost).commands[c].claimed = rows[e].commands[c].claimed
    BY <1>0, <2>1, FinishBoth
  <2>5. /\ Kept(rows'[e]) /\ Told(rows'[e], provider[e])
        /\ \A c \in Commands : rows'[e].commands[c].claimed = rows[e].commands[c].claimed
    BY <2>3, <2>4, Zenon
  <2> QED  BY <2>1, <2>2, <2>3, <2>5, RowCommanded
<1>5. ASSUME NEW t \in Tasks, NEW c \in Commands, NEW body \in Bodies, WebCommands(t, c, body)
      PROVE  Commanded'
  <2> DEFINE e == view[t]
  <2>1. e \in Executions /\ UNCHANGED <<hosts, provider>>
    BY <1>0, <1>5 DEF TypeOK, WebCommands
  <2>2. UpdateRow(e, EnqueueRow(rows[e], c, body))
    BY <1>5 DEF WebCommands
  <2> HIDE DEF e
  <2>3. rows'[e] = EnqueueRow(rows[e], c, body) /\ \A f \in Executions \ {e} : rows'[f] = rows[f]
    BY <1>0, <2>1, <2>2, ReplacedRow
  <2>4. CASE rows'[e] = rows[e]
    BY <1>0, <2>1, <2>3, <2>4, RowCommanded
  <2>5. CASE Inserts(rows[e], rows'[e], c)
    <3>1. Kept(rows'[e])
      BY <1>0, <2>1, <2>5, KeptByEnqueue
    <3>2. provider[e].writes[c] = 0
      <4>1. rows[e].commands[c].rowid = 0
        BY <2>5 DEF Inserts, Booked
      <4> QED  BY <2>1, <4>1 DEF Invariant, Delivery, CommandOwned
    <3>3. Told(rows'[e], provider[e])
      BY <1>0, <2>1, <2>5, <3>2, ToldByEnqueue
    <3>4. \A d \in Commands : rows'[e].commands[d].claimed = TRUE => rows[e].commands[d].claimed = TRUE
      BY <2>5 DEF Inserts
    <3> QED  BY <2>1, <2>3, <3>1, <3>3, <3>4, RowCommanded
  <2>6. rows'[e] = rows[e] \/ Inserts(rows[e], rows'[e], c)
    BY <1>0, <2>1, <2>3, EnqueueInserts
  <2> QED  BY <2>4, <2>5, <2>6
<1>6. ASSUME NEW t \in Tasks, WebCancelsBeforeStart(t)
      PROVE  Commanded'
  <2> DEFINE e == view[t]
             marked == Append1(rows[e], Note("process_exit"))
  <2>1. e \in Executions /\ UNCHANGED <<hosts, provider>>
    BY <1>0, <1>6 DEF TypeOK, WebCancelsBeforeStart
  <2>2. UpdateRow(e, FinishRow(marked, FALSE))
    BY <1>6 DEF WebCancelsBeforeStart, CancelRow
  <2>3. Note("process_exit") \in Entry
    BY NoteType DEF EventKinds
  <2>4. marked \in Row /\ marked.commands = rows[e].commands /\ marked.state = rows[e].state
    BY <1>0, <2>1, <2>3, Append1Type
  <2> HIDE DEF e, marked
  <2>5. Kept(marked) /\ Told(marked, provider[e])
    BY <1>0, <2>1, <2>4, KeptAlive, ToldSame
  <2>6. rows'[e] = FinishRow(marked, FALSE) /\ \A f \in Executions \ {e} : rows'[f] = rows[f]
    BY <1>0, <2>1, <2>2, ReplacedRow
  <2>7. \A lost \in BOOLEAN :
           /\ Kept(FinishRow(marked, lost)) /\ Told(FinishRow(marked, lost), provider[e])
           /\ \A c \in Commands : FinishRow(marked, lost).commands[c].claimed = marked.commands[c].claimed
    BY <1>0, <2>1, <2>4, <2>5, FinishBoth
  <2>8. /\ Kept(rows'[e]) /\ Told(rows'[e], provider[e])
        /\ \A c \in Commands : rows'[e].commands[c].claimed = marked.commands[c].claimed
    BY <2>6, <2>7, Zenon
  <2>9. \A c \in Commands : rows'[e].commands[c].claimed = TRUE => rows[e].commands[c].claimed = TRUE
    BY <2>4, <2>8
  <2> QED  BY <2>1, <2>6, <2>8, <2>9, RowCommanded
<1>7. ASSUME UNCHANGED <<rows, hosts, provider>> PROVE Commanded'
  BY <1>7 DEF Commanded
<1>8. ASSUME NEW e \in Executions, NEW args \in Args, OpenFindsReserved(e, args)
      PROVE  Commanded'
  BY <1>7, <1>8 DEF OpenFindsReserved
<1>9. ASSUME NEW t \in Tasks, ReconcileReads(t) \/ HandleCompletes(t)
      PROVE  Commanded'
  BY <1>7, <1>9 DEF ReconcileReads, HandleCompletes
<1>10. ASSUME WebCrashes \/ WebStarts
       PROVE  Commanded'
  BY <1>7, <1>10 DEF WebCrashes, WebStarts
<1> QED  BY <1>1, <1>2, <1>3, <1>4, <1>5, <1>6, <1>8, <1>9, <1>10 DEF WebNext

(* The operations that are not the drain's.                                 *)
LEMMA PlainOps ==
    /\ \A event \in Emitted : <<EventOp(event)>> \in Seq(Op)
    /\ \A kind \in EventKinds : Plain(kind) \in Op /\ Plain(kind).op \notin Control
    /\ \A event \in Emitted : EventOp(event).op \notin Control
<1>1. \A event \in Emitted : <<EventOp(event)>> \in Seq(Op)
  BY OpTypes
<1> QED  BY <1>1, OpTypes DEF Plain, EventOp, Control

(* A finish and the events before it join the chain.                        *)
LEMMA FinishOps ==
    ASSUME NEW lost \in BOOLEAN
    PROVE  /\ [op |-> "finish", lost |-> lost] \in Op
           /\ [op |-> "finish", lost |-> lost].op \notin Control
BY OpTypes DEF Control

(* The steps of a host that neither write nor commit, and those that end    *)
(* it.                                                                      *)
LEMMA HostWorkCommanded ==
    ASSUME Invariant, Commanded, NEW e \in Executions, NEW k \in Attempts, HostNext(e, k),
           \/ LaunchArrives(e, k) \/ HostClaimRefused(e, k) \/ HostInvokes(e, k) \/ Works(e, k)
           \/ HostFails(e, k) \/ HostFailureExits(e, k) \/ HostCrashes(e, k) \/ OrphanEnds(e, k)
    PROVE  Commanded'
<1> DEFINE old == hosts[e][k]
           new == hosts'[e][k]
           row == rows[e]
           p == provider[e]
<1>0. /\ TypeOK /\ old \in Host /\ new \in Host /\ row \in Row /\ p \in Provider
      /\ Handled(row, p, old) /\ old.tail \in Seq(Op)
  <2>1. Next
    BY DEF Next
  <2>2. TypeOK /\ old \in Host /\ new \in Host /\ row \in Row /\ p \in Provider
    BY <2>1, StepTypes
  <2>3. old.tail \in Seq(Op)
    BY <2>2 DEF Host, HostMemory
  <2> QED  BY <2>2, <2>3 DEF Commanded
<1>1. ASSUME UNCHANGED <<rows, provider>>, OthersKept(e, k), Handled(row, p, new)
      PROVE  Commanded'
  BY <1>1, HostCommanded
<1>2. ASSUME NEW host, SetHost(e, k, host) PROVE new = host /\ OthersKept(e, k)
  BY <1>0, <1>2, ReplacedHost
<1>4. CASE LaunchArrives(e, k)
  <2> DEFINE host == [NoHost EXCEPT !.pc = "booted", !.session = rows[e].args.resume]
  <2>1. SetHost(e, k, host) /\ UNCHANGED <<rows, provider>>
    BY <1>4 DEF LaunchArrives, SetHost
  <2>2. host.tail = <<>> /\ host.step = "idle" /\ host.pc = "booted"
    BY DEF NoHost
  <2> HIDE DEF host
  <2>3. Handled(row, p, host)
    BY <2>2, HandledEmpty
  <2> QED  BY <1>1, <1>2, <2>1, <2>3
<1>5. ASSUME NEW child, SetHost(e, k, [NoHost EXCEPT !.pc = "gone", !.child = child])
      PROVE  OthersKept(e, k) /\ Handled(row, p, new)
  <2> DEFINE host == [NoHost EXCEPT !.pc = "gone", !.child = child]
  <2>1. host.tail = <<>> /\ host.step = "idle" /\ host.pc = "gone" /\ SetHost(e, k, host)
    BY <1>5 DEF NoHost
  <2> HIDE DEF host
  <2> QED  BY <1>2, <2>1, HandledEmpty
<1>6. CASE HostClaimRefused(e, k) \/ HostCrashes(e, k)
  <2>1. /\ SetHost(e, k, [NoHost EXCEPT !.pc = "gone", !.child = old.child])
        /\ UNCHANGED <<rows, provider>>
    BY <1>6 DEF HostClaimRefused, HostCrashes, Dead
  <2> QED  BY <1>1, <1>5, <2>1
<1>7. CASE HostFailureExits(e, k)
  <2> DEFINE dead == Dead(old)
             child == IF dead.child = "alive" THEN "dead" ELSE dead.child
             host == [dead EXCEPT !.child = child]
  <2>1. SetHost(e, k, host) /\ UNCHANGED <<rows, provider>>
    BY <1>7 DEF HostFailureExits
  <2>2. dead.tail = <<>> /\ dead.step = "idle" /\ dead.pc = "gone" /\ dead \in Host
    BY <1>0, DeadType DEF Dead, NoHost
  <2> HIDE DEF dead, child
  <2>3. host.tail = <<>> /\ host.step = "idle" /\ host.pc = "gone"
    BY <2>2 DEF Host, HostMemory
  <2> HIDE DEF host
  <2>4. Handled(row, p, host)
    BY <2>3, HandledEmpty
  <2> QED  BY <1>1, <1>2, <2>1, <2>4
<1>8. CASE HostFails(e, k)
  <2> DEFINE host == [NoHost EXCEPT !.pc = "failing", !.child = old.child]
  <2>1. SetHost(e, k, host) /\ UNCHANGED <<rows, provider>>
    BY <1>8 DEF HostFails
  <2>2. host.tail = <<>> /\ host.step = "idle" /\ host.pc = "failing"
    BY DEF NoHost
  <2> HIDE DEF host
  <2>3. Handled(row, p, host)
    BY <2>2, HandledEmpty
  <2> QED  BY <1>1, <1>2, <2>1, <2>3
<1>9. CASE OrphanEnds(e, k)
  <2> DEFINE host == [old EXCEPT !.child = "dead"]
  <2>1. SetHost(e, k, host) /\ UNCHANGED <<rows, provider>>
    BY <1>9 DEF OrphanEnds
  <2>2. host.tail = old.tail /\ host.step = old.step /\ host.pc = old.pc
        /\ host.command = old.command /\ host.batch = old.batch
    BY <1>0 DEF Host, HostMemory
  <2> HIDE DEF host
  <2>3. Handled(row, p, host)
    BY <1>0, <2>2 DEF Handled, OneStep, Reports, Holds
  <2> QED  BY <1>1, <1>2, <2>1, <2>3
<1>10. ASSUME NEW base \in Host, NEW ops \in Seq(Op), SameWork(old, base), base.tail = old.tail,
              \A i \in 1..Len(ops) : ops[i].op \notin Control, SetHost(e, k, Push(base, ops))
       PROVE  OthersKept(e, k) /\ Handled(row, p, new)
  <2>1. new = Push(base, ops) /\ OthersKept(e, k)
    BY <1>2, <1>10
  <2>2. /\ new.tail = old.tail \o ops /\ new.pc = base.pc /\ new.step = base.step
        /\ new.command = base.command /\ new.batch = base.batch
    <3>1. /\ Push(base, ops).tail = base.tail \o ops /\ Push(base, ops).pc = base.pc
          /\ Push(base, ops).step = base.step /\ Push(base, ops).command = base.command
          /\ Push(base, ops).batch = base.batch
      BY PushFields, Zenon
    <3> QED  BY <1>10, <2>1, <3>1, Zenon
  <2>3. SameWork(old, new)
    BY <1>10, <2>2 DEF SameWork
  <2>4. Handled(row, p, new)
    BY <1>0, <1>10, <2>2, <2>3, HandledPush
  <2> QED  BY <2>1, <2>4
<1>11. CASE HostInvokes(e, k)
  <2> DEFINE base == [old EXCEPT !.pc = "serving", !.child = "alive"]
             ops == <<Plain("started")>>
  <2>1. old.pc = "claimed" /\ SetHost(e, k, Push(base, ops)) /\ UNCHANGED rows
    BY <1>11 DEF HostInvokes
  <2>2. base \in Host /\ base.tail = old.tail /\ SameWork(old, base)
    BY <1>0, <2>1 DEF Host, HostMemory, Phases, SameWork
  <2>3. ops \in Seq(Op) /\ \A i \in 1..Len(ops) : ops[i].op \notin Control
    BY PlainOps DEF EventKinds
  <2> HIDE DEF base, ops
  <2>4. OthersKept(e, k) /\ Handled(row, p, new)
    BY <1>10, <2>1, <2>2, <2>3
  <2>5. \A f \in Executions : provider'[f].writes = provider[f].writes /\ provider'[f].took = provider[f].took
    <3>1. provider' = [provider EXCEPT ![e] = [provider[e] EXCEPT !.invoked = provider[e].invoked + 1]]
      BY <1>11 DEF HostInvokes
    <3> QED  BY <1>0, <3>1 DEF TypeOK, Provider
  <2> QED  BY <2>1, <2>4, <2>5, HostCommanded
<1>12. CASE HostCannotInvoke(e, k)
  <2> DEFINE base == [old EXCEPT !.pc = "finishing"]
             finish == [op |-> "finish", lost |-> TRUE]
             ops == <<Plain("started"), Plain("error"), finish>>
  <2>1. SetHost(e, k, Push(base, ops)) /\ UNCHANGED <<rows, provider>>
    BY <1>12 DEF HostCannotInvoke
  <2>2. base \in Host /\ base.tail = old.tail /\ SameWork(old, base)
    BY <1>0 DEF Host, HostMemory, Phases, SameWork
  <2>3. finish \in Op /\ finish.op \notin Control
    BY FinishOps, Zenon
  <2> HIDE DEF finish
  <2>4. /\ Plain("started") \in Op /\ Plain("started").op \notin Control
        /\ Plain("error") \in Op /\ Plain("error").op \notin Control
    BY PlainOps DEF EventKinds
  <2>5. ops \in Seq(Op) /\ \A i \in 1..Len(ops) : ops[i].op \notin Control
    BY <2>3, <2>4
  <2> HIDE DEF base, ops
  <2>6. OthersKept(e, k) /\ Handled(row, p, new)
    BY <1>10, <2>1, <2>2, <2>5
  <2> QED  BY <1>1, <2>1, <2>6
<1>13. ASSUME NEW event \in ProviderEvents, ProviderEmits(e, k, event)
       PROVE  Commanded'
  <2> DEFINE ops == <<EventOp(event)>>
  <2>1. ops \in Seq(Op) /\ \A i \in 1..Len(ops) : ops[i].op \notin Control
    BY PlainOps, ProviderEventType
  <2>2. \A f \in Executions : provider'[f].writes = provider[f].writes /\ provider'[f].took = provider[f].took
    <3>1. provider' = [provider EXCEPT ![e] = [provider[e] EXCEPT !.emitted = provider[e].emitted + 1]]
      BY <1>13 DEF ProviderEmits
    <3> QED  BY <1>0, <3>1 DEF TypeOK, Provider
  <2>3. UNCHANGED rows
    BY <1>13 DEF ProviderEmits
  <2>4. CASE old.mismatch
    <3>1. SetHost(e, k, old)
      BY <1>13, <2>4 DEF ProviderEmits
    <3>2. OthersKept(e, k) /\ Handled(row, p, new)
      BY <1>0, <1>2, <3>1
    <3> QED  BY <2>2, <2>3, <3>2, HostCommanded
  <2>5. CASE ~old.mismatch
    <3>1. SetHost(e, k, Push(old, ops))
      BY <1>13, <2>5 DEF ProviderEmits
    <3>2. SameWork(old, old)
      BY DEF SameWork
    <3> HIDE DEF ops
    <3>3. OthersKept(e, k) /\ Handled(row, p, new)
      BY <1>0, <1>10, <2>1, <3>1, <3>2
    <3> QED  BY <2>2, <2>3, <3>3, HostCommanded
  <2> QED  BY <2>4, <2>5
<1>14. ASSUME NEW lost \in BOOLEAN, ProviderExits(e, k, lost)
       PROVE  Commanded'
  <2> DEFINE base == [old EXCEPT !.pc = "finishing", !.child = "dead"]
             exit == IF old.mismatch THEN <<>> ELSE <<Plain("process_exit")>>
             finish == [op |-> "finish", lost |-> lost]
             ops == exit \o <<finish>>
  <2>1. SetHost(e, k, Push(base, ops)) /\ UNCHANGED <<rows, provider>>
    BY <1>14 DEF ProviderExits
  <2>2. base \in Host /\ base.tail = old.tail /\ SameWork(old, base)
    BY <1>0 DEF Host, HostMemory, Phases, SameWork
  <2>3. finish \in Op /\ finish.op \notin Control
    BY FinishOps, Zenon
  <2> HIDE DEF finish
  <2>4. exit \in Seq(Op) /\ \A i \in 1..Len(exit) : exit[i].op \notin Control
    BY PlainOps DEF EventKinds
  <2> HIDE DEF exit
  <2>5. <<finish>> \in Seq(Op) /\ Len(<<finish>>) = 1 /\ <<finish>>[1] = finish
    BY <2>3
  <2>6. ops \in Seq(Op) /\ \A i \in 1..Len(ops) : ops[i].op \notin Control
    BY <2>3, <2>4, <2>5, JoinedAt
  <2> HIDE DEF base, ops
  <2>7. OthersKept(e, k) /\ Handled(row, p, new)
    BY <1>10, <2>1, <2>2, <2>6
  <2> QED  BY <1>1, <2>1, <2>7
<1>15. CASE HostDrains(e, k)
  <2> DEFINE base == [old EXCEPT !.step = "claiming"]
             ops == <<[op |-> "pending"]>>
  <2>1. /\ SetHost(e, k, Push(base, ops)) /\ UNCHANGED <<rows, provider>>
        /\ old.step = "idle" /\ old.batch = {}
    BY <1>15 DEF HostDrains
  <2>2. /\ base \in Host /\ base.tail = old.tail /\ base.pc = old.pc /\ base.step = "claiming"
        /\ base.batch = old.batch
    BY <1>0 DEF Host, HostMemory
  <2>3. new = Push(base, ops) /\ OthersKept(e, k)
    BY <1>2, <2>1
  <2> HIDE DEF base
  <2>4. /\ new.tail = old.tail \o ops /\ new.pc = old.pc /\ new.step = "claiming" /\ new.batch = {}
    <3>1. /\ Push(base, ops).tail = base.tail \o ops /\ Push(base, ops).pc = base.pc
          /\ Push(base, ops).step = base.step /\ Push(base, ops).batch = base.batch
      BY <2>2, PushFields, Zenon
    <3> QED  BY <2>1, <2>2, <2>3, <3>1, Zenon
  <2>5. Handled(row, p, new)
    BY <1>0, <2>1, <2>4, HandledDrain
  <2> QED  BY <1>1, <2>1, <2>3, <2>5
<1>16. ASSUME NEW result \in Receipts \ {"accepted"}, ProviderReplies(e, k, result)
       PROVE  Commanded'
  <2> DEFINE base == [old EXCEPT !.step = "settling"]
             ops == <<[op |-> "settle", command |-> old.command, result |-> result]>>
  <2>1. /\ SetHost(e, k, Push(base, ops)) /\ UNCHANGED <<rows, provider>> /\ old.step = "writing"
        /\ result = "delivered" => old.command \in p.took
        /\ result = "rejected" => old.command \notin p.took
    BY <1>16 DEF ProviderReplies
  <2>2. /\ base \in Host /\ base.tail = old.tail /\ base.pc = old.pc /\ base.step = "settling"
        /\ base.batch = old.batch
    BY <1>0 DEF Host, HostMemory
  <2>3. new = Push(base, ops) /\ OthersKept(e, k)
    BY <1>2, <2>1
  <2> HIDE DEF base
  <2>4. /\ new.tail = old.tail \o ops /\ new.pc = old.pc /\ new.step = "settling"
        /\ new.batch = old.batch
    <3>1. /\ Push(base, ops).tail = base.tail \o ops /\ Push(base, ops).pc = base.pc
          /\ Push(base, ops).step = base.step /\ Push(base, ops).batch = base.batch
      BY <2>2, PushFields, Zenon
    <3> QED  BY <2>2, <2>3, <3>1, Zenon
  <2>5. Handled(row, p, new)
    BY <1>0, <2>1, <2>4, HandledReply
  <2> QED  BY <1>1, <2>1, <2>3, <2>5
<1> QED  BY <1>4, <1>6, <1>7, <1>8, <1>9, <1>11, <1>12, <1>13, <1>14, <1>15, <1>16 DEF Works

(* claim: before it the row has no commands that could be claimed.          *)
LEMMA ClaimCommanded ==
    ASSUME Invariant, Commanded, NEW e \in Executions, NEW k \in Attempts, HostClaims(e, k)
    PROVE  Commanded'
<1> DEFINE old == hosts[e][k]
           new == hosts'[e][k]
<1>0. /\ TypeOK /\ old \in Host /\ rows[e] \in Row /\ rows'[e] \in Row /\ provider[e] \in Provider
      /\ Kept(rows[e]) /\ Told(rows[e], provider[e])
      /\ \A j \in Attempts : Handled(rows[e], provider[e], hosts[e][j])
  <2>1. Next
    BY DEF Next, HostNext
  <2> QED  BY <2>1, StepTypes DEF Commanded
<1>1. UNCHANGED provider /\ rows[e].state = "starting"
  BY DEF HostClaims, Claimable
<1>2. rows'[e] = ClaimRow(rows[e], k) /\ \A f \in Executions \ {e} : rows'[f] = rows[f]
  BY <1>0, ReplacedRow DEF HostClaims
<1>3. rows'[e].commands = rows[e].commands /\ rows'[e].state = "running"
  BY <1>0, <1>2, ClaimRowType
<1>4. new = [old EXCEPT !.pc = "claimed"] /\ OthersKept(e, k)
  BY <1>0, ReplacedHost DEF HostClaims
<1>5. Kept(rows'[e]) /\ Told(rows'[e], provider[e])
  BY <1>0, <1>1, <1>3, KeptAlive, ToldSame DEF Unstarted, Live
<1>6. \A c \in Commands : rows[e].commands[c].claimed = FALSE
  <2>1. Booked(rows[e]) = {}
    BY <1>0, <1>1 DEF Kept, NoneBeforeStart, Unstarted
  <2> QED  BY <1>0, <2>1, CommandFields DEF NoCommand
<1>7. ASSUME NEW j \in Attempts PROVE Handled(rows'[e], provider[e], hosts'[e][j])
  <2>1. Handled(rows'[e], provider[e], hosts[e][j])
    BY <1>0, <1>3, HandledElsewhere
  <2>2. CASE j # k
    BY <1>4, <2>1, <2>2 DEF OthersKept
  <2>3. CASE j = k
    <3>1. /\ new.tail = old.tail /\ new.step = old.step /\ new.command = old.command
          /\ new.batch = old.batch
      BY <1>0, <1>4 DEF Host, HostMemory
    <3>2. Holds(rows'[e], provider[e], new)
      BY <1>3, <1>6 DEF Holds
    <3>3. OneStep(new) /\ Reports(provider[e], new)
      BY <2>1, <2>3, <3>1 DEF Handled, OneStep, Reports
    <3> QED  BY <2>3, <3>2, <3>3 DEF Handled
  <2> QED  BY <2>2, <2>3
<1>8. \A f \in Executions \ {e} : \A j \in Attempts : hosts'[f][j] = hosts[f][j]
  BY <1>4 DEF OthersKept
<1> QED  BY <1>1, <1>2, <1>5, <1>7, <1>8, OneExecution

(* The last act of a host: admission, then its memory is gone.              *)
LEMMA CloseCommanded ==
    ASSUME Invariant, Commanded, NEW e \in Executions, NEW k \in Attempts, HostCloses(e, k)
    PROVE  Commanded'
<1> DEFINE new == hosts'[e][k]
<1>0. TypeOK /\ hosts[e][k] \in Host /\ Next
  <2>1. Next
    BY DEF Next, HostNext
  <2> QED  BY <2>1, StepTypes
<1>1. AdmitExecutions /\ UNCHANGED provider
  BY DEF HostCloses
<1>2. new = Dead(hosts[e][k]) /\ OthersKept(e, k)
  BY <1>0, ReplacedHost DEF HostCloses
<1>3. new.tail = <<>> /\ new.step = "idle" /\ new.pc = "gone"
  BY <1>2 DEF Dead, NoHost
<1> SUFFICES ASSUME NEW f \in Executions
             PROVE  /\ Kept(rows'[f]) /\ Told(rows'[f], provider[f])
                    /\ \A j \in Attempts : Handled(rows'[f], provider[f], hosts'[f][j])
  BY <1>1 DEF Commanded
<1>4. Kept(rows'[f]) /\ Told(rows'[f], provider[f]) /\ rows'[f].commands = rows[f].commands
  BY <1>0, <1>1, AdmissionCommanded
<1>5. ASSUME NEW j \in Attempts PROVE Handled(rows'[f], provider[f], hosts'[f][j])
  <2>1. CASE f = e /\ j = k
    BY <1>3, <2>1, HandledEmpty
  <2>2. CASE f # e \/ j # k
    <3>1. hosts'[f][j] = hosts[f][j] /\ Handled(rows[f], provider[f], hosts[f][j])
      BY <1>2, <2>2 DEF OthersKept, Commanded
    <3> QED  BY <1>4, <3>1, HandledElsewhere
  <2> QED  BY <2>1, <2>2
<1> QED  BY <1>4, <1>5

(* The first of the claimed commands is written.                            *)
LEMMA WriteCommanded ==
    ASSUME Invariant, Commanded, NEW e \in Executions, NEW k \in Attempts,
           NEW c \in Commands, NEW took \in BOOLEAN, HostWrites(e, k, c, took)
    PROVE  Commanded'
<1> DEFINE old == hosts[e][k]
           new == hosts'[e][k]
           row == rows[e]
           p == provider[e]
           q == provider'[e]
<1>0. /\ TypeOK /\ TypeOK' /\ old \in Host /\ new \in Host /\ row \in Row /\ p \in Provider /\ q \in Provider
      /\ Kept(row) /\ Told(row, p)
      /\ \A j \in Attempts : hosts[e][j] \in Host /\ Handled(row, p, hosts[e][j])
  <2>1. Next
    BY DEF Next, HostNext
  <2> QED  BY <2>1, StepTypes DEF Commanded
<1>1. /\ UNCHANGED rows /\ old.pc = "serving" /\ old.step = "idle" /\ c \in old.batch
      /\ \A d \in old.batch : row.commands[c].rowid <= row.commands[d].rowid
  BY DEF HostWrites, NextCommands
<1>2. new = [old EXCEPT !.step = "writing", !.command = c, !.batch = old.batch \ {c}] /\ OthersKept(e, k)
  BY <1>0, ReplacedHost DEF HostWrites
<1>3. /\ new.step = "writing" /\ new.command = c /\ new.tail = old.tail
      /\ new.batch = old.batch \ {c} /\ new.pc = old.pc
  BY <1>0, <1>2 DEF Host, HostMemory
<1>4. p.writes[c] = 0 /\ row.commands[c].claimed = TRUE
  BY <1>1 DEF Invariant, Delivery, CommandOwned
<1>5. Writes(p, q, c) /\ \A f \in Executions \ {e} : provider'[f] = provider[f]
  <2> DEFINE ws == [p.writes EXCEPT ![c] = p.writes[c] + 1]
             tk == IF took THEN p.took \cup {c} ELSE p.took
             r == [p EXCEPT !.writes = ws, !.took = tk]
  <2>1. provider' = [provider EXCEPT ![e] = r]
    BY DEF HostWrites
  <2>2. tk = p.took \/ tk = p.took \cup {c}
    OBVIOUS
  <2> HIDE DEF ws, tk
  <2>3. r.writes = ws /\ r.took = tk
    BY <1>0 DEF Provider
  <2> HIDE DEF r
  <2>4. q = r /\ \A f \in Executions \ {e} : provider'[f] = provider[f]
    BY <1>0, <2>1 DEF TypeOK
  <2> QED  BY <2>2, <2>3, <2>4 DEF Writes, ws
<1>6. ASSUME NEW d \in Booked(row), row.commands[d].rowid < row.commands[c].rowid
      PROVE  p.writes[d] > 0
  <2>1. d \in Commands /\ c \in Booked(row) /\ p.writes[d] \in Nat
        /\ row.commands[c].rowid \in Nat /\ row.commands[d].rowid \in Nat
    BY <1>0, <1>4, CommandFields DEF Booked, NoCommand, Provider
  <2>2. row.commands[d].claimed = TRUE
    BY <1>0, <1>4, <1>6, <2>1 DEF Kept, ClaimedInOrder
  <2>3. d \notin old.batch
    BY <1>1, <1>6, <2>1
  <2>4. p.writes[d] # 0
    BY <1>0, <1>1, <2>1, <2>2, <2>3 DEF Handled, Holds
  <2> QED  BY <2>1, <2>4
<1>7. Told(row, q)
  BY <1>0, <1>4, <1>5, <1>6, ToldByWrite
<1>8. Handled(row, q, new)
  BY <1>0, <1>1, <1>3, <1>4, <1>5, HandledWrite
<1>9. ASSUME NEW j \in Attempts, j # k PROVE Handled(row, q, hosts[e][j])
  <2>1. rows[e].pid = k
    BY <1>1 DEF Invariant, Ownership, HostOwns, Working
  <2>2. hosts[e][j].pc \notin Working /\ hosts[e][j].tail = <<>>
    BY <1>0, <1>9, <2>1, SoleClaimant DEF Invariant
  <2> QED  BY <1>0, <1>5, <2>2, HandledAside DEF Working
<1>10. ASSUME NEW j \in Attempts PROVE Handled(rows'[e], q, hosts'[e][j])
  BY <1>1, <1>2, <1>8, <1>9 DEF OthersKept
<1>11. \A f \in Executions \ {e} : \A j \in Attempts : hosts'[f][j] = hosts[f][j]
  BY <1>2 DEF OthersKept
<1> QED  BY <1>0, <1>1, <1>5, <1>7, <1>10, <1>11, OneExecution

(* The chain commits: events, claims, receipts and the finish.              *)
LEMMA PersistCommanded ==
    ASSUME Invariant, Commanded, NEW e \in Executions, NEW k \in Attempts, Persists(e, k)
    PROVE  Commanded'
<1> DEFINE old == hosts[e][k]
           new == hosts'[e][k]
           row == rows[e]
           p == provider[e]
           popped == Popped(old)
           head == Head(old.tail)
<1>0. /\ TypeOK /\ old \in Host /\ new \in Host /\ row \in Row /\ rows'[e] \in Row /\ p \in Provider
      /\ Kept(row) /\ Told(row, p)
      /\ \A j \in Attempts : hosts[e][j] \in Host /\ Handled(row, p, hosts[e][j])
  <2>1. Next
    BY DEF Next, HostNext
  <2> QED  BY <2>1, StepTypes DEF Commanded
<1>1. UNCHANGED provider /\ old.tail # <<>>
  BY DEF Persists, PersistDrops, PersistRefuses, PersistStores, PersistPending, PersistSettle,
         PersistFinish, AtHead
<1>2. /\ popped \in Host /\ head \in Op /\ popped.tail = Tail(old.tail) /\ popped.pc = old.pc
      /\ popped.step = old.step /\ popped.command = old.command /\ popped.batch = old.batch
      /\ old.tail \in Seq(Op) /\ head = old.tail[1] /\ 1 \in 1..Len(old.tail)
  <2>1. old.tail \in Seq(Op)
    BY <1>0 DEF Host, HostMemory
  <2>2. popped \in Host /\ head \in Op
    BY <1>0, <1>1, PoppedType
  <2>3. head = old.tail[1] /\ 1 \in 1..Len(old.tail)
    BY <1>1, <2>1
  <2> QED  BY <1>0, <2>1, <2>2, <2>3, PoppedFields
<1> HIDE DEF popped, head
<1>3. ASSUME OthersKept(e, k), \A f \in Executions \ {e} : rows'[f] = rows[f],
             Kept(rows'[e]), Told(rows'[e], p), Handled(rows'[e], p, new),
             \A j \in Attempts \ {k} : Handled(rows'[e], p, hosts[e][j])
      PROVE  Commanded'
  <2>1. ASSUME NEW j \in Attempts PROVE Handled(rows'[e], provider'[e], hosts'[e][j])
    BY <1>1, <1>3 DEF OthersKept
  <2>2. \A f \in Executions \ {e} : \A j \in Attempts : hosts'[f][j] = hosts[f][j]
    BY <1>3 DEF OthersKept
  <2> QED  BY <1>1, <1>3, <2>1, <2>2, OneExecution
<1>4. ASSUME OthersKept(e, k), \A f \in Executions \ {e} : rows'[f] = rows[f],
             Kept(rows'[e]), Told(rows'[e], p), Handled(row, p, new),
             \A c \in Commands : rows'[e].commands[c].claimed = row.commands[c].claimed
      PROVE  Commanded'
  <2>1. Handled(rows'[e], p, new)
    BY <1>4, HandledElsewhere
  <2>2. \A j \in Attempts \ {k} : Handled(rows'[e], p, hosts[e][j])
    BY <1>0, <1>4, HandledElsewhere
  <2> QED  BY <1>3, <1>4, <2>1, <2>2
<1>5. ASSUME rows'[e].commands = row.commands, rows'[e].state = row.state,
             OthersKept(e, k), \A f \in Executions \ {e} : rows'[f] = rows[f],
             new.tail = Tail(old.tail), new.pc = old.pc, new.step = old.step,
             new.command = old.command, new.batch = old.batch
      PROVE  Commanded'
  <2>1. Kept(rows'[e]) /\ Told(rows'[e], p)
    BY <1>0, <1>5, KeptAlive, ToldSame
  <2>2. Handled(row, p, new)
    BY <1>0, <1>1, <1>5, HandledPop
  <2> QED  BY <1>4, <1>5, <2>1, <2>2
<1>6. CASE PersistDrops(e, k)
  <2>1. new = popped /\ OthersKept(e, k) /\ UNCHANGED rows
    BY <1>0, <1>6, ReplacedHost DEF PersistDrops, popped
  <2> QED  BY <1>2, <1>5, <2>1
<1>7. CASE PersistRefuses(e, k)
  <2> DEFINE row1 == Append1(row, Note("error"))
             row2 == Append1(row1, Note("process_exit"))
  <2>1. UpdateRow(e, row2) /\ SetHost(e, k, [popped EXCEPT !.mismatch = TRUE])
    BY <1>7 DEF PersistRefuses, popped
  <2>2. new = [popped EXCEPT !.mismatch = TRUE] /\ OthersKept(e, k)
    BY <1>0, <2>1, ReplacedHost
  <2>3. rows'[e] = row2 /\ \A f \in Executions \ {e} : rows'[f] = rows[f]
    BY <1>0, <2>1, ReplacedRow
  <2>4. Note("error") \in Entry /\ Note("process_exit") \in Entry
    BY NoteType DEF EventKinds
  <2>5. row1 \in Row /\ row1.commands = row.commands /\ row1.state = row.state
    BY <1>0, <2>4, Append1Type
  <2> HIDE DEF row1
  <2>6. row2.commands = row.commands /\ row2.state = row.state
    BY <2>4, <2>5, Append1Type
  <2> HIDE DEF row2
  <2>7. /\ new.tail = popped.tail /\ new.pc = popped.pc /\ new.step = popped.step
        /\ new.command = popped.command /\ new.batch = popped.batch
    BY <1>2, <2>2 DEF Host, HostMemory
  <2>8. rows'[e].commands = row.commands /\ rows'[e].state = row.state
    BY <2>3, <2>6
  <2> QED  BY <1>2, <1>5, <2>2, <2>3, <2>7, <2>8
<1>8. CASE PersistStores(e, k)
  <2> DEFINE event == head.event
             binds == old.session = None /\ event.session # None
             bound == IF binds THEN BindRow(row, event.session) ELSE row
             entry == [kind |-> event.kind, request |-> event.request]
             stored == Append1(bound, entry)
             session == IF binds THEN event.session ELSE popped.session
  <2>1. UpdateRow(e, stored) /\ SetHost(e, k, [popped EXCEPT !.session = session])
    BY <1>8 DEF PersistStores, popped, head
  <2>2. event \in Emitted
    BY <1>2, <1>8, OpFields DEF PersistStores, AtHead, head
  <2>3. entry \in Entry /\ event.session \in Sessions \cup {None}
    BY <2>2 DEF Emitted, Entry
  <2>4. bound \in Row /\ bound.state = row.state /\ bound.commands = row.commands
    BY <1>0, <2>3, BindRowType
  <2> HIDE DEF bound, entry, session
  <2>5. stored.commands = row.commands /\ stored.state = row.state
    BY <2>3, <2>4, Append1Type
  <2> HIDE DEF stored
  <2>6. new = [popped EXCEPT !.session = session] /\ OthersKept(e, k)
    BY <1>0, <2>1, ReplacedHost
  <2>7. rows'[e] = stored /\ \A f \in Executions \ {e} : rows'[f] = rows[f]
    BY <1>0, <2>1, ReplacedRow
  <2>8. /\ new.tail = popped.tail /\ new.pc = popped.pc /\ new.step = popped.step
        /\ new.command = popped.command /\ new.batch = popped.batch
    BY <1>2, <2>6 DEF Host, HostMemory
  <2>9. rows'[e].commands = row.commands /\ rows'[e].state = row.state
    BY <2>5, <2>7
  <2> QED  BY <1>2, <1>5, <2>6, <2>7, <2>8, <2>9
<1>9. CASE PersistPending(e, k)
  <2> DEFINE taken == PendingCommands(row)
  <2>1. /\ UpdateRow(e, ClaimCommands(row))
        /\ SetHost(e, k, [popped EXCEPT !.step = "idle", !.batch = taken])
        /\ head.op = "pending"
    BY <1>9 DEF PersistPending, AtHead, popped, head
  <2>2. rows'[e] = ClaimCommands(row) /\ \A f \in Executions \ {e} : rows'[f] = rows[f]
    BY <1>0, <2>1, ReplacedRow
  <2> HIDE DEF taken
  <2>3. new = [popped EXCEPT !.step = "idle", !.batch = taken] /\ OthersKept(e, k)
    BY <1>0, <2>1, ReplacedHost
  <2>4. new.tail = Tail(old.tail) /\ new.step = "idle" /\ new.batch = taken /\ new.pc = old.pc
    BY <1>2, <2>3 DEF Host, HostMemory
  <2>5. Handled(rows'[e], p, new)
    BY <1>0, <1>1, <2>1, <2>2, <2>4, HandledPending DEF head, taken
  <2>6. Kept(rows'[e])
    BY <1>0, <2>2, KeptByPending
  <2>7. Told(rows'[e], p)
    <3>1. ASSUME NEW c \in Commands
          PROVE  /\ rows'[e].commands[c].rowid = row.commands[c].rowid
                 /\ rows'[e].commands[c].result = row.commands[c].result
      <4>1. /\ ClaimCommands(row).commands[c].rowid = row.commands[c].rowid
            /\ ClaimCommands(row).commands[c].result = row.commands[c].result
        BY <1>0, ClaimReceipts, Zenon
      <4> QED  BY <2>2, <4>1, Zenon
    <3> QED  BY <1>0, <3>1, ToldKept
  <2>8. \A j \in Attempts \ {k} : Handled(rows'[e], p, hosts[e][j])
    <3>1. rows[e].pid = k
      BY <1>1 DEF Invariant, Ownership, HostOwns
    <3>2. \A j \in Attempts \ {k} : hosts[e][j].pc \notin {"claimed", "serving"}
      BY <1>0, <3>1, SoleClaimant DEF Invariant, Working
    <3> QED  BY <1>0, <3>2, HandledUnclaimed
  <2> QED  BY <1>3, <2>2, <2>3, <2>5, <2>6, <2>7, <2>8
<1>10. CASE PersistSettle(e, k)
  <2> DEFINE settled == SettleRow(row, head.command, head.result)
  <2>1. /\ UpdateRow(e, settled)
        /\ SetHost(e, k, [popped EXCEPT !.step = "idle", !.command = None])
        /\ head.op = "settle"
    BY <1>10 DEF PersistSettle, AtHead, popped, head
  <2>2. head.command \in Commands /\ head.result \in Receipts
    BY <1>2, <2>1, OpFields
  <2>3. TrueOf(p, head.command, head.result)
    BY <1>0, <1>2, <2>1 DEF Handled, Reports
  <2>4. row.commands[head.command].claimed = TRUE
    BY <2>2, <2>3 DEF TrueOf, Invariant, Delivery, CommandOwned
  <2>5. settled \in Row /\ Kept(settled)
    BY <1>0, <2>2, <2>4, KeptBySettle, SettleRowType
  <2>6. /\ ReceiptsOnly(row, settled)
        /\ \A d \in Commands : settled.commands[d].result =
              IF d = head.command /\ row.commands[head.command].result = "accepted"
              THEN head.result ELSE row.commands[d].result
    BY <1>0, <2>2, SettleReceipts
  <2> HIDE DEF settled
  <2>7. Told(settled, p)
    BY <1>0, <2>3, <2>5, <2>6, ToldKept DEF ReceiptsOnly
  <2>8. rows'[e] = settled /\ \A f \in Executions \ {e} : rows'[f] = rows[f]
    BY <1>0, <2>1, ReplacedRow
  <2>9. new = [popped EXCEPT !.step = "idle", !.command = None] /\ OthersKept(e, k)
    BY <1>0, <2>1, ReplacedHost
  <2>10. new.tail = Tail(old.tail) /\ new.step = "idle" /\ new.batch = old.batch /\ new.pc = old.pc
    BY <1>2, <2>9 DEF Host, HostMemory
  <2>11. Handled(row, p, new)
    BY <1>0, <1>1, <2>1, <2>10, HandledPop DEF Control, head
  <2>12. \A c \in Commands : rows'[e].commands[c].claimed = row.commands[c].claimed
    BY <2>6, <2>8 DEF ReceiptsOnly
  <2> QED  BY <1>4, <2>5, <2>7, <2>8, <2>9, <2>11, <2>12
<1>11. CASE PersistFinish(e, k)
  <2> DEFINE ended == FinishRow(row, head.lost)
  <2>1. UpdateRow(e, ended) /\ SetHost(e, k, [popped EXCEPT !.pc = "closing"]) /\ head.op = "finish"
    BY <1>11 DEF PersistFinish, AtHead, popped, head
  <2>2. head.lost \in BOOLEAN
    BY <1>2, <2>1, OpFields
  <2>3. /\ Kept(ended) /\ Told(ended, p)
        /\ \A c \in Commands : ended.commands[c].claimed = row.commands[c].claimed
    BY <1>0, <2>2, FinishCommanded
  <2> HIDE DEF ended
  <2>4. rows'[e] = ended /\ \A f \in Executions \ {e} : rows'[f] = rows[f]
    BY <1>0, <2>1, ReplacedRow
  <2>5. new = [popped EXCEPT !.pc = "closing"] /\ OthersKept(e, k)
    BY <1>0, <2>1, ReplacedHost
  <2>6. /\ new.tail = Tail(old.tail) /\ new.step = old.step /\ new.command = old.command
        /\ new.batch = old.batch /\ new.pc = "closing"
    BY <1>2, <2>5 DEF Host, HostMemory
  <2>7. Handled(row, p, new)
    BY <1>0, <1>1, <2>6, HandledPop
  <2> QED  BY <1>4, <2>3, <2>4, <2>5, <2>7
<1> QED  BY <1>6, <1>7, <1>8, <1>9, <1>10, <1>11 DEF Persists

(* No step of the system loses track of a command.                          *)
LEMMA CommandedStep == Invariant /\ Commanded /\ [Next]_vars => Commanded'
<1> SUFFICES ASSUME Invariant, Commanded, [Next]_vars PROVE Commanded'
  OBVIOUS
<1>1. CASE WebNext
  BY <1>1, WebCommanded
<1>2. ASSUME NEW e \in Executions, LaunchIsLost(e) PROVE Commanded'
  BY <1>2 DEF LaunchIsLost, Commanded
<1>3. ASSUME NEW e \in Executions, NEW k \in Attempts, HostNext(e, k) PROVE Commanded'
  <2>1. CASE \/ LaunchArrives(e, k) \/ HostClaimRefused(e, k) \/ HostInvokes(e, k) \/ Works(e, k)
             \/ HostFails(e, k) \/ HostFailureExits(e, k) \/ HostCrashes(e, k) \/ OrphanEnds(e, k)
    BY <1>3, <2>1, HostWorkCommanded
  <2>2. CASE HostClaims(e, k)
    BY <2>2, ClaimCommanded
  <2>3. CASE HostCloses(e, k)
    BY <2>3, CloseCommanded
  <2>4. ASSUME NEW c \in Commands, NEW took \in BOOLEAN, HostWrites(e, k, c, took)
        PROVE  Commanded'
    BY <2>4, WriteCommanded
  <2>5. CASE Persists(e, k)
    BY <2>5, PersistCommanded
  <2> QED  BY <1>3, <2>1, <2>2, <2>3, <2>4, <2>5 DEF HostNext, Works
<1>4. CASE UNCHANGED vars
  BY <1>4 DEF vars, Commanded
<1> QED  BY <1>1, <1>2, <1>3, <1>4 DEF Next

(* An empty installation has no commands.                                   *)
LEMMA CommandedInit == Init => Commanded
<1> SUFFICES ASSUME Init, NEW e \in Executions
             PROVE  /\ Kept(rows[e]) /\ Told(rows[e], provider[e])
                    /\ \A k \in Attempts : Handled(rows[e], provider[e], hosts[e][k])
  BY DEF Commanded
<1>1. /\ rows[e] = NoRow /\ NoRow \in Row /\ \A c \in Commands : NoRow.commands[c] = NoCommand
  BY NoRowType DEF Init, NoRow
<1>2. Booked(NoRow) = {}
  BY <1>1 DEF Booked, NoCommand
<1>3. Kept(NoRow)
  <2>1. Cardinality(Booked(NoRow)) \in Nat
    BY <1>1, CountOfCommands
  <2>2. Numbered(NoRow)
    BY <1>1, <2>1 DEF Numbered, NoCommand
  <2> QED  BY <1>2, <2>2 DEF Kept, NoneBeforeStart, ClaimedInOrder, OpenWhileRunning, OneAnswer, Answers
<1>4. provider[e].took = {}
  BY DEF Init
<1>5. Told(NoRow, provider[e])
  BY <1>1, <1>2, <1>4 DEF Told, ReceiptsTrue, TookWritten, InOrder, NoCommand
<1>6. ASSUME NEW k \in Attempts PROVE Handled(rows[e], provider[e], hosts[e][k])
  <2>1. hosts[e][k] = NoHost
    BY DEF Init
  <2> QED  BY <2>1, HandledEmpty DEF NoHost
<1> QED  BY <1>1, <1>3, <1>5, <1>6

(* What is known of the commands holds for all sizes of the installation.   *)
THEOREM CommandedHolds == Spec => []Commanded
<1>1. Init => Commanded
  BY CommandedInit
<1>2. Invariant /\ Commanded /\ [Next]_vars => Commanded'
  BY CommandedStep
<1> QED  BY <1>1, <1>2, InvariantHolds, PTL DEF Spec

(* A receipt never claims more than happened, whatever is lost, late or     *)
(* restarted between the write and its record (drainExecutionCommands,      *)
(* settle, finish).                                                         *)
THEOREM ReceiptsAreTruthful == Spec => []ReceiptTruthful
<1>1. Commanded => ReceiptTruthful
  BY DEF Commanded, Told, ReceiptsTrue, TrueOf, ReceiptTruthful
<1> QED  BY <1>1, CommandedHolds, PTL

(* No provider takes two answers to one question: enqueue refuses a second  *)
(* answer while one stands, and a rejected one was never taken.             *)
THEOREM NeverAnsweredTwice == Spec => []AnsweredOnce
<1>1. Invariant /\ Commanded => AnsweredOnce
  <2> SUFFICES ASSUME Invariant, Commanded, NEW e \in Executions,
                      NEW c \in provider[e].took, NEW d \in provider[e].took,
                      rows[e].commands[c].body.kind = "answer",
                      rows[e].commands[d].body = rows[e].commands[c].body, c # d
               PROVE  FALSE
    BY DEF AnsweredOnce
  <2>1. c \in Commands /\ d \in Commands
    BY DEF Invariant, TypeOK, Provider
  <2>2. provider[e].writes[c] > 0 /\ provider[e].writes[d] > 0
    BY DEF Commanded, Told, TookWritten
  <2>3. c \in Booked(rows[e]) /\ d \in Booked(rows[e])
    BY <2>1, <2>2 DEF Invariant, Delivery, CommandOwned, Booked
  <2>4. rows[e].commands[c].result = "rejected" \/ rows[e].commands[d].result = "rejected"
    BY <2>1, <2>3 DEF Commanded, Kept, OneAnswer, Answers
  <2> QED  BY <2>1, <2>4 DEF Commanded, Told, ReceiptsTrue, TrueOf
<1> QED  BY <1>1, InvariantHolds, CommandedHolds, PTL

(* Commands reach the provider in the order enqueue accepted them, however  *)
(* many drains, hosts and clients take part.                                *)
THEOREM WritesInOrder == Spec => []WrittenInOrder
<1>1. Invariant /\ Commanded => WrittenInOrder
  <2> SUFFICES ASSUME Invariant, Commanded, NEW e \in Executions, NEW c \in Commands, NEW d \in Commands,
                      0 < rows[e].commands[c].rowid,
                      rows[e].commands[c].rowid < rows[e].commands[d].rowid,
                      provider[e].writes[d] > 0
               PROVE  provider[e].writes[c] > 0
    BY DEF WrittenInOrder
  <2>1. InOrder(rows[e], provider[e])
    BY DEF Commanded, Told
  <2>2. rows[e] \in Row /\ rows[e].commands[c].rowid \in Nat /\ rows[e].commands[d].rowid \in Nat
    BY CommandFields DEF Invariant, TypeOK
  <2>3. c \in Booked(rows[e]) /\ d \in Booked(rows[e])
    BY <2>2 DEF Booked
  <2> QED  BY <2>1, <2>3 DEF InOrder
<1> QED  BY <1>1, InvariantHolds, CommandedHolds, PTL
=============================================================================
