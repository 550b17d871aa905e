----------------------------- MODULE LoadProofs -----------------------------
(***************************************************************************)
(* Theorems about Load for any number of tasks and channels.               *)
(***************************************************************************)
EXTENDS Load, FiniteSetTheorems, TLAPS

\* The tasks between start and done.
Counted == {t \in Tasks : task[t] \in {"announcing", "working"}}

\* The count is a number that fits.
LEMMA CountType ==
    ASSUME CountIsExact
    PROVE  inflight \in 0..Cardinality(Tasks) /\ IsFiniteSet(Counted)
<1>1. Counted \subseteq Tasks
  BY DEF Counted
<1>2. IsFiniteSet(Counted) /\ Cardinality(Counted) <= Cardinality(Tasks)
  BY <1>1, LoadAssumption, FS_Subset
<1>3. Cardinality(Counted) \in Nat /\ Cardinality(Tasks) \in Nat
  BY <1>2, LoadAssumption, FS_CardinalityType
<1>4. inflight = Cardinality(Counted)
  BY DEF CountIsExact, Counted
<1> QED BY <1>2, <1>3, <1>4

\* A task that comes in is counted, one that leaves no longer is.
LEMMA CountMoves ==
    ASSUME CountIsExact, NEW t \in Tasks
    PROVE  /\ (t \notin Counted /\ Counted' = Counted \cup {t}
                 /\ inflight' = inflight + 1) => CountIsExact'
           /\ (t \in Counted /\ Counted' = Counted \ {t} /\ inflight' = Lower)
                 => CountIsExact'
           /\ (Counted' = Counted /\ inflight' = inflight) => CountIsExact'
<1>1. IsFiniteSet(Counted) /\ inflight = Cardinality(Counted) /\ inflight \in Nat
  BY CountType DEF CountIsExact, Counted
<1>2. CountIsExact' <=> inflight' = Cardinality(Counted')
  BY DEF CountIsExact, Counted
<1>3. ASSUME t \notin Counted, Counted' = Counted \cup {t},
             inflight' = inflight + 1
      PROVE  CountIsExact'
  <2>1. Cardinality(Counted \cup {t}) = Cardinality(Counted) + 1
    BY <1>1, <1>3, FS_AddElement
  <2> QED BY <1>1, <1>2, <1>3, <2>1
<1>4. ASSUME t \in Counted, Counted' = Counted \ {t}, inflight' = Lower
      PROVE  CountIsExact'
  <2>1. Cardinality(Counted \ {t}) = Cardinality(Counted) - 1
    BY <1>1, <1>4, FS_RemoveElement
  <2>2. Cardinality(Counted) # 0
    BY <1>1, <1>4, FS_EmptySet
  <2> QED BY <1>1, <1>2, <1>4, <2>1, <2>2 DEF Lower
<1> QED BY <1>1, <1>2, <1>3, <1>4

\* A step that moves no task in or out leaves the count alone.
LEMMA CountStays ==
    ASSUME NEW t \in Tasks, CountIsExact, UNCHANGED inflight,
           \A u \in Tasks : task'[u] \in {"announcing", "working"}
                               <=> task[u] \in {"announcing", "working"}
    PROVE  CountIsExact'
<1>1. Counted' = Counted
  BY DEF Counted
<1> QED BY <1>1, CountMoves

\* Every step keeps the count exact.
LEMMA CountStep ==
    ASSUME TypeOK, CountIsExact, [Next]_vars
    PROVE  CountIsExact'
<1> USE DEF TypeOK, Broadcasting
<1>1. ASSUME UNCHANGED <<inflight, task>> PROVE CountIsExact'
  BY <1>1 DEF CountIsExact
<1>2. ASSUME NEW t \in Tasks, Create(t) PROVE CountIsExact'
  BY <1>2, CountStays DEF Create
<1>3. ASSUME NEW t \in Tasks, start(t) PROVE CountIsExact'
  <2>1. t \notin Counted /\ Counted' = Counted \cup {t}
    BY <1>3 DEF start, Broadcast, Counted
  <2> QED BY <1>3, <2>1, CountMoves DEF start, Broadcast
<1>4. ASSUME NEW t \in Tasks, Announced(t) PROVE CountIsExact'
  BY <1>4, CountStays DEF Announced
<1>5. ASSUME NEW t \in Tasks, task[t] \in {"announcing", "working"},
             Broadcast(t, "retreating", Lower)
      PROVE  CountIsExact'
  <2>1. t \in Counted /\ Counted' = Counted \ {t}
    BY <1>5 DEF Broadcast, Counted
  <2> QED BY <1>5, <2>1, CountMoves DEF Broadcast
<1>6. ASSUME NEW t \in Tasks, Retreated(t) PROVE CountIsExact'
  BY <1>6, CountStays DEF Retreated
<1>7. ASSUME NEW t \in Tasks, Cancelled(t) PROVE CountIsExact'
  BY <1>7, <1>5, CountStays DEF Cancelled
<1>8. ASSUME NEW t \in Tasks, Task(t) PROVE CountIsExact'
  BY <1>1, <1>2, <1>3, <1>4, <1>5, <1>6, <1>7, <1>8 DEF Task, Send, done
<1> QED
  BY <1>1, <1>8 DEF Next, Attaches, Detaches, Dies, Heartbeat, vars

\* Every variable keeps its type.
LEMMA TypeStep ==
    ASSUME TypeOK, CountIsExact, CountIsExact', [Next]_vars
    PROVE  TypeOK'
<1>1. inflight \in 0..Cardinality(Tasks) /\ inflight' \in 0..Cardinality(Tasks)
  <2>1. inflight \in 0..Cardinality(Tasks)
    BY CountType
  <2>2. Counted' \subseteq Tasks /\ inflight' = Cardinality(Counted')
    BY DEF Counted, CountIsExact
  <2>3. IsFiniteSet(Counted') /\ Cardinality(Counted') <= Cardinality(Tasks)
    BY <2>2, LoadAssumption, FS_Subset
  <2>4. Cardinality(Counted') \in Nat /\ Cardinality(Tasks) \in Nat
    BY <2>3, LoadAssumption, FS_CardinalityType
  <2> QED BY <2>1, <2>2, <2>3, <2>4
<1> USE DEF TypeOK, Broadcasting
<1>2. ASSUME NEW c \in Channels,
             Attaches(c) \/ Detaches(c) \/ Dies(c) \/ Heartbeat(c)
      PROVE  TypeOK'
  BY <1>1, <1>2 DEF Attaches, Detaches, Dies, Heartbeat
<1>3. ASSUME NEW t \in Tasks, NEW c \in Channels, Send(t, c) PROVE TypeOK'
  BY <1>1, <1>3 DEF Send
<1>4. ASSUME NEW t \in Tasks, NEW as \in Broadcasting, NEW count,
             Broadcast(t, as, count)
      PROVE  TypeOK'
  BY <1>1, <1>4 DEF Broadcast
<1>5. ASSUME NEW t \in Tasks, Create(t) \/ Announced(t) \/ Retreated(t)
      PROVE  TypeOK'
  BY <1>1, <1>5 DEF Create, Announced, Retreated
<1>6. ASSUME NEW t \in Tasks, Cancelled(t) PROVE TypeOK'
  BY <1>1, <1>4, <1>6 DEF Cancelled
<1>7. ASSUME UNCHANGED vars PROVE TypeOK'
  BY <1>7 DEF vars
<1> QED
  BY <1>2, <1>3, <1>4, <1>5, <1>6, <1>7 DEF Next, Task, start, done

\* The type and the count hold at first.
LEMMA CountInit == Init => TypeOK /\ CountIsExact
<1> SUFFICES ASSUME Init PROVE TypeOK /\ CountIsExact
  OBVIOUS
<1>1. Counted = {}
  BY DEF Init, Counted
<1>2. CountIsExact
  BY <1>1, FS_EmptySet DEF Init, CountIsExact, Counted
<1>3. inflight \in 0..Cardinality(Tasks)
  BY <1>2, CountType
<1> QED BY <1>2, <1>3 DEF Init, TypeOK

\* Type correctness; the count never exceeds the tasks there are.
THEOREM TypeCorrect == Spec => []TypeOK
<1>1. TypeOK /\ CountIsExact /\ [Next]_vars => (TypeOK /\ CountIsExact)'
  BY CountStep, TypeStep
<1> QED BY <1>1, CountInit, PTL DEF Spec

\* However tasks end, their slots come back.
THEOREM SlotsComeBack == Spec => []CountIsExact
<1>1. TypeOK /\ CountIsExact /\ [Next]_vars => (TypeOK /\ CountIsExact)'
  BY CountStep, TypeStep
<1> QED BY <1>1, CountInit, PTL DEF Spec

-----------------------------------------------------------------------------
(* What the legs were told.                                                *)

\* Until its broadcasts are over a channel with an old count is still on the
\* list of one.
ToldOrListed ==
    cut \/ \A c \in channels \ dead :
              \/ told[c] \in {None, inflight}
              \/ \E t \in Tasks : task[t] \in Broadcasting /\ c \in todo[t]

\* Every step keeps that.
LEMMA ToldStep ==
    ASSUME TypeOK, ToldOrListed, [Next]_vars
    PROVE  ToldOrListed'
<1> USE DEF TypeOK, ToldOrListed, Broadcasting
<1>1. ASSUME NEW c \in Channels,
             Attaches(c) \/ Detaches(c) \/ Dies(c) \/ Heartbeat(c)
      PROVE  ToldOrListed'
  BY <1>1 DEF Attaches, Detaches, Dies, Heartbeat
<1>2. ASSUME NEW t \in Tasks, NEW c \in Channels, Send(t, c)
      PROVE  ToldOrListed'
  BY <1>2 DEF Send
<1>3. ASSUME NEW t \in Tasks, NEW as \in Broadcasting, NEW count,
             Broadcast(t, as, count)
      PROVE  ToldOrListed'
  BY <1>3 DEF Broadcast
<1>4. ASSUME NEW t \in Tasks, Create(t) \/ Announced(t) \/ Retreated(t)
      PROVE  ToldOrListed'
  BY <1>4 DEF Create, Announced, Retreated
<1>5. ASSUME NEW t \in Tasks, Cancelled(t) PROVE ToldOrListed'
  BY <1>3, <1>5 DEF Cancelled
<1>6. ASSUME UNCHANGED vars PROVE ToldOrListed'
  BY <1>6 DEF vars
<1> QED
  BY <1>1, <1>2, <1>3, <1>4, <1>5, <1>6 DEF Next, Task, start, done

\* Whatever the order of the broadcasts, when they are over the last thing
\* every leg was told is the present count.
THEOREM ReportsCurrent == Spec => []ReportsAreCurrent
<1>1. Init => ToldOrListed
  BY DEF Init, ToldOrListed
<1>2. TypeOK /\ ToldOrListed /\ [Next]_vars => ToldOrListed'
  BY ToldStep
<1>3. ToldOrListed => ReportsAreCurrent
  BY DEF ToldOrListed, ReportsAreCurrent, Settled
<1> QED BY <1>1, <1>2, <1>3, TypeCorrect, PTL DEF Spec

=============================================================================
