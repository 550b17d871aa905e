--------------------------- MODULE WatchdogProofs ---------------------------
(***************************************************************************)
(* Theorems about Watchdog for every poll, interval and limit.             *)
(***************************************************************************)
EXTENDS Watchdog, TLAPS

\* The limit is a whole number of time units.
LEMMA LimitType == StallLimit \in Nat
BY WatchdogAssumption DEF StallLimit

\* Zero is a time.
LEMMA ZeroType == 0 \in Clock /\ 0 \in 0..WatchdogInterval /\ 0 \in 0..MaxMissed
<1>1. Cap \in Nat /\ WatchdogInterval \in Nat /\ MaxMissed \in Nat
  BY WatchdogAssumption
<1> QED BY <1>1 DEF Clock

\* Clocks stay within Cap and never run ahead of time.
LEMMA LaterType ==
    ASSUME NEW t \in Clock
    PROVE  Later(t) \in Clock /\ t <= Later(t) /\ Later(t) <= t + 1
BY WatchdogAssumption DEF Later, Clock

\* Clocks keep their order, the saturated ones included.
LEMMA LaterMonotonic ==
    ASSUME NEW s \in Clock, NEW t \in Clock, s <= t
    PROVE  Later(s) <= Later(t)
BY WatchdogAssumption DEF Later, Clock

\* The larger of two clock values.
LEMMA LargerType ==
    ASSUME NEW s \in Clock, NEW t \in Clock
    PROVE  Larger(s, t) \in Clock /\ s <= Larger(s, t) /\ t <= Larger(s, t)
BY WatchdogAssumption DEF Larger, Clock

\* Every variable keeps its type.
LEMMA TypeStep == TypeOK /\ [Next]_vars => TypeOK'
<1> USE WatchdogAssumption
<1> SUFFICES ASSUME TypeOK, [Next]_vars PROVE TypeOK'
  OBVIOUS
<1> USE DEF TypeOK, history
<1>1. CASE Pass
  <2>1. elapsed' \in Clock
    BY <1>1, LaterType DEF Pass
  <2>2. age' \in Clock \cup {None}
    BY <1>1, LaterType DEF Pass
  <2>3. checked' \in 0..WatchdogInterval
    BY <1>1 DEF Pass
  <2> QED BY <1>1, <2>1, <2>2, <2>3 DEF Pass
<1>2. CASE BeginTick BY <1>2, ZeroType DEF BeginTick
<1>3. CASE Wedge BY <1>3 DEF Wedge
<1>4. CASE EndTick
  <2>1. CASE Stamps BY <1>4, <2>1, ZeroType DEF EndTick, Stamps
  <2>2. CASE FailsToStamp
    <3>1. missed' \in 0..MaxMissed
      BY <2>2 DEF FailsToStamp
    <3>2. longest' \in Clock
      BY <2>2, LargerType DEF FailsToStamp
    <3> QED BY <1>4, <2>2, <3>1, <3>2, ZeroType DEF EndTick, FailsToStamp
  <2> QED BY <1>4, <2>1, <2>2 DEF EndTick
<1>5. CASE WatchdogLooks BY <1>5, ZeroType DEF WatchdogLooks
<1>6. CASE WatchdogExits BY <1>6 DEF WatchdogExits
<1>7. CASE Stop BY <1>7 DEF Stop
<1>8. CASE Boot BY <1>8, ZeroType DEF Boot
<1>9. CASE UNCHANGED vars BY <1>9 DEF vars
<1> QED
  BY <1>1, <1>2, <1>3, <1>4, <1>5, <1>6, <1>7, <1>8, <1>9 DEF Next

\* Initial states are well typed.
LEMMA TypeInit == Init => TypeOK
BY ZeroType, WatchdogAssumption DEF Init, TypeOK

\* Type correctness, of a loop that is stopped and started at any point.
THEOREM TypeCorrect == Spec => []TypeOK
<1> QED BY TypeInit, TypeStep, PTL DEF Spec

-----------------------------------------------------------------------------
(* A stall is seen in time.  The heartbeat is stamped with the tick's      *)
(* start, so the age of one this process has written is at least the time  *)
(* the tick has run.                                                       *)

BoundInv ==
    /\ TypeOK
    /\ (loop \in {"ticking", "wedged"} /\ age # None) => age >= elapsed
    /\ loop = "ticking" => elapsed <= MaxTick
    /\ StallIsBounded

\* What a boot finds cannot be younger than the tick it starts.
LEMMA BoundInit == Init => BoundInv
BY TypeInit, WatchdogAssumption DEF Init, BoundInv, StallIsBounded, Clock

\* With ticks no longer than the limit the bound is inductive, whichever
\* heartbeats fail to be written.
LEMMA BoundStep ==
    ASSUME MaxTick <= StallLimit
    PROVE  BoundInv /\ [Next]_vars => BoundInv'
<1> USE WatchdogAssumption, LimitType
<1> SUFFICES ASSUME BoundInv, [Next]_vars PROVE BoundInv'
  OBVIOUS
<1>0. TypeOK /\ TypeOK'
  BY TypeStep DEF BoundInv
<1>t. /\ elapsed \in Clock /\ checked \in 0..WatchdogInterval
      /\ age \in Clock \cup {None} /\ stamped \in BOOLEAN /\ looked \in BOOLEAN
  BY <1>0 DEF TypeOK
<1> SUFFICES /\ (loop' \in {"ticking", "wedged"} /\ age' # None) => age' >= elapsed'
             /\ loop' = "ticking" => elapsed' <= MaxTick
             /\ StallIsBounded'
  BY <1>0 DEF BoundInv
<1> USE DEF BoundInv, StallIsBounded, history
<1>1. CASE Pass
  <2>1. (loop' \in {"ticking", "wedged"} /\ age' # None) => age' >= elapsed'
    BY <1>1, <1>t, LaterMonotonic DEF Pass
  <2>2. loop' = "ticking" => elapsed' <= MaxTick
    BY <1>1, <1>t, LaterType DEF Pass, Clock
  <2>3. StallIsBounded'
    <3> SUFFICES ASSUME loop # "down", age # None
                 PROVE  age' <= StallLimit + checked' \/ (~looked' /\ ~stamped')
      BY <1>1 DEF Pass
    <3>1. /\ age' <= age + 1 /\ checked' = checked + 1 /\ age' \in Clock
          /\ looked' = looked /\ stamped' = stamped
      BY <1>1, <1>t, LaterType DEF Pass
    <3> QED BY <3>1, <1>t DEF Clock
  <2> QED BY <2>1, <2>2, <2>3
<1>2. CASE BeginTick BY <1>2, <1>t DEF BeginTick, Clock
<1>3. CASE Wedge BY <1>3 DEF Wedge
<1>4. CASE EndTick
  <2>1. checked' = checked /\ looked' = looked /\ loop' = "sleeping" /\ loop = "ticking"
    BY <1>4 DEF EndTick
  <2>2. CASE Stamps
    <3>1. age' = elapsed /\ elapsed <= StallLimit + checked
      BY <2>1, <2>2, <1>t DEF Stamps, Clock
    <3> QED BY <2>1, <3>1
  <2>3. CASE FailsToStamp BY <2>1, <2>3 DEF FailsToStamp
  <2> QED BY <1>4, <2>2, <2>3 DEF EndTick
<1>5. CASE WatchdogLooks BY <1>5, <1>t DEF WatchdogLooks, Stalled, Clock
<1>6. CASE WatchdogExits BY <1>6 DEF WatchdogExits
<1>7. CASE Stop BY <1>7 DEF Stop
<1>8. CASE Boot BY <1>8, <1>t DEF Boot, Clock
<1>9. CASE UNCHANGED vars BY <1>9 DEF vars
<1> QED
  BY <1>1, <1>2, <1>3, <1>4, <1>5, <1>6, <1>7, <1>8, <1>9 DEF Next

\* While the process is up no heartbeat is older than the limit by more than
\* one look of the watchdog, one found at boot excepted until the first look.
THEOREM StallBounded ==
    ASSUME MaxTick <= StallLimit
    PROVE  Spec => []StallIsBounded
<1>1. BoundInv => StallIsBounded
  BY DEF BoundInv
<1> QED BY BoundInit, BoundStep, <1>1, PTL DEF Spec

\* The healthcheck never shows as healthy a loop whose tick has run past the
\* limit.
THEOREM WedgeVisible ==
    ASSUME MaxTick <= StallLimit
    PROVE  Spec => []WedgeIsVisible
<1>1. BoundInv => WedgeIsVisible
  BY LimitType DEF BoundInv, WedgeIsVisible, Healthy, TypeOK, Clock
<1> QED BY BoundInit, BoundStep, <1>1, PTL DEF Spec

-----------------------------------------------------------------------------
(* No false alarm.  The age of a heartbeat this process has stamped is     *)
(* made of the tick that was stamped, the ticks since, a pause after each  *)
(* and what has gone by of the tick or pause under way.                    *)

Pause == Poll + MaxPost

\* k ticks and the pauses after j of them.
Span(k, j) == k * longest + j * Pause

AgeIsAccounted ==
    /\ loop = "sleeping" => elapsed <= Pause
    /\ (stamped /\ age # None) =>
          /\ loop = "ticking" => age <= Span(missed + 1, missed + 1) + elapsed
          /\ loop = "sleeping" => age <= Span(missed + 1, missed) + elapsed

\* Products of naturals are naturals.
LEMMA TimesType ==
    ASSUME NEW k \in Nat, NEW s \in Nat
    PROVE  k * s \in Nat
OBVIOUS

\* Products of naturals keep the order.
LEMMA TimesMonotonic ==
    ASSUME NEW k \in Nat, NEW s \in Nat, NEW t \in Nat, s <= t
    PROVE  k * s <= k * t
OBVIOUS

\* One more of the same.
LEMMA TimesNext ==
    ASSUME NEW k \in Nat, NEW s \in Nat
    PROVE  (k + 1) * s = k * s + s
OBVIOUS

\* Spans are numbers, and grow with the longest tick.
LEMMA SpanMonotonic ==
    ASSUME NEW k \in Nat, NEW j \in Nat, TypeOK, longest' \in Nat,
           longest <= longest'
    PROVE  Span(k, j) \in Nat /\ Span(k, j)' \in Nat /\ Span(k, j) <= Span(k, j)'
<1>1. longest \in Nat /\ Pause \in Nat
  BY WatchdogAssumption DEF TypeOK, Clock, Pause
<1>2. k * longest <= k * longest'
  BY <1>1, TimesMonotonic
<1>4. k * longest \in Nat /\ k * longest' \in Nat
  BY <1>1, TimesType
<1>3. j * Pause \in Nat
  BY <1>1, TimesType
<1> QED BY <1>2, <1>3, <1>4 DEF Span

\* A pause, and a tick, more.
LEMMA SpanNext ==
    ASSUME NEW k \in Nat, NEW j \in Nat, TypeOK
    PROVE  /\ Span(k, j) \in Nat
           /\ Span(k, j + 1) = Span(k, j) + Pause
           /\ Span(k + 1, j) = Span(k, j) + longest
<1>1. longest \in Nat /\ Pause \in Nat
  BY WatchdogAssumption DEF TypeOK, Clock, Pause
<1>2. k * longest \in Nat /\ j * Pause \in Nat
  BY <1>1, TimesType
<1>3. (j + 1) * Pause = j * Pause + Pause /\ (k + 1) * longest = k * longest + longest
  BY <1>1, TimesNext
<1> QED BY <1>1, <1>2, <1>3 DEF Span

\* Time passes: the age grows by no more than what is under way.
LEMMA PassAccounts == TypeOK /\ AgeIsAccounted /\ Pass => AgeIsAccounted'
<1> USE WatchdogAssumption
<1> SUFFICES ASSUME TypeOK, AgeIsAccounted, Pass PROVE AgeIsAccounted'
  OBVIOUS
<1>t. elapsed \in Clock /\ age \in Clock \cup {None} /\ missed \in Nat /\ longest \in Nat
  BY DEF TypeOK, Clock
<1>1. loop' = loop /\ stamped' = stamped /\ missed' = missed /\ longest' = longest
  BY DEF Pass, history
<1>2. /\ elapsed' \in Clock
      /\ elapsed' = elapsed + 1 \/ elapsed' = Cap
  BY <1>t, LaterType DEF Pass, Later
<1>3. loop = "sleeping" => elapsed' <= Pause
  BY <1>t DEF Pass, Later, Pause, Clock
<1>4. age' # None => age # None /\ age' \in Clock /\ age' <= age + 1
  BY <1>t, LaterType DEF Pass
<1>5. Span(missed + 1, missed + 1) \in Nat /\ Span(missed + 1, missed) \in Nat
  BY <1>t, missed + 1 \in Nat, SpanNext
<1>6. \A k, j : Span(k, j)' = Span(k, j)
  BY <1>1 DEF Span
<1>7. ASSUME stamped, age' # None, loop = "ticking"
      PROVE  age' <= Span(missed + 1, missed + 1) + elapsed'
  BY <1>7, <1>t, <1>2, <1>4, <1>5 DEF AgeIsAccounted, Clock
<1>8. ASSUME stamped, age' # None, loop = "sleeping"
      PROVE  age' <= Span(missed + 1, missed) + elapsed'
  BY <1>8, <1>t, <1>2, <1>4, <1>5 DEF AgeIsAccounted, Clock
<1> QED BY <1>1, <1>3, <1>6, <1>7, <1>8 DEF AgeIsAccounted

\* A pause is over: it is counted, and the next tick is under way.
LEMMA BeginAccounts == TypeOK /\ AgeIsAccounted /\ BeginTick => AgeIsAccounted'
<1> SUFFICES ASSUME TypeOK, AgeIsAccounted, BeginTick PROVE AgeIsAccounted'
  OBVIOUS
<1>t. elapsed \in Int /\ age \in Clock \cup {None} /\ missed \in Nat /\ Pause \in Int
  BY WatchdogAssumption DEF TypeOK, Clock, Pause
<1>1. /\ loop = "sleeping" /\ loop' = "ticking" /\ elapsed' = 0 /\ age' = age
      /\ stamped' = stamped /\ missed' = missed /\ longest' = longest
  BY DEF BeginTick, history
<1>2. /\ Span(missed + 1, missed) \in Nat
      /\ Span(missed + 1, missed + 1) = Span(missed + 1, missed) + Pause
  BY <1>t, SpanNext
<1>3. Span(missed + 1, missed + 1)' = Span(missed + 1, missed + 1)
  BY <1>1 DEF Span
<1>4. (stamped /\ age # None) => age <= Span(missed + 1, missed + 1)
  BY <1>1, <1>2, <1>t DEF AgeIsAccounted, Clock
<1> QED BY <1>1, <1>2, <1>3, <1>4, <1>t DEF AgeIsAccounted, Clock

\* A tick is over: it is what was stamped, or one more that was not.
LEMMA EndAccounts == TypeOK /\ AgeIsAccounted /\ EndTick => AgeIsAccounted'
<1> USE WatchdogAssumption
<1> SUFFICES ASSUME TypeOK, AgeIsAccounted, EndTick PROVE AgeIsAccounted'
  OBVIOUS
<1>t. /\ elapsed \in Clock /\ age \in Clock \cup {None} /\ missed \in Nat
      /\ longest \in Clock /\ Pause \in Nat
  BY DEF TypeOK, Clock, Pause
<1>0. loop = "ticking" /\ loop' = "sleeping" /\ elapsed' = 0
  BY DEF EndTick
<1>1. TypeOK'
  BY TypeStep DEF Next
<1> SUFFICES ASSUME stamped', age' # None
             PROVE  age' <= Span(missed + 1, missed)' + elapsed'
  BY <1>0, <1>t DEF AgeIsAccounted
<1>2. CASE Stamps
  <2>1. age' = elapsed /\ missed' = 0 /\ longest' = elapsed
    BY <1>2 DEF Stamps
  <2>2. Span(missed + 1, missed)' = elapsed
    BY <2>1, <1>t DEF Span, Clock
  <2> QED BY <2>1, <2>2, <1>0, <1>t DEF Clock
<1>3. CASE FailsToStamp
  <2>1. /\ age' = age /\ missed' = missed + 1 /\ stamped' = stamped
        /\ longest' = Larger(longest, elapsed)
    BY <1>3 DEF FailsToStamp
  <2>2. longest' \in Nat /\ longest <= longest' /\ elapsed <= longest'
    BY <2>1, <1>t, LargerType DEF Clock
  <2>3. age <= Span(missed + 1, missed + 1) + elapsed
    BY <2>1, <1>0 DEF AgeIsAccounted
  <2>4. DEFINE L == longest'
               k == missed + 1
  <2>5. k \in Nat /\ L \in Nat /\ longest \in Nat /\ longest <= L
    BY <1>t, <2>2 DEF Clock
  <2> HIDE DEF k, L
  <2>6. /\ k * longest \in Nat /\ k * longest <= k * L
        /\ k * L \in Nat /\ (k + 1) * L = k * L + L
    BY <2>5, TimesType, TimesMonotonic, TimesNext
  <2>7. k * Pause \in Nat
    BY <2>5, <1>t, TimesType
  <2>8. Span(k, k) = k * longest + k * Pause
    BY DEF Span
  <2>9. Span(missed + 1, missed)' = (k + 1) * L + k * Pause
    BY <2>1, <1>t DEF Span, k, L
  <2>10. age <= Span(k, k) + elapsed
    BY <2>3 DEF k
  <2>11. elapsed <= L
    BY <2>2 DEF L
  <2> QED BY <2>1, <2>10, <2>11, <2>5, <2>6, <2>7, <2>8, <2>9, <1>0, <1>t DEF Clock
<1> QED BY <1>2, <1>3 DEF EndTick

\* Every step keeps the account.
LEMMA AccountStep == TypeOK /\ AgeIsAccounted /\ [Next]_vars => AgeIsAccounted'
<1> SUFFICES ASSUME TypeOK, AgeIsAccounted, [Next]_vars PROVE AgeIsAccounted'
  OBVIOUS
<1>1. CASE Wedge BY <1>1 DEF Wedge, AgeIsAccounted
<1>2. CASE WatchdogLooks BY <1>2 DEF WatchdogLooks, AgeIsAccounted, Span
<1>3. CASE WatchdogExits BY <1>3 DEF WatchdogExits, AgeIsAccounted
<1>4. CASE Stop BY <1>4 DEF Stop, AgeIsAccounted
<1>5. CASE Boot BY <1>5 DEF Boot, AgeIsAccounted
<1>6. CASE UNCHANGED vars BY <1>6 DEF vars, history, AgeIsAccounted, Span
<1> QED
  BY <1>1, <1>2, <1>3, <1>4, <1>5, <1>6, PassAccounts, BeginAccounts, EndAccounts
  DEF Next

\* Where the watchdog finds a loop that is not wedged stalled, there was no
\* room for its ticks.
LEMMA StalledHasNoRoom ==
    ASSUME TypeOK, AgeIsAccounted, stamped, Stalled,
           loop \in {"ticking", "sleeping"}
    PROVE  ~RoomFor(missed, LongestTick)
<1> USE WatchdogAssumption, LimitType
<1>t. /\ elapsed \in Clock /\ age \in Clock /\ missed \in Nat /\ longest \in Clock
      /\ Pause \in Nat /\ age > StallLimit
  BY DEF TypeOK, Stalled, Clock, Pause
<1> DEFINE L == LongestTick
           k == missed + 1
<1>1. L \in Nat /\ longest <= L /\ (loop = "ticking" => elapsed <= L)
  BY <1>t, LargerType DEF LongestTick, Clock
<1>2. k \in Nat /\ k * longest <= k * L /\ k * longest \in Nat /\ k * L \in Nat
  BY <1>t, <1>1, TimesType, TimesMonotonic DEF Clock
<1>3. (k + 1) * L = k * L + L /\ k + 1 = missed + 2
  BY <1>t, <1>1, <1>2, TimesNext
<1>4. missed * Pause \in Nat /\ k * Pause = missed * Pause + Pause
  BY <1>t, TimesType, TimesNext
<1>5. age <= k * longest + k * Pause + L
  <2>1. CASE loop = "ticking"
    <3>1. age <= k * longest + k * Pause + elapsed
      BY <2>1, <1>t DEF AgeIsAccounted, Span, Clock
    <3> QED BY <2>1, <3>1, <1>1, <1>2, <1>4, <1>t DEF Clock
  <2>2. CASE loop = "sleeping"
    <3>1. age <= k * longest + missed * Pause + elapsed /\ elapsed <= Pause
      BY <2>2, <1>t DEF AgeIsAccounted, Span, Clock
    <3> QED BY <3>1, <1>1, <1>2, <1>4, <1>t DEF Clock
  <2> QED BY <2>1, <2>2
<1>6. (missed + 2) * L + (missed + 1) * (Poll + MaxPost) > StallLimit
  BY <1>1, <1>2, <1>3, <1>4, <1>5, <1>t DEF Pause, Clock
<1> QED BY <1>6, <1>1, <1>2, <1>3, <1>4, <1>t DEF RoomFor, Pause

\* However slow the ticks and whichever writes fail, a process that has
\* stamped is exited only when it is wedged or there was no room for them.
THEOREM NoFalseAlarms == Spec => NoFalseAlarm
<1>1. Init => TypeOK /\ AgeIsAccounted
  BY TypeInit DEF Init, AgeIsAccounted
<1>2. TypeOK /\ AgeIsAccounted /\ [Next]_vars => TypeOK' /\ AgeIsAccounted'
  BY TypeStep, AccountStep
<1>3. TypeOK /\ AgeIsAccounted =>
        (WatchdogExits => \/ loop = "wedged"
                          \/ ~stamped
                          \/ ~RoomFor(missed, LongestTick))
  BY StalledHasNoRoom DEF WatchdogExits, TypeOK
<1> QED BY <1>1, <1>2, <1>3, PTL DEF Spec, NoFalseAlarm

=============================================================================
