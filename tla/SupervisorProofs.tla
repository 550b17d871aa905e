-------------------------- MODULE SupervisorProofs --------------------------
(***************************************************************************)
(* Theorems about Supervisor for any serves, workers, streaks and caps:    *)
(* when the gate goes down and comes back, and what becomes of the legs.   *)
(*                                                                         *)
(* The gate's own counters are capped and are reset by its rules; the      *)
(* properties speak of the probes themselves.  Evidence ties the two.  *)
(***************************************************************************)
EXTENDS Supervisor, FiniteSetTheorems, TLAPS

\* A count capped at cap stays within it.
LEMMA UpToType ==
    ASSUME NEW cap \in Nat, NEW n \in 0..cap
    PROVE  UpTo(cap, n + 1) \in 0..cap /\ UpTo(cap, n + 1) <= n + 1
BY DEF UpTo

\* The parts of a gate.
LEMMA GateParts ==
    ASSUME NEW g \in Gates
    PROVE  /\ g.down \in BOOLEAN
           /\ g.ok \in 0..OkStreak
           /\ g.fail \in 0..FailStreak
           /\ g.stall # None => g.stall \in 0..StallMax
BY DEF Gates

\* A probe has one of three outcomes.
LEMMA ProbeType == \A s : Probe(s) \in {"ok", "dead", "timeout"}
BY DEF Probe

\* The gate stays a gate when a probe is counted.
LEMMA CountedType ==
    ASSUME NEW g \in Gates, NEW seen
    PROVE  /\ Counted(g, seen) \in Gates
           /\ Counted(g, seen).down = g.down
           /\ Counted(g, seen).ok = IF seen = "ok" THEN UpTo(OkStreak, g.ok + 1) ELSE 0
           /\ Counted(g, seen).fail = IF seen = "ok" THEN 0 ELSE UpTo(FailStreak, g.fail + 1)
           /\ Counted(g, seen).stall = IF seen = "ok" THEN None
                                       ELSE IF g.stall = None THEN 0 ELSE g.stall
<1>1. UpTo(OkStreak, g.ok + 1) \in 0..OkStreak
  BY GateParts, HealthGateAssumption, UpToType
<1>2. UpTo(FailStreak, g.fail + 1) \in 0..FailStreak
  BY GateParts, HealthGateAssumption, UpToType
<1>3. 0 \in 0..OkStreak /\ 0 \in 0..FailStreak /\ 0 \in 0..StallMax
  BY HealthGateAssumption
<1>4. Counted(g, seen) \in Gates
  <2>1. CASE seen = "ok" BY <1>1, <1>3, <2>1 DEF Counted, Gates
  <2>2. CASE seen # "ok" BY <1>2, <1>3, <2>2 DEF Counted, Gates
  <2> QED BY <2>1, <2>2
<1>5. Counted(g, seen).down = g.down
  BY DEF Counted, Gates
<1>6. /\ Counted(g, seen).ok = IF seen = "ok" THEN UpTo(OkStreak, g.ok + 1) ELSE 0
      /\ Counted(g, seen).fail = IF seen = "ok" THEN 0 ELSE UpTo(FailStreak, g.fail + 1)
      /\ Counted(g, seen).stall = IF seen = "ok" THEN None
                                  ELSE IF g.stall = None THEN 0 ELSE g.stall
  BY DEF Counted, Gates
<1> QED BY <1>4, <1>5, <1>6

\* A verdict only touches whether the gate is down.
LEMMA SettledType ==
    ASSUME NEW g \in Gates, NEW seen, NEW alive \in BOOLEAN
    PROVE  /\ Settled(g, seen, alive) \in Gates
           /\ Settled(g, seen, alive).ok = g.ok
           /\ Settled(g, seen, alive).fail = g.fail
           /\ Settled(g, seen, alive).stall = g.stall
BY DEF Settled, Gates

\* A round only touches the stall.
LEMMA OlderType ==
    ASSUME NEW g \in Gates
    PROVE  /\ Older(g) \in Gates
           /\ Older(g).down = g.down
           /\ Older(g).ok = g.ok
           /\ Older(g).fail = g.fail
           /\ Older(g).stall = IF g.stall = None THEN None
                               ELSE UpTo(StallMax, g.stall + 1)
<1>1. g.stall # None => g.stall \in 0..StallMax
  BY GateParts
<1>2. g.stall # None => UpTo(StallMax, g.stall + 1) \in 0..StallMax
  BY <1>1, HealthGateAssumption, UpToType
<1>3. Older(g) \in Gates
  BY <1>2 DEF Older, Gates
<1>4. /\ Older(g).down = g.down
      /\ Older(g).ok = g.ok
      /\ Older(g).fail = g.fail
  BY DEF Older, Gates
<1>5. Older(g).stall = IF g.stall = None THEN None ELSE UpTo(StallMax, g.stall + 1)
  BY DEF Older, Gates
<1> QED BY <1>3, <1>4, <1>5

-----------------------------------------------------------------------------
\* The first dial is never waited for once the attempts are used up.
TypeInv == TypeOK /\ (pc = "boot" => tries # 0)

\* The count to serve is one of the counts.
LEMMA WantedType == TypeInv => Wanted \in Counts
BY SupervisorAssumption DEF TypeInv, TypeOK, Wanted, Counts

\* Initial states are well typed.
LEMMA TypeInit == Init => TypeInv
<1>1. FreshGate \in Gates
  BY HealthGateAssumption DEF FreshGate, Gates
<1>2. DOMAIN NoLegs = 0..(0 - 1) /\ 0 \in 0..MaxWorkers /\ 0 \in 0..OkStreak
        /\ 0 \in 0..MissCap /\ MetaTries \in 0..MetaTries
  BY HealthGateAssumption, SupervisorAssumption DEF NoLegs, MissCap
<1>3. MetaTries # 0 /\ None \in Counts \cup {None}
  BY SupervisorAssumption
<1>4. SUFFICES ASSUME Init PROVE TypeInv
  OBVIOUS
<1>5. /\ gate \in Gates /\ curN \in 0..MaxWorkers /\ DOMAIN legs = 0..(curN - 1)
      /\ \A i \in DOMAIN legs : legs[i] \in Counts
  BY <1>1, <1>2, <1>4 DEF Init, NoLegs
<1>6. /\ oks \in 0..OkStreak /\ misses \in 0..MissCap /\ tries \in 0..MetaTries
      /\ tries # 0
  BY <1>2, <1>3, <1>4 DEF Init
<1> QED BY <1>3, <1>4, <1>5, <1>6 DEF Init, TypeOK, TypeInv

\* Every variable keeps its type.
LEMMA TypeStep == TypeInv /\ [Next]_vars => TypeInv'
<1> SUFFICES ASSUME TypeInv, [Next]_vars PROVE TypeInv'
  OBVIOUS
<1> USE DEF TypeInv, TypeOK, environment, sockets, history
<1>1. CASE ServeChanges BY <1>1 DEF ServeChanges
<1>2. CASE Scale BY <1>2 DEF Scale
<1>3. CASE MetaChanges BY <1>3 DEF MetaChanges
<1>4. CASE LegOpens BY <1>4 DEF LegOpens
<1>5. CASE LegCloses BY <1>5 DEF LegCloses
<1>6. CASE ZombieCloses BY <1>6 DEF ZombieCloses
<1>7. CASE BootFetch
  <2>1. tries' \in 0..MetaTries /\ (pc' = "boot" => tries' # 0)
    BY <1>7, SupervisorAssumption DEF BootFetch
  <2>2. fetched' \in Counts \cup {None}
    BY <1>7 DEF BootFetch, FetchWorkerCount
  <2> QED BY <1>7, <2>1, <2>2 DEF BootFetch
<1>8. CASE ProbeServes
  <2> DEFINE seen == Probe(serve)
  <2>1. oks' \in 0..OkStreak
    BY <1>8, HealthGateAssumption, UpToType DEF ProbeServes
  <2>2. misses' \in 0..MissCap
    <3>1. MissCap \in Nat /\ 0 \in 0..MissCap
      BY HealthGateAssumption DEF MissCap
    <3>2. UpTo(MissCap, misses + 1) \in 0..MissCap
      BY <3>1, UpToType
    <3> QED BY <1>8, <3>1, <3>2 DEF ProbeServes
  <2>3. gate' \in Gates /\ pc' \in {"ask", "act"}
    <3>1. Counted(gate, seen) \in Gates
      BY CountedType
    <3>2. /\ gate' = Counted(gate, seen) \/ gate' = Settled(Counted(gate, seen), seen, TRUE)
          /\ pc' \in {"ask", "act"}
      BY <1>8 DEF ProbeServes
    <3> QED BY <3>1, <3>2, SettledType
  <2> QED BY <1>8, <2>1, <2>2, <2>3 DEF ProbeServes
<1>9. CASE AskScheduler
  <2>1. gate' \in Gates
    BY <1>9, SettledType DEF AskScheduler, SchedulerAlive
  <2> QED BY <1>9, <2>1 DEF AskScheduler
<1>10. CASE Withdraw
  <2>1. curN' = 0 /\ DOMAIN legs' = {}
    BY <1>10 DEF Withdraw, NoLegs
  <2>2. curN' \in 0..MaxWorkers /\ DOMAIN legs' = 0..(curN' - 1)
    BY <2>1, SupervisorAssumption
  <2>3. zombies' \subseteq Indices
    <3>1. open \subseteq Indices
      BY SupervisorAssumption DEF Indices
    <3> QED BY <1>10, <3>1 DEF Withdraw, Abandoned
  <2> QED BY <1>10, <2>1, <2>2, <2>3 DEF Withdraw
<1>11. CASE Reconcile
  <2>1. Wanted \in Counts
    BY WantedType
  <2>2. curN' = Wanted /\ DOMAIN legs' = 0..(Wanted - 1)
    BY <1>11 DEF Reconcile
  <2>3. curN' \in 0..MaxWorkers
    BY <2>1, <2>2, SupervisorAssumption DEF Counts
  <2>4. \A i \in DOMAIN legs' : legs'[i] \in Counts
    BY <1>11, <2>1 DEF Reconcile
  <2>5. open' \subseteq DOMAIN legs'
    BY <1>11 DEF Reconcile
  <2>6. zombies' \subseteq Indices
    <3>1. open \subseteq Indices
      BY SupervisorAssumption DEF Indices
    <3> QED BY <1>11, <3>1 DEF Reconcile, Abandoned
  <2>7. shrunk' \in BOOLEAN
    BY <1>11 DEF Reconcile
  <2> QED BY <1>11, <2>2, <2>3, <2>4, <2>5, <2>6, <2>7 DEF Reconcile
<1>12. CASE Sleep
  <2>1. gate' \in Gates
    BY <1>12, OlderType DEF Sleep
  <2> QED BY <1>12, <2>1 DEF Sleep
<1>13. CASE Fetch BY <1>13 DEF Fetch, FetchWorkerCount
<1>14. CASE UNCHANGED vars BY <1>14 DEF vars
<1> QED
  BY <1>1, <1>2, <1>3, <1>4, <1>5, <1>6, <1>7, <1>8, <1>9, <1>10, <1>11,
     <1>12, <1>13, <1>14 DEF Next, Environment, Supervise

\* The supervisor's state is well typed.
THEOREM TypeCorrect == Spec => []TypeOK
<1>1. TypeInv => TypeOK
  BY DEF TypeInv
<1> QED BY TypeInit, TypeStep, <1>1, PTL DEF Spec

-----------------------------------------------------------------------------
\* While the gate is down, and not being acted on, there is no leg.
\* Every step keeps it: a gate goes down on the way to "act" only, and there the
\* legs are withdrawn.
LEMMA WithdrawnStep == TypeInv /\ WithdrawnHasNoLegs /\ [Next]_vars => WithdrawnHasNoLegs'
<1> SUFFICES ASSUME TypeInv, WithdrawnHasNoLegs, [Next]_vars
             PROVE  WithdrawnHasNoLegs'
  OBVIOUS
<1> USE DEF WithdrawnHasNoLegs
<1>1. CASE Environment
  BY <1>1 DEF Environment, ServeChanges, Scale, MetaChanges, LegOpens, LegCloses,
              ZombieCloses
<1>2. CASE BootFetch BY <1>2 DEF BootFetch
<1>3. CASE ProbeServes
  <2>1. pc' = "ask" => gate'.down = gate.down
    BY <1>3, CountedType DEF ProbeServes, AsksScheduler, TypeInv, TypeOK
  <2> QED BY <1>3, <2>1 DEF ProbeServes
<1>4. CASE AskScheduler BY <1>4 DEF AskScheduler
<1>5. CASE Withdraw BY <1>5 DEF Withdraw, NoLegs
<1>6. CASE Reconcile BY <1>6 DEF Reconcile
<1>7. CASE Sleep
  BY <1>7, OlderType DEF Sleep, TypeInv, TypeOK
<1>8. CASE Fetch BY <1>8 DEF Fetch
<1>9. CASE UNCHANGED vars BY <1>9 DEF vars
<1> QED
  BY <1>1, <1>2, <1>3, <1>4, <1>5, <1>6, <1>7, <1>8, <1>9 DEF Next, Supervise

\* From the moment _supervise acts on a withdrawal until it comes back, no leg
\* is dialing or connected, whatever the serves and the gateway do.
THEOREM WithdrawnStays == Spec => []WithdrawnHasNoLegs
<1>1. Init => WithdrawnHasNoLegs
  BY DEF Init, FreshGate, WithdrawnHasNoLegs
<1> QED BY <1>1, TypeInit, TypeStep, WithdrawnStep, PTL DEF Spec

\* No step takes a leg that the last known count includes from a miner that is
\* up.
LEMMA LegStep ==
    ASSUME TypeInv, [Next]_vars, NEW i \in DOMAIN legs,
           ~gate.down, fetched # None => i < fetched
    PROVE  i \in DOMAIN legs' /\ legs'[i] = legs[i]
<1>1. CASE Environment
  BY <1>1 DEF Environment, ServeChanges, Scale, MetaChanges, LegOpens, LegCloses,
              ZombieCloses
<1>2. CASE BootFetch \/ ProbeServes \/ AskScheduler \/ Sleep \/ Fetch
  BY <1>2 DEF BootFetch, ProbeServes, AskScheduler, Sleep, Fetch
<1>3. CASE Withdraw BY <1>3 DEF Withdraw
<1>4. CASE Reconcile
  <2>1. i \in 0..(curN - 1)
    BY DEF TypeInv, TypeOK
  <2>2. i \in 0..(Wanted - 1)
    BY <2>1, SupervisorAssumption DEF Wanted, Counts, TypeInv, TypeOK
  <2> QED BY <1>4, <2>2 DEF Reconcile
<1>5. CASE UNCHANGED vars BY <1>5 DEF vars
<1> QED BY <1>1, <1>2, <1>3, <1>4, <1>5 DEF Next, Supervise

\* While the gate is up, neither scale events nor /gw/meta outages cancel or
\* replace a leg that the last known worker count includes.
THEOREM LegsKept == Spec => LiveLegsAreKept
<1>1. TypeInv /\ [Next]_vars =>
        [\A i \in DOMAIN legs :
            (~gate.down /\ (fetched # None => i < fetched)) =>
                i \in DOMAIN legs' /\ legs'[i] = legs[i]]_vars
  BY LegStep
<1> QED BY <1>1, TypeInit, TypeStep, PTL DEF Spec, LiveLegsAreKept

-----------------------------------------------------------------------------
\* What the gate's counters say of the probes themselves: the streaks are those
\* of the probes, and a stall is never older than the misses that make it, less
\* the round that is going on.
Evidence ==
    /\ gate.ok = oks
    /\ gate.fail = UpTo(FailStreak, misses)
    /\ misses # 0 => gate.stall # None
    /\ gate.stall # None =>
          /\ gate.stall <= misses
          /\ pc \in {"ask", "act", "sleep", "rest"} => gate.stall < misses

\* A probe counts the same in the gate and in the history.
LEMMA EvidenceProbe == TypeInv /\ Evidence /\ ProbeServes => Evidence'
<1> SUFFICES ASSUME TypeInv, Evidence, ProbeServes PROVE Evidence'
  OBVIOUS
<1> DEFINE seen == Probe(serve)
           counted == Counted(gate, seen)
<1>1. gate \in Gates /\ oks \in 0..OkStreak /\ misses \in 0..MissCap
  BY DEF TypeInv, TypeOK
<1>2. /\ gate'.ok = counted.ok
      /\ gate'.fail = counted.fail
      /\ gate'.stall = counted.stall
  <2>1. counted \in Gates
    BY <1>1, CountedType
  <2>2. gate' = counted \/ gate' = Settled(counted, seen, TRUE)
    BY DEF ProbeServes
  <2>3. /\ Settled(counted, seen, TRUE).ok = counted.ok
        /\ Settled(counted, seen, TRUE).fail = counted.fail
        /\ Settled(counted, seen, TRUE).stall = counted.stall
    BY <2>1, SettledType
  <2> QED BY <2>2, <2>3
<1>3. gate'.ok = oks'
  <2>1. counted.ok = IF seen = "ok" THEN UpTo(OkStreak, gate.ok + 1) ELSE 0
    BY <1>1, CountedType
  <2>2. oks' = IF seen = "ok" THEN UpTo(OkStreak, oks + 1) ELSE 0
    BY DEF ProbeServes
  <2> QED BY <1>2, <2>1, <2>2 DEF Evidence
<1>4. gate.stall # None => gate.stall \in 0..StallMax
  BY <1>1, GateParts
<1>5. CASE seen = "ok"
  <2>1. gate'.fail = 0 /\ gate'.stall = None /\ misses' = 0
    <3>1. counted.fail = 0 /\ counted.stall = None
      BY <1>1, <1>5, CountedType
    <3>2. misses' = 0
      BY <1>5 DEF ProbeServes
    <3> QED BY <1>2, <3>1, <3>2
  <2>2. gate'.fail = UpTo(FailStreak, misses')
    BY <2>1, HealthGateAssumption DEF UpTo
  <2> QED BY <1>3, <2>1, <2>2 DEF Evidence
<1>6. CASE seen # "ok"
  <2>1. /\ gate'.fail = UpTo(FailStreak, UpTo(FailStreak, misses) + 1)
        /\ gate'.stall = IF gate.stall = None THEN 0 ELSE gate.stall
        /\ misses' = UpTo(MissCap, misses + 1)
    <3>1. counted.fail = UpTo(FailStreak, gate.fail + 1)
      BY <1>1, <1>6, CountedType
    <3>2. counted.stall = IF gate.stall = None THEN 0 ELSE gate.stall
      BY <1>1, <1>6, CountedType
    <3>3. misses' = UpTo(MissCap, misses + 1)
      BY <1>6 DEF ProbeServes
    <3> QED BY <1>2, <3>1, <3>2, <3>3 DEF Evidence
  <2>2. gate'.fail = UpTo(FailStreak, misses')
    BY <1>1, <2>1, HealthGateAssumption DEF UpTo, MissCap
  <2>3. gate'.stall < misses'
    <3>1. CASE gate.stall = None
      BY <1>1, <2>1, <3>1, HealthGateAssumption DEF UpTo, MissCap
    <3>2. CASE gate.stall # None
      <4>1. gate.stall <= misses
        BY <3>2 DEF Evidence
      <4> QED
        BY <1>1, <1>4, <2>1, <3>2, <4>1, HealthGateAssumption DEF UpTo, MissCap
    <3> QED BY <3>1, <3>2
  <2>4. misses' \in Nat /\ gate'.stall \in Nat
    BY <1>1, <1>4, <2>1, HealthGateAssumption DEF UpTo, MissCap
  <2>5. gate'.stall # None
    BY <2>4, HealthGateAssumption
  <2> QED BY <1>3, <2>2, <2>3, <2>4, <2>5 DEF Evidence
<1> QED BY <1>5, <1>6

\* A round ages the stall by one.
LEMMA EvidenceSleep == TypeInv /\ Evidence /\ Sleep => Evidence'
<1> SUFFICES ASSUME TypeInv, Evidence, Sleep PROVE Evidence'
  OBVIOUS
<1>1. gate \in Gates /\ misses \in 0..MissCap
  BY DEF TypeInv, TypeOK
<1>2. /\ gate'.ok = gate.ok /\ gate'.fail = gate.fail
      /\ gate'.stall = IF gate.stall = None THEN None ELSE UpTo(StallMax, gate.stall + 1)
      /\ pc' \notin {"ask", "act", "sleep", "rest"}
      /\ oks' = oks /\ misses' = misses
  BY <1>1, OlderType DEF Sleep, history
<1>3. ASSUME gate.stall # None PROVE gate'.stall <= misses'
  <2>1. gate.stall < misses
    BY <1>3 DEF Evidence, Sleep
  <2>2. gate.stall \in 0..StallMax
    BY <1>1, <1>3, GateParts
  <2> QED
    BY <1>1, <1>2, <1>3, <2>1, <2>2, HealthGateAssumption DEF UpTo, MissCap
<1>4. gate.stall # None => gate'.stall # None
  <2>1. gate.stall # None => UpTo(StallMax, gate.stall + 1) \in Int
    BY <1>1, GateParts, HealthGateAssumption, UpToType
  <2> QED BY <1>2, <2>1, HealthGateAssumption
<1> QED BY <1>2, <1>3, <1>4 DEF Evidence

\* Every step keeps the evidence.
LEMMA EvidenceStep == TypeInv /\ Evidence /\ [Next]_vars => Evidence'
<1> SUFFICES ASSUME TypeInv, Evidence, [Next]_vars PROVE Evidence'
  OBVIOUS
<1>1. CASE Environment
  BY <1>1 DEF Environment, ServeChanges, Scale, MetaChanges, LegOpens, LegCloses,
              ZombieCloses, history, Evidence
<1>2. CASE AskScheduler
  <2>1. /\ gate'.ok = gate.ok /\ gate'.fail = gate.fail /\ gate'.stall = gate.stall
    BY <1>2, SettledType DEF AskScheduler, SchedulerAlive, TypeInv, TypeOK
  <2> QED BY <1>2, <2>1 DEF AskScheduler, history, Evidence
<1>3. CASE BootFetch \/ Withdraw \/ Reconcile \/ Fetch
  BY <1>3 DEF BootFetch, Withdraw, Reconcile, Fetch, Evidence
<1>4. CASE UNCHANGED vars BY <1>4 DEF vars, history, Evidence
<1> QED
  BY <1>1, <1>2, <1>3, <1>4, EvidenceProbe, EvidenceSleep DEF Next, Supervise

\* There is no evidence at the start.
LEMMA EvidenceInit == Init => Evidence
BY HealthGateAssumption DEF Init, FreshGate, Evidence, UpTo

\* The evidence behind each change of the gate.
LEMMA Verdict ==
    ASSUME TypeInv, Evidence, [Next]_vars
    PROVE  /\ (~gate.down /\ gate'.down) =>
                 \/ pc = "probe" /\ Probe(serve) = "dead"
                 \/ misses' >= FailStreak /\ ~SchedulerAlive(serve)
                 \/ misses' > StallMax
           /\ (gate.down /\ ~gate'.down) => oks' = OkStreak
<1>1. gate \in Gates /\ oks \in 0..OkStreak /\ misses \in 0..MissCap
  BY DEF TypeInv, TypeOK
<1>2. CASE ProbeServes
  <2> DEFINE seen == Probe(serve)
             counted == Counted(gate, seen)
  <2>1. counted \in Gates /\ counted.down = gate.down
    BY <1>1, CountedType
  <2>2. CASE AsksScheduler(counted, seen)
    BY <1>2, <2>1, <2>2 DEF ProbeServes
  <2>3. CASE ~AsksScheduler(counted, seen)
    <3>1. gate' = Settled(counted, seen, TRUE)
      BY <1>2, <2>3 DEF ProbeServes
    <3>2. seen \in {"ok", "dead", "timeout"}
      BY ProbeType
    <3>3. CASE seen = "dead"
      <4>1. gate'.down
        BY <2>1, <3>1, <3>3 DEF Settled, Gates
      <4> QED BY <1>2, <3>3, <4>1 DEF ProbeServes
    <3>4. CASE seen = "ok"
      <4>1. gate'.down <=> gate.down /\ counted.ok < OkStreak
        BY <2>1, <3>1, <3>4 DEF Settled, Gates
      <4>2. counted.ok = oks'
        <5>1. counted.ok = UpTo(OkStreak, gate.ok + 1)
          BY <1>1, <3>4, CountedType
        <5>2. oks' = UpTo(OkStreak, oks + 1)
          BY <1>2, <3>4 DEF ProbeServes
        <5> QED BY <5>1, <5>2 DEF Evidence
      <4>3. counted.ok \in 0..OkStreak
        BY <2>1, GateParts
      <4> QED BY <4>1, <4>2, <4>3, HealthGateAssumption
    <3>5. CASE seen = "timeout"
      <4>1. gate.down => gate'.down
        BY <2>1, <3>1, <3>5 DEF Settled, Gates
      <4>2. ~gate.down => ~(counted.fail >= FailStreak)
        BY <2>1, <2>3, <3>5 DEF AsksScheduler
      <4>3. ~gate.down => ~gate'.down
        BY <2>1, <3>1, <3>5, <4>2 DEF Settled, Gates
      <4> QED BY <4>1, <4>3
    <3> QED BY <3>2, <3>3, <3>4, <3>5
  <2> QED BY <2>2, <2>3
<1>3. CASE AskScheduler
  <2>1. gate' = Settled(gate, "timeout", SchedulerAlive(serve)) /\ misses' = misses
    BY <1>3 DEF AskScheduler, history
  <2>2. gate.down => gate'.down
    BY <1>1, <2>1 DEF Settled, Gates
  <2>3. ASSUME ~gate.down, gate'.down
        PROVE  /\ gate.fail >= FailStreak
               /\ ~SchedulerAlive(serve) \/ gate.stall >= StallMax
    BY <1>1, <2>1, <2>3 DEF Settled, Gates
  <2>4. gate.fail >= FailStreak => misses >= FailStreak
    BY <1>1, HealthGateAssumption DEF Evidence, UpTo, MissCap
  <2>5. gate.stall # None /\ gate.stall >= StallMax => misses > StallMax
    <3>1. gate.stall # None => gate.stall \in 0..StallMax /\ gate.stall < misses
      BY <1>1, <1>3, GateParts DEF AskScheduler, Evidence
    <3> QED BY <1>1, <3>1, HealthGateAssumption DEF MissCap
  <2>6. misses >= FailStreak => gate.stall # None
    BY <1>1, HealthGateAssumption DEF Evidence
  <2> QED BY <2>1, <2>2, <2>3, <2>4, <2>5, <2>6
<1>4. CASE Sleep
  <2>1. gate'.down = gate.down
    BY <1>1, <1>4, OlderType DEF Sleep
  <2> QED BY <2>1
<1>5. CASE \/ Environment \/ BootFetch \/ Withdraw \/ Reconcile \/ Fetch
           \/ UNCHANGED vars
  BY <1>5 DEF Environment, ServeChanges, Scale, MetaChanges, LegOpens, LegCloses,
              ZombieCloses, BootFetch, Withdraw, Reconcile, Fetch, vars
<1> QED BY <1>2, <1>3, <1>4, <1>5 DEF Next, Supervise

\* The gate goes down on a dead backend at once, on a stall only with FailStreak
\* missed probes and a silent scheduler, or after StallMax rounds.
THEOREM DownNeedsProof == Spec => DownOnProof
<1>1. TypeInv /\ Evidence /\ [Next]_vars =>
        [(~gate.down /\ gate'.down) =>
            \/ pc = "probe" /\ Probe(serve) = "dead"
            \/ misses' >= FailStreak /\ ~SchedulerAlive(serve)
            \/ misses' > StallMax]_vars
  BY Verdict
<1> QED
  BY <1>1, TypeInit, TypeStep, EvidenceInit, EvidenceStep, PTL DEF Spec, DownOnProof

\* It comes back only after OkStreak good probes in a row.
THEOREM BackNeedsStreak == Spec => BackOnStreak
<1>1. TypeInv /\ Evidence /\ [Next]_vars =>
        [(gate.down /\ ~gate'.down) => oks' = OkStreak]_vars
  BY Verdict
<1> QED
  BY <1>1, TypeInit, TypeStep, EvidenceInit, EvidenceStep, PTL DEF Spec, BackOnStreak

-----------------------------------------------------------------------------
(* Sums.  FoldFunction is a choice of a function on all the subsets of a   *)
(* domain; that there is one, and what it sums to, goes by induction on    *)
(* their size, as an argument about the least size that fails.             *)

\* A set of naturals that is not empty has a least element.
LEMMA LeastNatural ==
    ASSUME NEW B \in SUBSET Nat, B # {}
    PROVE  \E n \in B : \A k \in B : n <= k
<1>1. \E n \in B : \A k \in B : <<k, n>> \notin OpToRel(<, Nat)
  BY NatLessThanWellFounded, WFMin
<1>2. \A k, n \in Nat : k < n => <<k, n>> \in OpToRel(<, Nat)
  BY DEF OpToRel
<1>3. \A k, n \in Nat : ~(k < n) => n <= k
  OBVIOUS
<1> QED BY <1>1, <1>2, <1>3

First(s) == CHOOSE x \in s : TRUE

Rest(s) == s \ {First(s)}

\* The subsets of S with at most n elements.
Small(n, S) == {s \in SUBSET S : Cardinality(s) <= n}

\* h is the sum of fun, on the sets of D.
SumsOn(fun, h, D) ==
    h = [s \in D |-> IF s = {} THEN 0 ELSE fun[First(s)] + h[Rest(s)]]

\* A set that is not empty is its first element and a smaller rest.
LEMMA RestSmaller ==
    ASSUME NEW S, IsFiniteSet(S), NEW s \in SUBSET S, s # {}
    PROVE  /\ First(s) \in S
           /\ Rest(s) \in SUBSET S
           /\ Cardinality(s) \in Nat
           /\ Cardinality(Rest(s)) \in Nat
           /\ Cardinality(s) = Cardinality(Rest(s)) + 1
<1>1. First(s) \in s
  BY DEF First
<1>2. IsFiniteSet(s)
  BY FS_Subset
<1>3. IsFiniteSet(Rest(s)) /\ Cardinality(Rest(s)) = Cardinality(s) - 1
  BY <1>1, <1>2, FS_RemoveElement DEF Rest
<1>4. Cardinality(s) \in Nat /\ Cardinality(Rest(s)) \in Nat
  BY <1>2, <1>3, FS_CardinalityType
<1> QED BY <1>1, <1>3, <1>4 DEF Rest

\* There is a sum on the subsets of every size.
LEMMA SumsExist ==
    ASSUME NEW fun, NEW S, IsFiniteSet(S), NEW n \in Nat
    PROVE  \E h : SumsOn(fun, h, Small(n, S))
<1> DEFINE Missing == {k \in Nat : ~ \E h : SumsOn(fun, h, Small(k, S))}
<1>1. SUFFICES Missing = {}
  OBVIOUS
<1>2. SUFFICES ASSUME Missing # {} PROVE FALSE
  OBVIOUS
<1>3. PICK k \in Missing : \A j \in Missing : k <= j
  <2> HIDE DEF Missing
  <2>1. Missing \in SUBSET Nat
    BY DEF Missing
  <2> QED BY <1>2, <2>1, LeastNatural
<1>4. CASE k = 0
  <2> DEFINE h == [s \in Small(0, S) |-> 0]
  <2>1. \A s \in Small(0, S) : s = {}
    <3> TAKE s \in Small(0, S)
    <3>1. IsFiniteSet(s) /\ Cardinality(s) <= 0 /\ Cardinality(s) \in Nat
      BY FS_Subset, FS_CardinalityType DEF Small
    <3> QED BY <3>1, FS_EmptySet
  <2>2. SumsOn(fun, h, Small(0, S))
    BY <2>1 DEF SumsOn
  <2> QED BY <1>4, <2>2
<1>5. CASE k # 0
  <2>1. k - 1 \in Nat /\ k - 1 \notin Missing
    BY <1>3, <1>5
  <2>2. PICK g : SumsOn(fun, g, Small(k - 1, S))
    BY <2>1
  <2> DEFINE h == [s \in Small(k, S) |->
                     IF s = {} THEN 0
                     ELSE fun[First(s)] + g[Rest(s)]]
  <2>3. \A s \in Small(k - 1, S) : h[s] = g[s]
    <3> TAKE s \in Small(k - 1, S)
    <3>1. s \in SUBSET S /\ Cardinality(s) <= k - 1 /\ Cardinality(s) \in Nat
      BY FS_Subset, FS_CardinalityType DEF Small
    <3>2. s \in Small(k, S)
      BY <3>1, <2>1 DEF Small
    <3>3. h[s] = IF s = {} THEN 0 ELSE fun[First(s)] + g[Rest(s)]
      BY <3>2
    <3>4. g[s] = IF s = {} THEN 0 ELSE fun[First(s)] + g[Rest(s)]
      BY <2>2 DEF SumsOn
    <3> QED BY <3>3, <3>4
  <2>4. \A s \in Small(k, S) : s # {} => h[Rest(s)] = g[Rest(s)]
    <3> SUFFICES ASSUME NEW s \in Small(k, S), s # {}
                 PROVE  Rest(s) \in Small(k - 1, S)
      BY <2>3
    <3> QED BY <2>1, RestSmaller DEF Small
  <2>5. SumsOn(fun, h, Small(k, S))
    <3> DEFINE e == [s \in Small(k, S) |-> IF s = {} THEN 0
                                           ELSE fun[First(s)] + h[Rest(s)]]
    <3>1. \A s \in Small(k, S) : h[s] = e[s]
      BY <2>4
    <3>2. h = e
      BY <3>1
    <3> QED BY <3>2 DEF SumsOn
  <2> QED BY <2>5
<1> QED BY <1>4, <1>5

\* Whatever sums a function of naturals that are all at least m sums each set
\* to a natural, at least m for every element of it.
LEMMA SumsBound ==
    ASSUME NEW S, IsFiniteSet(S), NEW m \in Nat, NEW fun,
           \A x \in S : fun[x] \in Nat /\ fun[x] >= m,
           NEW h, SumsOn(fun, h, SUBSET S),
           NEW s \in SUBSET S
    PROVE  h[s] \in Nat /\ Cardinality(s) * m <= h[s]
<1> DEFINE Good(t) == h[t] \in Nat /\ Cardinality(t) * m <= h[t]
           Bad == {n \in Nat : \E t \in SUBSET S : Cardinality(t) = n /\ ~Good(t)}
<1>1. \A t \in SUBSET S : Cardinality(t) \in Nat
  BY FS_Subset, FS_CardinalityType
<1>2. SUFFICES ASSUME Bad # {} PROVE FALSE
  BY <1>1
<1>3. PICK n \in Bad : \A k \in Bad : n <= k
  <2> HIDE DEF Bad
  <2>1. Bad \in SUBSET Nat
    BY DEF Bad
  <2> QED BY <1>2, <2>1, LeastNatural
<1>4. PICK t \in SUBSET S : Cardinality(t) = n /\ ~Good(t)
  OBVIOUS
<1>5. CASE t = {}
  <2>1. h[t] = 0
    BY <1>5 DEF SumsOn
  <2>2. Cardinality(t) = 0
    BY <1>5, FS_EmptySet
  <2> QED BY <1>4, <2>1, <2>2
<1>6. CASE t # {}
  <2>1. /\ First(t) \in S
        /\ Rest(t) \in SUBSET S
        /\ Cardinality(Rest(t)) \in Nat
        /\ n = Cardinality(Rest(t)) + 1
    BY <1>4, <1>6, RestSmaller
  <2>2. Good(Rest(t))
    <3>1. Cardinality(Rest(t)) \notin Bad
      BY <1>3, <2>1
    <3> QED BY <2>1, <3>1
  <2>3. h[t] = fun[First(t)] + h[Rest(t)]
    BY <1>6 DEF SumsOn
  <2>4. fun[First(t)] \in Nat /\ fun[First(t)] >= m
    BY <2>1
  <2>5. h[t] \in Nat
    BY <2>2, <2>3, <2>4
  <2>6. n * m = Cardinality(Rest(t)) * m + m
    <3> HIDE DEF Good, Bad
    <3> QED BY <2>1
  <2>7. n * m <= h[t]
    <3> DEFINE p == Cardinality(Rest(t)) * m
    <3>1. p \in Nat /\ p <= h[Rest(t)] /\ n * m = p + m /\ h[Rest(t)] \in Nat
      BY <2>1, <2>2, <2>6
    <3> HIDE DEF p, Good, Bad
    <3> QED BY <3>1, <2>3, <2>4
  <2> QED BY <1>4, <2>5, <2>7
<1> QED BY <1>5, <1>6

\* The sum of a function of naturals over a finite domain is at least the
\* number of its elements times the least of them.
LEMMA SumAtLeast ==
    ASSUME NEW fun, IsFiniteSet(DOMAIN fun), NEW m \in Nat,
           \A x \in DOMAIN fun : fun[x] \in Nat /\ fun[x] >= m
    PROVE  /\ FoldFunction(+, 0, fun) \in Nat
           /\ Cardinality(DOMAIN fun) * m <= FoldFunction(+, 0, fun)
<1> DEFINE S == DOMAIN fun
           h == CHOOSE g : SumsOn(fun, g, SUBSET S)
<1>1. FoldFunction(+, 0, fun) = h[S]
  BY DEF FoldFunction, FoldFunctionOnSet, MapThenFoldSet, SumsOn, First, Rest
<1>2. Small(Cardinality(S), S) = SUBSET S
  BY FS_Subset DEF Small
<1>3. \E g : SumsOn(fun, g, SUBSET S)
  <2>1. Cardinality(S) \in Nat
    BY FS_CardinalityType
  <2>2. \E g : SumsOn(fun, g, Small(Cardinality(S), S))
    BY <2>1, SumsExist
  <2> QED BY <1>2, <2>2
<1>4. SumsOn(fun, h, SUBSET S)
  BY <1>3
<1> HIDE DEF h
<1>5. h[S] \in Nat /\ Cardinality(S) * m <= h[S]
  BY <1>4, SumsBound
<1> QED BY <1>1, <1>5

-----------------------------------------------------------------------------
(* What the legs advertise.                                                *)

\* Natural division.
LEMMA DivFacts ==
    ASSUME NEW a \in Nat, NEW n \in Nat \ {0}
    PROVE  /\ a \div n \in Nat
           /\ (a \div n) * n <= a
           /\ a < (a \div n) * n + n
OBVIOUS

\* _split_capacity rounds up: n shares of it are the capacity, and fewer than n
\* more.
LEMMA SplitCovers ==
    ASSUME NEW n \in Nat \ {0}
    PROVE  /\ Split(n) \in Nat
           /\ Capacity <= Split(n) * n
           /\ Split(n) * n < Capacity + n
<1>1. Capacity + n - 1 \in Nat
  BY SupervisorAssumption
<1> DEFINE a == Capacity + n - 1
<1>2. /\ a \div n \in Nat
      /\ (a \div n) * n <= a
      /\ a < (a \div n) * n + n
  BY <1>1, DivFacts
<1> DEFINE q == a \div n
           p == q * n
<1>3. q \in Nat /\ p <= a /\ a < p + n /\ p \in Nat
  BY <1>2
<1>4. Split(n) = q
  BY DEF Split
<1> HIDE DEF q, p
<1>5. Capacity <= p /\ p < Capacity + n
  BY <1>3, SupervisorAssumption
<1> QED BY <1>3, <1>4, <1>5 DEF p

\* A leg created for fewer workers advertises at least as much.
LEMMA SplitAntitone ==
    ASSUME NEW n \in Nat \ {0}, NEW k \in 1..n
    PROVE  Split(n) <= Split(k)
<1> DEFINE qn == Split(n)
           qk == Split(k)
<1>1. qn \in Nat /\ qk \in Nat /\ Capacity <= qk * k /\ qn * n < Capacity + n
  BY SplitCovers
<1>2. k \in Nat /\ k <= n
  OBVIOUS
<1> HIDE DEF qn, qk
<1>3. SUFFICES ASSUME qk + 1 <= qn PROVE FALSE
  BY <1>1 DEF qn, qk
<1>4. qk * k <= qk * n
  BY <1>1, <1>2
<1>5. (qk + 1) * n <= qn * n
  BY <1>1, <1>3
<1>6. (qk + 1) * n = qk * n + n
  BY <1>1
<1> QED BY <1>1, <1>4, <1>5, <1>6, SupervisorAssumption

\* While no scale event has dropped a leg, none was created for more workers
\* than there are legs.
CreatedForFewer == ~shrunk => \A i \in DOMAIN legs : legs[i] <= curN

\* Every step keeps it.
LEMMA CreatedStep == TypeInv /\ CreatedForFewer /\ [Next]_vars => CreatedForFewer'
<1> SUFFICES ASSUME TypeInv, CreatedForFewer, [Next]_vars
             PROVE  CreatedForFewer'
  OBVIOUS
<1> USE DEF CreatedForFewer
<1>1. CASE Environment
  BY <1>1 DEF Environment, ServeChanges, Scale, MetaChanges, LegOpens, LegCloses,
              ZombieCloses, history
<1>2. CASE BootFetch \/ ProbeServes \/ AskScheduler \/ Sleep \/ Fetch
  BY <1>2 DEF BootFetch, ProbeServes, AskScheduler, Sleep, Fetch, history
<1>3. CASE Withdraw BY <1>3 DEF Withdraw, NoLegs
<1>4. CASE Reconcile
  <2>1. Wanted \in Counts /\ curN \in Nat
    BY WantedType, SupervisorAssumption DEF TypeInv, TypeOK
  <2>2. ASSUME ~shrunk', NEW i \in DOMAIN legs' PROVE legs'[i] <= curN'
    <3>1. ~shrunk /\ curN <= Wanted /\ curN' = Wanted
      <4>1. shrunk' = (shrunk \/ Wanted < curN) /\ curN' = Wanted
        BY <1>4 DEF Reconcile
      <4>2. ~(shrunk \/ Wanted < curN)
        BY <2>2, <4>1
      <4> QED BY <2>1, <4>1, <4>2 DEF Counts
    <3>2. legs'[i] = IF i \in DOMAIN legs THEN legs[i] ELSE Wanted
      BY <1>4, <2>2 DEF Reconcile
    <3>3. i \in DOMAIN legs => legs[i] \in Nat /\ legs[i] <= curN
      BY <3>1 DEF TypeInv, TypeOK, Counts
    <3> QED BY <2>1, <3>1, <3>2, <3>3 DEF Counts
  <2> QED BY <2>2
<1>5. CASE UNCHANGED vars BY <1>5 DEF vars, history
<1> QED BY <1>1, <1>2, <1>3, <1>4, <1>5 DEF Next, Supervise

\* curN legs, each created for at most curN workers, advertise the capacity.
LEMMA CapacityCovered == TypeInv /\ CreatedForFewer => AdvertisesEnough
<1> SUFFICES ASSUME TypeInv, CreatedForFewer, curN > 0, ~shrunk
             PROVE  Advertised >= Capacity
  BY DEF AdvertisesEnough
<1> DEFINE shares == [i \in DOMAIN legs |-> Split(legs[i])]
           m == Split(curN)
           sum == FoldFunction(+, 0, shares)
<1>1. curN \in Nat \ {0}
  BY SupervisorAssumption DEF TypeInv, TypeOK
<1>2. IsFiniteSet(DOMAIN shares) /\ Cardinality(DOMAIN shares) = curN
  <2>1. DOMAIN shares = 0..(curN - 1)
    BY DEF TypeInv, TypeOK
  <2>2. IsFiniteSet(0..(curN - 1)) /\ Cardinality(0..(curN - 1)) = curN
    BY <1>1, FS_Interval
  <2> QED BY <2>1, <2>2
<1>3. m \in Nat /\ Capacity <= m * curN
  BY <1>1, SplitCovers
<1>4. \A i \in DOMAIN shares : shares[i] \in Nat /\ shares[i] >= m
  <2> TAKE i \in DOMAIN shares
  <2>1. legs[i] \in 1..curN
    BY <1>1, SupervisorAssumption DEF CreatedForFewer, TypeInv, TypeOK, Counts
  <2>2. Split(legs[i]) \in Nat /\ m <= Split(legs[i])
    BY <1>1, <2>1, SplitCovers, SplitAntitone
  <2> QED BY <1>3, <2>2
<1>5. sum \in Nat /\ curN * m <= sum
  <2> HIDE DEF shares, m
  <2> QED BY <1>2, <1>3, <1>4, SumAtLeast
<1>6. Advertised = sum
  BY DEF Advertised
<1>7. curN * m = m * curN
  <2> HIDE DEF m
  <2> QED BY <1>1, <1>3
<1> HIDE DEF sum, m
<1>8. m * curN \in Nat
  BY <1>1, <1>3
<1> QED BY <1>3, <1>5, <1>6, <1>7, <1>8, SupervisorAssumption

\* The legs advertise the whole capacity between them as long as no scale event
\* has dropped one since the dial: growth keeps the first legs, which advertise
\* more than their share, and never leaves a gap.
THEOREM CapacityAdvertised == Spec => []AdvertisesEnough
<1>1. Init => CreatedForFewer
  BY DEF Init, NoLegs, CreatedForFewer
<1> QED BY <1>1, TypeInit, TypeStep, CreatedStep, CapacityCovered, PTL DEF Spec

=============================================================================
