----------------------------- MODULE Supervisor -----------------------------
(***************************************************************************)
(* The TEE miner's leg supervisor, _supervise (miner/tee_miner.py), with   *)
(* the legs it starts and cancels, the serves it probes and the gateway    *)
(* whose worker count it follows.                                          *)
(*                                                                         *)
(*    boot -> probe -> [ask] -> act -> sleep -> fetch -> probe ...         *)
(*                               \-- withdrawn -> rest -> probe            *)
(*                                                                         *)
(* A leg never ends by itself (_leg is a loop that catches everything), so *)
(* legs only go when they are cancelled.  legs[i] is the worker count leg  *)
(* i was created for, which fixes what it advertises for its whole life.   *)
(***************************************************************************)
EXTENDS HealthGate, FiniteSets, Functions

CONSTANTS
    MaxWorkers,  \* bound: gateway workers (the code clamps to 64)
    MetaTries,   \* attempts at /gw/meta before the first dial
    Tracked,     \* bound: the legs whose sockets are followed
    Capacity     \* max_inflight

ASSUME SupervisorAssumption ==
    /\ MaxWorkers \in Nat \ {0}
    /\ MetaTries \in Nat \ {0}
    /\ Tracked \subseteq 0..(MaxWorkers - 1)
    /\ Capacity \in Nat \ {0}

VARIABLES
    serve,    \* the serves
    workers,  \* the gateway's worker count
    meta,     \* whether /gw/meta answers
    pc,
    tries,    \* attempts left at boot
    fetched,  \* the last answer of /gw/meta
    gate,
    curN,
    legs,     \* index -> worker count at creation
    open,     \* indices whose leg has a socket attached to the gateway
    zombies,  \* indices with a socket that no task owns any more
    oks,      \* history: consecutive "ok" probes, up to OkStreak
    misses,   \* history: consecutive other probes, up to MissCap
    shrunk    \* history: a leg was dropped by a scale event since the dial

environment == <<serve, workers, meta>>
sockets == <<open, zombies>>
history == <<oks, misses, shrunk>>
vars == <<environment, pc, tries, fetched, gate, curN, legs,
          sockets, history>>

MissCap == FailStreak + StallMax
Counts == 1..MaxWorkers
Indices == 0..(MaxWorkers - 1)

TypeOK ==
    /\ serve \in [Serves -> Status]
    /\ workers \in Counts
    /\ meta \in BOOLEAN
    /\ pc \in {"boot", "probe", "ask", "act", "sleep", "rest", "fetch"}
    /\ tries \in 0..MetaTries
    /\ fetched \in Counts \cup {None}
    /\ gate \in Gates
    /\ curN \in 0..MaxWorkers
    /\ DOMAIN legs = 0..(curN - 1)
    /\ \A i \in DOMAIN legs : legs[i] \in Counts
    /\ open \subseteq DOMAIN legs
    /\ zombies \subseteq Indices
    /\ oks \in 0..OkStreak
    /\ misses \in 0..MissCap
    /\ shrunk \in BOOLEAN

NoLegs == [i \in {} |-> 0]

Init ==
    /\ serve \in [Serves -> Status]
    /\ workers \in Counts
    /\ meta \in BOOLEAN
    /\ pc = "boot"
    /\ tries = MetaTries
    /\ fetched = None
    /\ gate = FreshGate
    /\ curN = 0
    /\ legs = NoLegs
    /\ open = {} /\ zombies = {}
    /\ oks = 0 /\ misses = 0 /\ shrunk = FALSE

-----------------------------------------------------------------------------
(* The serves, the gateway and the sockets.                                *)

ServeChanges ==
    /\ \E u \in Serves, s \in Status : serve' = [serve EXCEPT ![u] = s]
    /\ UNCHANGED <<workers, meta, pc, tries, fetched, gate,
                   curN, legs, sockets, history>>

Scale ==
    /\ workers' \in Counts
    /\ UNCHANGED <<serve, meta, pc, tries, fetched, gate, curN,
                   legs, sockets, history>>

MetaChanges ==
    /\ meta' = ~meta
    /\ UNCHANGED <<serve, workers, pc, tries, fetched, gate,
                   curN, legs, sockets, history>>

\* A leg's dial succeeds; a session ends and the leg dials again.
LegOpens ==
    /\ \E i \in (Tracked \cap DOMAIN legs) \ open : open' = open \cup {i}
    /\ UNCHANGED <<environment, pc, tries, fetched, gate, curN,
                   legs, zombies, history>>

LegCloses ==
    /\ \E i \in open : open' = open \ {i}
    /\ UNCHANGED <<environment, pc, tries, fetched, gate, curN,
                   legs, zombies, history>>

\* The gateway, or its host, closes a socket nobody owns.
ZombieCloses ==
    /\ \E i \in zombies : zombies' = zombies \ {i}
    /\ UNCHANGED <<environment, pc, tries, fetched, gate, curN,
                   legs, open, history>>

-----------------------------------------------------------------------------
(* The supervisor.                                                         *)

FetchWorkerCount == fetched' = IF meta THEN workers ELSE None

\* The first dial waits for a count, but only MetaTries times.
BootFetch ==
    /\ pc = "boot"
    /\ FetchWorkerCount
    /\ tries' = tries - 1
    /\ pc' = IF meta \/ tries = 1 THEN "probe" ELSE "boot"
    /\ UNCHANGED <<environment, gate, curN, legs, sockets, oks,
                   misses, shrunk>>

\* The serves are probed and the outcome folded in.  The verdict on a stall
\* that has lasted waits for the scheduler's answer.
ProbeServes ==
    LET seen == Probe(serve)
        counted == Counted(gate, seen)
        asks == AsksScheduler(counted, seen)
    IN  /\ pc = "probe"
        /\ oks' = IF seen = "ok" THEN UpTo(OkStreak, oks + 1) ELSE 0
        /\ misses' = IF seen = "ok" THEN 0 ELSE UpTo(MissCap, misses + 1)
        /\ gate' = IF asks THEN counted ELSE Settled(counted, seen, TRUE)
        /\ pc' = IF asks THEN "ask" ELSE "act"
        /\ UNCHANGED <<environment, tries, fetched, curN, legs, sockets,
                       shrunk>>

AskScheduler ==
    /\ pc = "ask"
    /\ gate' = Settled(gate, "timeout", SchedulerAlive(serve))
    /\ pc' = "act"
    /\ UNCHANGED <<environment, tries, fetched, curN, legs, sockets,
                   history>>

\* task.cancel() unwinds a leg past the code that closes its socket: the
\* session's tasks go, the connection stays.
Abandoned(I) == zombies \cup (open \cap I)

\* Every leg is cancelled, and the count with them.
Withdraw ==
    /\ pc = "act"
    /\ gate.down
    /\ legs' = NoLegs
    /\ curN' = 0
    /\ zombies' = Abandoned(DOMAIN legs)
    /\ open' = {}
    /\ shrunk' = FALSE
    /\ pc' = "rest"
    /\ UNCHANGED <<environment, tries, fetched, gate, oks, misses>>

\* Mutant: a failed fetch means one worker.
WantedOne == IF fetched # None THEN fetched ELSE 1

\* The count to serve: a failed fetch keeps the current one.
Wanted == IF fetched # None THEN fetched ELSE IF curN = 0 THEN 1 ELSE curN

\* Legs are added and dropped by index; the others are not touched.
Reconcile ==
    /\ pc = "act"
    /\ ~gate.down
    /\ legs' = [i \in 0..(Wanted - 1) |->
                    IF i \in DOMAIN legs THEN legs[i] ELSE Wanted]
    /\ curN' = Wanted
    /\ zombies' = Abandoned(DOMAIN legs \ DOMAIN legs')
    /\ open' = open \cap DOMAIN legs'
    /\ shrunk' = (shrunk \/ Wanted < curN)
    /\ pc' = "sleep"
    /\ UNCHANGED <<environment, tries, fetched, gate, oks, misses>>

\* Mutant: the worker count is only read at boot.
SleepWithoutFetch ==
    /\ pc \in {"sleep", "rest"}
    /\ gate' = Older(gate)
    /\ pc' = "probe"
    /\ UNCHANGED <<environment, tries, fetched, curN, legs, sockets, history>>

\* asyncio.sleep(META_RECHECK_S); a withdrawn miner does not fetch again.
Sleep ==
    /\ pc \in {"sleep", "rest"}
    /\ gate' = Older(gate)
    /\ pc' = IF pc = "sleep" THEN "fetch" ELSE "probe"
    /\ UNCHANGED <<environment, tries, fetched, curN, legs,
                   sockets, history>>

Fetch ==
    /\ pc = "fetch"
    /\ FetchWorkerCount
    /\ pc' = "probe"
    /\ UNCHANGED <<environment, tries, gate, curN, legs,
                   sockets, oks, misses, shrunk>>

-----------------------------------------------------------------------------
Environment ==
    \/ ServeChanges
    \/ Scale
    \/ MetaChanges
    \/ LegOpens
    \/ LegCloses
    \/ ZombieCloses

Supervise ==
    \/ BootFetch
    \/ ProbeServes
    \/ AskScheduler
    \/ Withdraw
    \/ Reconcile
    \/ Sleep
    \/ Fetch

Next == Environment \/ Supervise

Spec == Init /\ [][Next]_vars

\* Every await of the supervisor has a timeout: it always goes on.
FairSpec == Spec /\ WF_vars(Supervise)

-----------------------------------------------------------------------------
\* Mutant: the share is rounded down.
SplitDown(n) == Capacity \div n

\* _split_capacity: what a leg created for n workers advertises, rounded up.
Split(n) == (Capacity + n - 1) \div n

Advertised == FoldFunction(+, 0, [i \in DOMAIN legs |-> Split(legs[i])])

-----------------------------------------------------------------------------
(* What the supervisor promises.                                           *)

\* From the moment it acts on a withdrawal until it comes back, the miner has
\* no leg: nothing dials while the gate is down.
WithdrawnHasNoLegs == (gate.down /\ pc # "act") => DOMAIN legs = {}

\* The gate goes down on a dead backend at once, on a stall only after
\* FailStreak missed probes in a row with the scheduler silent too, or after
\* StallMax rounds of it: a slow /health alone withdraws nothing.
DownOnProof ==
    [][(~gate.down /\ gate'.down) =>
          \/ pc = "probe" /\ Probe(serve) = "dead"
          \/ misses' >= FailStreak /\ ~SchedulerAlive(serve)
          \/ misses' > StallMax]_vars

\* It comes back after OkStreak good probes in a row.
BackOnStreak == [][(gate.down /\ ~gate'.down) => oks' = OkStreak]_vars

\* While the gate is up, a leg the last known count includes is neither
\* cancelled nor replaced: not by a scale event, nor by a /gw/meta outage.
LiveLegsAreKept ==
    [][\A i \in DOMAIN legs :
          (~gate.down /\ (fetched # None => i < fetched)) =>
              i \in DOMAIN legs' /\ legs'[i] = legs[i]]_vars

\* The legs advertise the whole capacity between them, as long as no scale
\* event has dropped one since the dial: legs created for a smaller count
\* advertise more, so growth never leaves a gap.
AdvertisesEnough == (curN > 0 /\ ~shrunk) => Advertised >= Capacity

\* Legs follow the worker count once the backend, the gateway and its count
\* stay as they are.
LegsFollowWorkers ==
    \A n \in Counts :
        <>[](Probe(serve) = "ok" /\ meta /\ workers = n) =>
            <>[](DOMAIN legs = 0..(n - 1))

\* A backend no probe of which ever succeeds again is withdrawn for good,
\* however lively its scheduler looks.
UnhealthyIsWithdrawn ==
    <>[](Probe(serve) # "ok") => <>[](DOMAIN legs = {})

-----------------------------------------------------------------------------
(* What the comments say of it.                                            *)

\* A withdrawn miner is disconnected, so that no buyer is routed to it.
WithdrawnIsDisconnected == pc = "rest" => open \cup zombies = {}

=============================================================================
