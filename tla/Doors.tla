------------------------------- MODULE Doors -------------------------------
(***************************************************************************)
(* Which gateway door a leg of the TEE miner dials: the class Doors and    *)
(* the dial loop _leg (miner/tee_miner.py).                                *)
(*                                                                         *)
(* A bench is kept as the time it has left, so that time may go on for     *)
(* ever: left[d] is _until[d] - now, and 0 once that has passed.  The half *)
(* second between dials and the dial, which has a timeout, take at most    *)
(* DialMax together.                                                       *)
(***************************************************************************)
EXTENDS SequencesExt

CONSTANTS
    Slots,       \* the primary doors as configured, with repeats
    Primaries,   \* the same, each once, in order
    Backups,     \* the backup doors, in order
    Count,       \* legs
    OpenFails,   \* _DOOR_OPEN_FAILS
    BenchS,      \* _DOOR_BENCH_S
    BenchMaxS,   \* _DOOR_BENCH_MAX_S
    DialMax      \* the longest from one dial's end to the next's

All == Range(Primaries) \cup Range(Backups)
Legs == 0..(Count - 1)

ASSUME DoorsAssumption ==
    /\ Primaries \in Seq(All) \ {<< >>} /\ Backups \in Seq(All)
    /\ Slots \in Seq(All) /\ Range(Slots) = Range(Primaries)
    /\ IsInjective(Primaries \o Backups)
    /\ Count \in Nat
    /\ OpenFails \in Nat \ {0}
    /\ BenchS \in Nat \ {0}
    /\ BenchMaxS \in Nat /\ BenchMaxS >= BenchS
    /\ DialMax \in Nat \ {0}

VARIABLES
    edge,   \* whether a dial through the door would open
    fails,  \* _fails
    left,   \* what is left of the door's bench
    bench,  \* _bench: how long the next one will be
    home,   \* leg -> its primary
    at,     \* leg -> where its loop is
    door,   \* leg -> the door it dials, or dialed
    waited  \* leg -> time since it last had a socket, or dialed

doors == <<fails, left, bench>>
legs == <<home, at, door, waited>>
vars == <<edge, doors, legs>>

TypeOK ==
    /\ edge \in [All -> BOOLEAN]
    /\ fails \in [All -> 0..(OpenFails - 1)]
    /\ left \in [All -> 0..BenchMaxS]
    /\ bench \in [All -> BenchS..BenchMaxS]
    /\ home \in [Legs -> Range(Primaries)]
    /\ at \in [Legs -> {"pick", "dial", "open"}]
    /\ door \in [Legs -> All]
    /\ waited \in [Legs -> 0..DialMax]

\* homes: the slots in turn, shuffled.  A door listed twice gets two shares.
Homes ==
    LET slot == [i \in Legs |-> Slots[(i % Len(Slots)) + 1]]
    IN  {[i \in Legs |-> slot[shuffle[i]]] :
            shuffle \in {f \in [Legs -> Legs] : IsInjective(f)}}

Init ==
    /\ edge \in [All -> BOOLEAN]
    /\ fails = [d \in All |-> 0]
    /\ left = [d \in All |-> 0]
    /\ bench = [d \in All |-> BenchS]
    /\ home \in Homes
    /\ at = [i \in Legs |-> "pick"]
    /\ door = home
    /\ waited = [i \in Legs |-> 0]

-----------------------------------------------------------------------------
EdgeChanges ==
    /\ \E d \in All : edge' = [edge EXCEPT ![d] = ~@]
    /\ UNCHANGED <<doors, legs>>

Pass ==
    /\ \A i \in Legs : at[i] # "open" => waited[i] < DialMax
    /\ left' = [d \in All |-> IF left[d] = 0 THEN 0 ELSE left[d] - 1]
    /\ waited' = [i \in Legs |-> IF at[i] = "open" THEN 0 ELSE waited[i] + 1]
    /\ UNCHANGED <<edge, fails, bench, home, at, door>>

\* Mutant: a bench only ends when the door opens.
benchedUntilOpened(d) == left[d] > 0 \/ bench[d] > BenchS

benched(d) == left[d] > 0

\* Mutant: the backups before the primaries.
OrderOfBackups(h) == Backups \o Primaries

\* The primaries from the home on, then those before it, then the backups.
Order(h) ==
    LET i == SelectInSeq(Primaries, LAMBDA d : d = h)
    IN  SubSeq(Primaries, i, Len(Primaries)) \o SubSeq(Primaries, 1, i - 1)
            \o Backups

\* Mutant: always home.
pickHome(h) == h

\* The first that is not benched; failing that, the one back soonest.
pick(h) ==
    LET free == SelectInSeq(Order(h), LAMBDA d : ~benched(d))
        soon == SelectInSeq(Order(h), LAMBDA d : \A e \in All : left[d] <= left[e])
    IN  Order(h)[IF free # 0 THEN free ELSE soon]

Dial(i) ==
    /\ at[i] = "pick"
    /\ at' = [at EXCEPT ![i] = "dial"]
    /\ door' = [door EXCEPT ![i] = pick(home[i])]
    /\ UNCHANGED <<edge, doors, home, waited>>

opened(d) ==
    /\ fails' = [fails EXCEPT ![d] = 0]
    /\ bench' = [bench EXCEPT ![d] = BenchS]
    /\ UNCHANGED left

Opens(i) ==
    /\ at[i] = "dial"
    /\ edge[door[i]]
    /\ opened(door[i])
    /\ at' = [at EXCEPT ![i] = "open"]
    /\ waited' = [waited EXCEPT ![i] = 0]
    /\ UNCHANGED <<edge, home, door>>

\* A failure counts unless the door is benched already: legs that dialed
\* before the bench are the same outage.
failed(d) ==
    IF benched(d) THEN UNCHANGED doors
    ELSE IF fails[d] + 1 < OpenFails
    THEN /\ fails' = [fails EXCEPT ![d] = @ + 1]
         /\ UNCHANGED <<left, bench>>
    ELSE /\ fails' = [fails EXCEPT ![d] = 0]
         /\ left' = [left EXCEPT ![d] = bench[d]]
         /\ bench' = [bench EXCEPT ![d] =
                          IF 2 * @ < BenchMaxS THEN 2 * @ ELSE BenchMaxS]

Fails(i) ==
    /\ at[i] = "dial"
    /\ ~edge[door[i]]
    /\ failed(door[i])
    /\ at' = [at EXCEPT ![i] = "pick"]
    /\ waited' = [waited EXCEPT ![i] = 0]
    /\ UNCHANGED <<edge, home, door>>

\* The session ends - cut, closed, rotated or drained - and the leg dials
\* again; the door is not blamed.
SessionEnds(i) ==
    /\ at[i] = "open"
    /\ at' = [at EXCEPT ![i] = "pick"]
    /\ UNCHANGED <<edge, doors, home, door, waited>>

Leg(i) == Dial(i) \/ Opens(i) \/ Fails(i) \/ SessionEnds(i)

Next == EdgeChanges \/ Pass \/ \E i \in Legs : Leg(i)

Spec == Init /\ [][Next]_vars

\* Time passes, a leg at the top of its loop dials, and a dial ends.
FairSpec ==
    /\ Spec
    /\ WF_vars(Pass)
    /\ \A i \in Legs : WF_vars(Dial(i) \/ Opens(i) \/ Fails(i))

-----------------------------------------------------------------------------
(* What the doors promise.                                                 *)

\* A backup is dialed only while every primary is benched, or when every door
\* is and the backup comes back soonest.
BackupIsLastResort ==
    [][\A i \in Legs :
          (at[i] = "pick" /\ at'[i] = "dial" /\ door'[i] \in Range(Backups))
              => \A d \in Range(Primaries) : benched(d)]_vars

\* A network from which only some doors open still reaches the gateway: every
\* leg gets a session, again and again.  (The doors must stay as they are: one
\* that opens for another leg now and then has its count reset each time and
\* may fail this leg for ever.)
SomeDoorIsEnough ==
    \A i \in Legs :
        (<>[][edge' = edge]_vars /\ <>[](\E d \in All : edge[d]))
            => []<>(at[i] = "open")

\* Legs go home: once a leg's home opens for good, every later dial of that
\* leg is to it.
LegsGoHome ==
    \A i \in Legs :
        <>[]edge[home[i]] => <>[](at[i] = "dial" => door[i] = home[i])

=============================================================================
