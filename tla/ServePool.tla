----------------------------- MODULE ServePool -----------------------------
(***************************************************************************)
(* Which local serve a request of a TEE miner goes to: Serve._pick and     *)
(* _release, the lanes complete and stream that call them, and the probe   *)
(* that refreshes the down-set _pick routes around (miner/tee_miner.py).   *)
(*                                                                         *)
(* Everything runs on one event loop.  A probe asks the serves one after   *)
(* the other and awaits each, so requests come and go, and serves die and  *)
(* recover, between two of its answers.  What HealthGate makes of the      *)
(* verdict is in Supervisor, where a probe is one step.                    *)
(***************************************************************************)
EXTENDS Naturals, FiniteSets

CONSTANTS
    NServes,     \* bound: local serves; urls are numbered in their order
    Requests,    \* bound: requests under way at one time
    MaxLeaks     \* bound: requests to a serve whose body _chat_body cannot build

ASSUME ServePoolAssumption ==
    /\ NServes \in Nat \ {0}
    /\ IsFiniteSet(Requests)
    /\ MaxLeaks \in Nat

Serves == 1..NServes
None == 0

VARIABLES
    health,   \* serve -> what GET /health would give now
    n,        \* _n
    down,     \* _down
    at,       \* request -> the serve its connection is open to, or None
    yielded,  \* requests whose stream generator was dropped at a yield and
              \* waits for the event loop to close it
    asked,    \* number of serves the present probe has heard from; None: no probe
    found,    \* the local variable down of probe
    leaked,   \* history: serve -> places in n that nobody will release
    cur,      \* history: serves dead / answering ever since the present probe began
    last      \* history: the same for the probe that finished last

vars == <<health, n, down, at, yielded, asked, found, leaked, cur, last>>

Steady == [dead : SUBSET Serves, alive : SUBSET Serves]
NothingKnown == [dead |-> {}, alive |-> {}]
Open(u) == {r \in Requests : at[r] = u}

TypeOK ==
    /\ health \in [Serves -> {"ok", "dead", "timeout"}]
    /\ n \in [Serves -> 0..(Cardinality(Requests) + MaxLeaks)]
    /\ down \subseteq Serves
    /\ at \in [Requests -> Serves \cup {None}]
    /\ yielded \subseteq Requests
    /\ asked \in 0..NServes
    /\ found \subseteq Serves
    /\ leaked \in [Serves -> 0..MaxLeaks]
    /\ cur \in Steady
    /\ last \in Steady

Init ==
    /\ health \in [Serves -> {"ok", "dead", "timeout"}]
    /\ n = [u \in Serves |-> 0]
    /\ down = {}
    /\ at = [r \in Requests |-> None]
    /\ yielded = {}
    /\ asked = 0
    /\ found = {}
    /\ leaked = [u \in Serves |-> 0]
    /\ cur = NothingKnown
    /\ last = NothingKnown

-----------------------------------------------------------------------------
(* The serves.                                                             *)

Forgets(h, u, dead) == IF dead THEN [h EXCEPT !.alive = @ \ {u}]
                               ELSE [h EXCEPT !.dead = @ \ {u}]

ServeChanges(u) ==
    \E s \in {"ok", "dead", "timeout"} \ {health[u]} :
        /\ health' = [health EXCEPT ![u] = s]
        /\ cur' = Forgets(cur, u, s = "dead")
        /\ last' = Forgets(last, u, s = "dead")
        /\ UNCHANGED <<n, down, at, yielded, asked, found, leaked>>

-----------------------------------------------------------------------------
(* Requests.                                                               *)

\* Mutant: the down-set is not consulted.
PoolOfAll == Serves

\* The urls _pick takes the minimum of: those not down, or all.
Pool == IF Serves \subseteq down THEN Serves ELSE Serves \ down

\* min() keeps the first of equals.
Pick == CHOOSE u \in Pool :
            /\ \A w \in Pool : n[u] <= n[w]
            /\ \A w \in Pool : n[w] = n[u] => u <= w

\* Either lane: the url is picked and the request goes out on it.
Starts(r) ==
    /\ at[r] = None
    /\ n' = [n EXCEPT ![Pick] = @ + 1]
    /\ at' = [at EXCEPT ![r] = Pick]
    /\ UNCHANGED <<health, down, yielded, asked, found, cur, last, leaked>>

\* Chat lane: _chat_body comes between _pick and the try, and raises: on a
\* reasoning_effort that cannot be hashed, or a message that is no object.
StartsBadly(r) ==
    /\ at[r] = None
    /\ leaked[Pick] < MaxLeaks
    /\ n' = [n EXCEPT ![Pick] = @ + 1]
    /\ leaked' = [leaked EXCEPT ![Pick] = @ + 1]
    /\ UNCHANGED <<health, down, at, yielded, asked, found, cur, last>>

\* Never below 0.
Release(u) == n' = [n EXCEPT ![u] = IF @ = 0 THEN 0 ELSE @ - 1]

\* The response is complete, the serve failed or timed out, or a CANCEL came
\* while the request waited for the serve: finally runs at once.
Ends(r) ==
    /\ at[r] # None
    /\ r \notin yielded
    /\ Release(at[r])
    /\ at' = [at EXCEPT ![r] = None]
    /\ UNCHANGED <<health, down, yielded, asked, found, cur, last, leaked>>

\* Chat lane: the send of a chunk fails, or is cancelled, in the body of the
\* async for.  _serve_one unwinds; nothing closes the generator but its
\* finalizer, a later turn of the event loop.
Abandons(r) ==
    /\ at[r] # None
    /\ r \notin yielded
    /\ yielded' = yielded \cup {r}
    /\ UNCHANGED <<health, n, down, at, asked, found, cur, last, leaked>>

\* Mutant: the release comes after the loop over the lines, not in a finally.
GeneratorClosesOnly(r) ==
    /\ r \in yielded
    /\ at' = [at EXCEPT ![r] = None]
    /\ yielded' = yielded \ {r}
    /\ UNCHANGED <<n, health, down, asked, found, cur, last, leaked>>

GeneratorCloses(r) ==
    /\ r \in yielded
    /\ Release(at[r])
    /\ at' = [at EXCEPT ![r] = None]
    /\ yielded' = yielded \ {r}
    /\ UNCHANGED <<health, down, asked, found, cur, last, leaked>>

-----------------------------------------------------------------------------
(* The probe: one serve after the other; the down-set is replaced at the   *)
(* end.  A serve whose /health times out is left routable.                 *)

FoundNext == IF health[asked + 1] = "dead" THEN found \cup {asked + 1} ELSE found

Dead == {u \in Serves : health[u] = "dead"}
Now == [dead |-> Dead, alive |-> Serves \ Dead]

ProbeAsks ==
    /\ asked + 1 < NServes
    /\ asked' = asked + 1
    /\ found' = FoundNext
    /\ cur' = IF asked = 0 THEN Now ELSE cur
    /\ UNCHANGED <<health, n, down, at, yielded, last, leaked>>

\* Mutant: what was found is reset before it is stored.
ProbeForgets ==
    /\ asked + 1 = NServes
    /\ asked' = 0
    /\ found' = {}
    /\ down' = {}
    /\ last' = IF asked = 0 THEN Now ELSE cur
    /\ cur' = NothingKnown
    /\ UNCHANGED <<health, n, at, yielded, leaked>>

ProbeFinishes ==
    /\ asked + 1 = NServes
    /\ asked' = 0
    /\ found' = {}
    /\ down' = FoundNext
    /\ last' = IF asked = 0 THEN Now ELSE cur
    /\ cur' = NothingKnown
    /\ UNCHANGED <<health, n, at, yielded, leaked>>

Next ==
    \/ \E u \in Serves : ServeChanges(u)
    \/ \E r \in Requests : \/ Starts(r) \/ StartsBadly(r) \/ Ends(r)
                           \/ Abandons(r) \/ GeneratorCloses(r)
    \/ ProbeAsks
    \/ ProbeFinishes

Spec == Init /\ [][Next]_vars

\* The supervisor probes again and again and every GET has a timeout; a read
\* timeout and the engine's token limit end every request; the event loop
\* closes the generators it was handed.
FairSpec ==
    /\ Spec
    /\ WF_vars(ProbeAsks \/ ProbeFinishes)
    /\ \A r \in Requests : WF_vars(Ends(r) \/ Abandons(r)) /\ WF_vars(GeneratorCloses(r))

-----------------------------------------------------------------------------
(* Properties.                                                             *)

\* However requests fail, are cancelled or are dropped at a yield, _n counts
\* the connections that are open to each serve, and nothing but the body that
\* cannot be built ever leaks a place.
CountIsExact == \A u \in Serves : n[u] = Cardinality(Open(u)) + leaked[u]

\* A serve that has been dead since before the last probe began is given no
\* request, if another one has answered all that time: a probe is stale by the
\* time it ends, but not about serves that did not change.
DeadIsAvoided ==
    [][\A r \in Requests :
          at[r] = None /\ at'[r] \in last.dead => last.alive = {}]_vars

\* "least-in-flight balanced across urls": a new request goes to a serve with
\* the fewest open connections of those that are not down.
LeastInFlight ==
    [][\A r \in Requests :
          at[r] = None /\ at'[r] # None =>
              \A w \in Pool : Cardinality(Open(at'[r])) <= Cardinality(Open(w))]_vars

\* A serve that has died for good while another one stays up is left in the end.
DeadIsLeft ==
    \A u, w \in Serves :
        <>[](health[u] = "dead" /\ health[w] = "ok") => <>[](Open(u) = {})

=============================================================================
