--------------------------- MODULE ServePoolProofs ---------------------------
(***************************************************************************)
(* Theorems about ServePool for any number of serves and requests.         *)
(***************************************************************************)
EXTENDS ServePool, FiniteSetTheorems, TLAPS

\* A set of naturals that is not empty has a least element.
LEMMA LeastIs ==
    ASSUME NEW I \in SUBSET Nat, I # {}
    PROVE  \E x \in I : \A y \in I : x <= y
<1>1. PICK x \in I : \A y \in I : ~(<<y, x>> \in OpToRel(<, Nat))
  BY WFMin, NatLessThanWellFounded
<1>2. \A y \in I : x <= y
  <2> SUFFICES ASSUME NEW y \in I, y < x PROVE FALSE
    OBVIOUS
  <2>1. <<y, x>> \in {ss \in Nat \X Nat : ss[1] < ss[2]}
    OBVIOUS
  <2>2. OpToRel(<, Nat) = {ss \in Nat \X Nat : ss[1] < ss[2]}
    BY Zenon DEF OpToRel
  <2> QED BY <2>1, <2>2, <1>1
<1> QED BY <1>2

\* There is always a serve to pick, and it is in the pool.
LEMMA PickIs ==
    ASSUME n \in [Serves -> Nat], down \in SUBSET Serves
    PROVE  Pick \in Pool /\ Pool \in SUBSET Serves
<1>1. Pool # {} /\ Pool \in SUBSET Serves
  BY ServePoolAssumption DEF Pool, Serves
<1> DEFINE V == {n[u] : u \in Pool}
<1>2. V # {} /\ V \in SUBSET Nat
  BY <1>1
<1>3. PICK v \in V : \A w \in V : v <= w
  <2> HIDE DEF V
  <2> QED BY <1>2, LeastIs
<1> DEFINE W == {u \in Pool : n[u] = v}
<1>4. W # {} /\ W \in SUBSET Nat
  <2>1. PICK u \in Pool : n[u] = v
    OBVIOUS
  <2>2. Serves \in SUBSET Nat
    BY ServePoolAssumption DEF Serves
  <2> QED BY <1>1, <2>1, <2>2
<1>5. PICK u \in W : \A w \in W : u <= w
  <2> HIDE DEF W
  <2> QED BY <1>4, LeastIs
<1>6. \A w \in Pool : n[u] <= n[w]
  <2> SUFFICES ASSUME NEW w \in Pool PROVE n[u] <= n[w]
    OBVIOUS
  <2>1. n[w] \in V /\ n[u] = v
    OBVIOUS
  <2> QED BY <2>1, <1>3
<1>7. \A w \in Pool : n[w] = n[u] => u <= w
  BY <1>5
<1>8. u \in Pool
  OBVIOUS
<1> HIDE DEF V, W
<1>9. \E x \in Pool : /\ \A w \in Pool : n[x] <= n[w]
                      /\ \A w \in Pool : n[w] = n[x] => x <= w
  BY <1>6, <1>7, <1>8
<1>10. Pick \in Pool
  BY <1>9 DEF Pick
<1> QED BY <1>1, <1>10

-----------------------------------------------------------------------------
(* The count.                                                              *)

\* What the steps of requests rely on.
CountInv ==
    /\ TypeOK
    /\ CountIsExact
    /\ \A r \in yielded : at[r] # None

\* The parts of it that the steps use.
LEMMA CountFacts ==
    ASSUME TypeOK, CountIsExact
    PROVE  /\ n \in [Serves -> Nat] /\ leaked \in [Serves -> Nat]
           /\ down \in SUBSET Serves /\ None \notin Serves
           /\ at \in [Requests -> Serves \cup {None}]
           /\ \A u \in Serves : IsFiniteSet(Open(u))
           /\ \A u \in Serves : Cardinality(Open(u)) \in Nat
           /\ \A u \in Serves : n[u] = Cardinality(Open(u)) + leaked[u]
<1>1. Cardinality(Requests) \in Nat
  BY ServePoolAssumption, FS_CardinalityType
<1>2. \A u : Open(u) \in SUBSET Requests
  BY DEF Open
<1>3. \A u \in Serves : IsFiniteSet(Open(u))
  BY <1>2, ServePoolAssumption, FS_Subset
<1>4. \A u \in Serves : Cardinality(Open(u)) \in Nat
  BY <1>3, FS_CardinalityType
<1>5. n \in [Serves -> Nat] /\ leaked \in [Serves -> Nat]
  BY <1>1, ServePoolAssumption DEF TypeOK
<1> QED BY <1>3, <1>4, <1>5 DEF TypeOK, CountIsExact, Serves, None

\* A connection is opened and counted.
LEMMA CountTaken ==
    ASSUME TypeOK, CountIsExact, NEW r \in Requests, at[r] = None,
           NEW u \in Serves, n' = [n EXCEPT ![u] = @ + 1],
           at' = [at EXCEPT ![r] = u], UNCHANGED leaked
    PROVE  CountIsExact'
<1>1. Open(u)' = Open(u) \cup {r} /\ r \notin Open(u)
  BY CountFacts DEF Open
<1>2. \A s \in Serves \ {u} : Open(s)' = Open(s)
  BY CountFacts DEF Open
<1>3. Cardinality(Open(u) \cup {r}) = Cardinality(Open(u)) + 1
  BY <1>1, CountFacts, FS_AddElement
<1>4. n'[u] = Cardinality(Open(u)') + leaked'[u]
  <2>1. n'[u] = n[u] + 1 /\ leaked[u] \in Nat
    BY CountFacts
  <2>2. n[u] = Cardinality(Open(u)) + leaked[u] /\ Cardinality(Open(u)) \in Nat
    BY CountFacts
  <2> QED BY <1>1, <1>3, <2>1, <2>2
<1>5. \A s \in Serves \ {u} : n'[s] = Cardinality(Open(s)') + leaked'[s]
  BY <1>2, CountFacts
<1>6. \A s \in Serves : n'[s] = Cardinality(Open(s)') + leaked'[s]
  BY <1>4, <1>5
<1> QED BY <1>6 DEF CountIsExact, Open

\* A connection is closed and its place released.
LEMMA CountReleased ==
    ASSUME TypeOK, CountIsExact, NEW r \in Requests, at[r] # None,
           Release(at[r]), at' = [at EXCEPT ![r] = None], UNCHANGED leaked
    PROVE  CountIsExact'
<1>1. PICK u \in Serves : u = at[r]
  BY CountFacts
<1>2. Open(u)' = Open(u) \ {r} /\ r \in Open(u)
  BY <1>1, CountFacts DEF Open
<1>3. \A s \in Serves \ {u} : Open(s)' = Open(s)
  BY <1>1, CountFacts DEF Open
<1>4. Cardinality(Open(u) \ {r}) = Cardinality(Open(u)) - 1
      /\ Cardinality(Open(u)) # 0
  BY <1>2, CountFacts, FS_RemoveElement, FS_EmptySet
<1>5. n'[u] = Cardinality(Open(u)') + leaked'[u]
  <2>1. leaked[u] \in Nat /\ Cardinality(Open(u)) \in Nat
        /\ n[u] = Cardinality(Open(u)) + leaked[u]
    BY CountFacts
  <2>2. n[u] # 0
    BY <1>4, <2>1
  <2>3. n'[u] = n[u] - 1
    BY <1>1, <2>2, CountFacts DEF Release
  <2> QED BY <1>2, <1>4, <2>1, <2>3
<1>6. \A s \in Serves \ {u} : n'[s] = Cardinality(Open(s)') + leaked'[s]
  BY <1>1, <1>3, CountFacts DEF Release
<1>7. \A s \in Serves : n'[s] = Cardinality(Open(s)') + leaked'[s]
  BY <1>5, <1>6
<1> QED BY <1>7 DEF CountIsExact, Open

\* Every step keeps the count exact.
LEMMA CountStep ==
    ASSUME CountInv, [Next]_vars
    PROVE  CountIsExact' /\ (\A r \in yielded : at[r] # None)'
<1> USE DEF CountInv
<1>1. ASSUME UNCHANGED <<n, at, leaked, yielded>>
      PROVE  CountIsExact' /\ (\A r \in yielded : at[r] # None)'
  BY <1>1 DEF CountIsExact, Open
<1>2. Pick \in Serves
  BY PickIs, CountFacts
<1>3. ASSUME NEW r \in Requests, Starts(r)
      PROVE  CountIsExact' /\ (\A q \in yielded : at[q] # None)'
  <2>1. CountIsExact'
    BY <1>2, <1>3, CountTaken DEF Starts
  <2>2. (\A q \in yielded : at[q] # None)'
    BY <1>2, <1>3, CountFacts DEF Starts
  <2> QED BY <2>1, <2>2
<1>4. ASSUME NEW r \in Requests, StartsBadly(r)
      PROVE  CountIsExact' /\ (\A q \in yielded : at[q] # None)'
  <2>1. PICK u \in Serves : /\ n' = [n EXCEPT ![u] = @ + 1]
                            /\ leaked' = [leaked EXCEPT ![u] = @ + 1]
                            /\ UNCHANGED <<at, yielded>>
    BY <1>2, <1>4 DEF StartsBadly
  <2>2. \A s \in Serves : Open(s)' = Open(s)
    BY <2>1 DEF Open
  <2>3. \A s \in Serves : n'[s] = Cardinality(Open(s)) + leaked'[s]
    BY <2>1, CountFacts
  <2>4. CountIsExact'
    BY <2>2, <2>3 DEF CountIsExact
  <2> QED BY <2>1, <2>4
<1>5. ASSUME NEW r \in Requests, Ends(r)
      PROVE  CountIsExact' /\ (\A q \in yielded : at[q] # None)'
  <2>1. CountIsExact'
    BY <1>5, CountReleased DEF Ends
  <2>2. (\A q \in yielded : at[q] # None)'
    BY <1>5, CountFacts DEF Ends
  <2> QED BY <2>1, <2>2
<1>6. ASSUME NEW r \in Requests, Abandons(r)
      PROVE  CountIsExact' /\ (\A q \in yielded : at[q] # None)'
  <2>1. CountIsExact'
    BY <1>6 DEF Abandons, CountIsExact, Open
  <2>2. (\A q \in yielded : at[q] # None)'
    BY <1>6 DEF Abandons
  <2> QED BY <2>1, <2>2
<1>7. ASSUME NEW r \in Requests, GeneratorCloses(r)
      PROVE  CountIsExact' /\ (\A q \in yielded : at[q] # None)'
  <2>1. CountIsExact'
    BY <1>7, CountReleased DEF GeneratorCloses
  <2>2. (\A q \in yielded : at[q] # None)'
    BY <1>7, CountFacts DEF GeneratorCloses
  <2> QED BY <2>1, <2>2
<1> QED
  BY <1>1, <1>3, <1>4, <1>5, <1>6, <1>7
     DEF Next, ServeChanges, ProbeAsks, ProbeFinishes, vars

\* What is known of serves stays typed.
LEMMA KnownType ==
    /\ NothingKnown \in Steady
    /\ Now \in Steady
    /\ \A h \in Steady : \A u, dead : Forgets(h, u, dead) \in Steady
BY DEF NothingKnown, Steady, Now, Dead, Forgets

\* Every variable keeps its type.
LEMMA TypeStep ==
    ASSUME CountInv, CountIsExact', [Next]_vars
    PROVE  TypeOK'
<1> USE DEF CountInv
<1>1. Pick \in Serves
  BY PickIs, CountFacts
<1>2. ASSUME leaked' \in [Serves -> 0..MaxLeaks], n' \in [Serves -> Int]
      PROVE  n' \in [Serves -> 0..(Cardinality(Requests) + MaxLeaks)]
  <2> SUFFICES ASSUME NEW u \in Serves
               PROVE  n'[u] \in 0..(Cardinality(Requests) + MaxLeaks)
    BY <1>2
  <2>1. Open(u)' \in SUBSET Requests
    BY DEF Open
  <2>2. IsFiniteSet(Open(u)') /\ Cardinality(Open(u)') <= Cardinality(Requests)
    BY <2>1, ServePoolAssumption, FS_Subset
  <2>3. Cardinality(Open(u)') \in Nat /\ Cardinality(Requests) \in Nat
    BY <2>2, ServePoolAssumption, FS_CardinalityType
  <2>4. leaked'[u] \in 0..MaxLeaks /\ n'[u] = Cardinality(Open(u)') + leaked'[u]
    BY <1>2 DEF CountIsExact
  <2> QED BY <2>2, <2>3, <2>4, ServePoolAssumption
<1>3. leaked' \in [Serves -> 0..MaxLeaks]
  <2>1. leaked \in [Serves -> 0..MaxLeaks] /\ MaxLeaks \in Nat
    BY ServePoolAssumption DEF TypeOK
  <2>2. ASSUME NEW r \in Requests, StartsBadly(r)
        PROVE  leaked' \in [Serves -> 0..MaxLeaks]
    <3>1. leaked[Pick] + 1 \in 0..MaxLeaks
      BY <1>1, <2>1, <2>2 DEF StartsBadly
    <3> QED BY <2>1, <2>2, <3>1 DEF StartsBadly
  <2> QED
    BY <2>1, <2>2
       DEF Next, ServeChanges, Starts, Ends, Abandons, GeneratorCloses,
           ProbeAsks, ProbeFinishes, vars
<1>4. n' \in [Serves -> Int]
  <2>1. n \in [Serves -> Int]
    BY CountFacts
  <2> QED
    BY <2>1
       DEF Next, ServeChanges, Starts, StartsBadly, Ends, Abandons,
           GeneratorCloses, Release, ProbeAsks, ProbeFinishes, vars
<1>5. n' \in [Serves -> 0..(Cardinality(Requests) + MaxLeaks)]
  BY <1>2, <1>3, <1>4
<1>6. ASSUME NEW u \in Serves, ServeChanges(u) PROVE TypeOK'
  BY <1>5, <1>6, KnownType DEF ServeChanges, TypeOK
<1>7. ASSUME NEW r \in Requests, Starts(r) PROVE TypeOK'
  BY <1>1, <1>5, <1>7 DEF Starts, TypeOK
<1>8. ASSUME NEW r \in Requests, StartsBadly(r) PROVE TypeOK'
  BY <1>3, <1>5, <1>8 DEF StartsBadly, TypeOK
<1>9. ASSUME NEW r \in Requests, Ends(r) \/ Abandons(r) \/ GeneratorCloses(r)
      PROVE  TypeOK'
  BY <1>5, <1>9 DEF Ends, Abandons, GeneratorCloses, TypeOK
<1>10. ASSUME ProbeAsks PROVE TypeOK'
  <2>1. asked + 1 \in Serves /\ asked' \in 0..NServes
    BY <1>10, ServePoolAssumption DEF ProbeAsks, TypeOK, Serves
  <2> QED BY <1>5, <1>10, <2>1, KnownType DEF ProbeAsks, FoundNext, TypeOK
<1>11. ASSUME ProbeFinishes PROVE TypeOK'
  <2>1. asked + 1 \in Serves /\ 0 \in 0..NServes
    BY <1>11, ServePoolAssumption DEF ProbeFinishes, TypeOK, Serves
  <2> QED BY <1>5, <1>11, <2>1, KnownType DEF ProbeFinishes, FoundNext, TypeOK
<1>12. ASSUME UNCHANGED vars PROVE TypeOK'
  BY <1>12 DEF vars, TypeOK
<1> QED BY <1>6, <1>7, <1>8, <1>9, <1>10, <1>11, <1>12 DEF Next

\* All of it holds at first.
LEMMA CountInit == Init => CountInv
<1> SUFFICES ASSUME Init PROVE CountInv
  OBVIOUS
<1>1. \A u \in Serves : Open(u) = {}
  BY DEF Init, Open, Serves, None
<1>2. CountIsExact
  BY <1>1, FS_EmptySet DEF Init, CountIsExact
<1>3. Cardinality(Requests) \in Nat /\ MaxLeaks \in Nat /\ NServes \in Nat
  BY ServePoolAssumption, FS_CardinalityType
<1>4. TypeOK
  BY <1>3, KnownType DEF Init, TypeOK
<1> QED BY <1>2, <1>4 DEF CountInv, Init

\* And always.
LEMMA CountKept == Spec => []CountInv
<1>1. CountInv /\ [Next]_vars => CountInv'
  BY CountStep, TypeStep DEF CountInv
<1> QED BY <1>1, CountInit, PTL DEF Spec

\* Type correctness; a count never falls below zero nor exceeds the requests
\* there are and the places leaked.
THEOREM TypeCorrect == Spec => []TypeOK
<1>1. CountInv => TypeOK
  BY DEF CountInv
<1> QED BY <1>1, CountKept, PTL

\* However requests end, a serve's count is that of its open connections.
THEOREM CountExact == Spec => []CountIsExact
<1>1. CountInv => CountIsExact
  BY DEF CountInv
<1> QED BY <1>1, CountKept, PTL

-----------------------------------------------------------------------------
(* What a probe knows, although serves change while it asks.               *)

\* A serve that has not changed since the probe began is found as it is, and
\* routed around, or to, from the moment the probe ends.
KnownInv ==
    /\ asked = 0 => found = {} /\ cur = NothingKnown
    /\ cur.dead \cap (1..asked) \subseteq found
    /\ cur.alive \cap found = {}
    /\ \A u \in cur.dead : health[u] = "dead"
    /\ \A u \in cur.alive : health[u] # "dead"
    /\ last.dead \subseteq down
    /\ last.alive \cap down = {}

\* Every step keeps that.
LEMMA KnownStep ==
    ASSUME TypeOK, KnownInv, [Next]_vars
    PROVE  KnownInv'
<1>1. /\ cur \in Steady /\ last \in Steady /\ asked \in 0..NServes
      /\ health \in [Serves -> {"ok", "dead", "timeout"}]
  BY DEF TypeOK
<1>2. ASSUME NEW u \in Serves, ServeChanges(u) PROVE KnownInv'
  <2>1. \A h \in Steady : \A dead :
           /\ dead => Forgets(h, u, dead).dead = h.dead
                      /\ Forgets(h, u, dead).alive = h.alive \ {u}
           /\ ~dead => Forgets(h, u, dead).alive = h.alive
                      /\ Forgets(h, u, dead).dead = h.dead \ {u}
    BY DEF Steady, Forgets
  <2>2. \A dead : Forgets(NothingKnown, u, dead) = NothingKnown
    BY DEF Forgets, NothingKnown
  <2>3. asked = 0 => cur' = NothingKnown
    BY <1>2, <2>2 DEF KnownInv, ServeChanges
  <2>5. PICK s \in {"ok", "dead", "timeout"} :
           /\ health' = [health EXCEPT ![u] = s]
           /\ cur' = Forgets(cur, u, s = "dead")
           /\ last' = Forgets(last, u, s = "dead")
           /\ UNCHANGED <<down, asked, found>>
    BY <1>2 DEF ServeChanges
  <2>6. health'[u] = s /\ \A w \in Serves \ {u} : health'[w] = health[w]
    BY <1>1, <2>5
  <2>7. cur.dead \subseteq Serves /\ cur.alive \subseteq Serves
    BY <1>1 DEF Steady
  <2>8. CASE s = "dead"
    <3>1. /\ cur'.dead = cur.dead /\ cur'.alive = cur.alive \ {u}
          /\ last'.dead = last.dead /\ last'.alive = last.alive \ {u}
      BY <1>1, <2>1, <2>5, <2>8
    <3> QED BY <2>3, <2>5, <2>6, <2>7, <2>8, <3>1 DEF KnownInv
  <2>9. CASE s # "dead"
    <3>1. /\ cur'.alive = cur.alive /\ cur'.dead = cur.dead \ {u}
          /\ last'.alive = last.alive /\ last'.dead = last.dead \ {u}
      BY <1>1, <2>1, <2>5, <2>9
    <3> QED BY <2>3, <2>5, <2>6, <2>7, <2>9, <3>1 DEF KnownInv
  <2> QED BY <2>8, <2>9
<1>3. Now.dead = Dead /\ Now.alive = Serves \ Dead
  BY DEF Now
<1>4. ASSUME ProbeAsks PROVE KnownInv'
  <2>1. asked' = asked + 1 /\ asked + 1 \in Serves /\ asked' # 0
    BY <1>1, <1>4, ServePoolAssumption DEF ProbeAsks, Serves
  <2>2. CASE asked = 0
    <3>1. cur' = Now /\ found' = FoundNext /\ found = {} /\ 1..asked' = {1}
      BY <1>4, <2>1, <2>2 DEF ProbeAsks, KnownInv
    <3> QED BY <1>3, <1>4, <2>1, <2>2, <3>1
            DEF ProbeAsks, KnownInv, FoundNext, Dead
  <2>3. CASE asked # 0
    <3>1. cur' = cur /\ found' = FoundNext
      BY <1>4, <2>3 DEF ProbeAsks
    <3>2. 1..asked' = (1..asked) \cup {asked + 1}
      BY <1>1, <2>1
    <3> QED BY <1>4, <2>1, <3>1, <3>2 DEF ProbeAsks, KnownInv, FoundNext
  <2> QED BY <2>2, <2>3
<1>5. ASSUME ProbeFinishes PROVE KnownInv'
  <2>1. asked + 1 = NServes /\ down' = FoundNext /\ Serves = (1..asked) \cup {asked + 1}
    BY <1>1, <1>5, ServePoolAssumption DEF ProbeFinishes, Serves
  <2>2. last'.dead \subseteq down' /\ last'.alive \cap down' = {}
    <3>1. CASE asked = 0
      <4>1. last' = Now /\ found = {} /\ Serves = {asked + 1}
        BY <1>5, <2>1, <3>1 DEF ProbeFinishes, KnownInv
      <4> QED BY <1>3, <2>1, <4>1 DEF FoundNext, Dead
    <3>2. CASE asked # 0
      <4>1. last' = cur /\ cur.dead \subseteq Serves
        BY <1>1, <1>5, <3>2 DEF ProbeFinishes, Steady
      <4> QED BY <2>1, <4>1 DEF FoundNext, KnownInv
    <3> QED BY <3>1, <3>2
  <2>3. cur' = NothingKnown /\ found' = {} /\ asked' = 0
    BY <1>5 DEF ProbeFinishes
  <2> QED BY <2>2, <2>3 DEF KnownInv, NothingKnown
<1>6. ASSUME UNCHANGED <<health, down, asked, found, cur, last>>
      PROVE  KnownInv'
  BY <1>6 DEF KnownInv
<1> QED
  BY <1>2, <1>4, <1>5, <1>6
     DEF Next, Starts, StartsBadly, Ends, Abandons, GeneratorCloses, vars

\* No request is sent to a serve that has been dead since before the last
\* probe began, while another has answered all that time.
THEOREM DeadAvoided == Spec => DeadIsAvoided
<1> DEFINE Avoids ==
        \A r \in Requests :
            at[r] = None /\ at'[r] \in last.dead => last.alive = {}
<1>1. Init => KnownInv
  BY DEF Init, KnownInv, NothingKnown
<1>2. CountInv /\ KnownInv /\ [Next]_vars => KnownInv'
  BY KnownStep DEF CountInv
<1>3. CountInv /\ KnownInv /\ [Next]_vars => [Avoids]_vars
  <2> SUFFICES ASSUME CountInv, KnownInv, [Next]_vars, NEW r \in Requests,
                      at[r] = None, at'[r] \in last.dead, last.alive # {}
               PROVE  FALSE
    OBVIOUS
  <2>1. /\ n \in [Serves -> Nat] /\ down \in SUBSET Serves
        /\ at \in [Requests -> Serves \cup {None}] /\ None \notin Serves
    BY CountFacts DEF CountInv
  <2>2. last \in Steady
    BY DEF CountInv, TypeOK
  <2>3. at'[r] \in Serves
    BY <2>2 DEF Steady
  <2>4. PICK q \in Requests : Starts(q)
    BY <2>1, <2>3
       DEF Next, ServeChanges, StartsBadly, Ends, Abandons, GeneratorCloses,
           ProbeAsks, ProbeFinishes, vars
  <2>5. at'[r] = Pick
    BY <2>1, <2>3, <2>4 DEF Starts
  <2>6. Pick \in Pool
    BY <2>1, PickIs
  <2>7. Pick \in down
    BY <2>5 DEF KnownInv
  <2>8. Serves \subseteq down
    BY <2>6, <2>7 DEF Pool
  <2> QED BY <2>2, <2>8 DEF KnownInv, Steady
<1> QED BY <1>1, <1>2, <1>3, CountKept, PTL DEF Spec, DeadIsAvoided

=============================================================================
