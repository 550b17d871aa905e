---------------------------- MODULE DoorsProofs ----------------------------
(***************************************************************************)
(* Theorems about Doors for any doors, legs and benches.                   *)
(***************************************************************************)
EXTENDS Doors, SequenceTheorems, WellFoundedInduction, TLAPS

\* A set of naturals that is not empty has a least element.
LEMMA MinIs ==
    ASSUME NEW I \in SUBSET Nat, I # {}
    PROVE  Min(I) \in I /\ \A j \in I : Min(I) <= j
<1>1. PICK x \in I : \A y \in I : ~(<<y, x>> \in OpToRel(<, Nat))
  BY WFMin, NatLessThanWellFounded
<1>2. \A y \in I : x <= y
  <2> SUFFICES ASSUME NEW y \in I, y < x PROVE FALSE
    OBVIOUS
  <2>1. <<y, x>> \in {ss \in Nat \X Nat : ss[1] < ss[2]}
    OBVIOUS
  <2>2. OpToRel(<, Nat) = {ss \in Nat \X Nat : ss[1] < ss[2]}
    BY Zenon DEF OpToRel
  <2> QED BY <2>1, <2>2, <1>1
<1> QED BY <1>2 DEF Min

\* The doors are two lists.
LEMMA DoorLists == Primaries \in Seq(All) \ {<< >>} /\ Backups \in Seq(All)
BY DoorsAssumption

\* The order of a home: the primaries, each of them, and then the backups.
LEMMA OrderIs ==
    ASSUME NEW h \in Range(Primaries)
    PROVE  /\ Order(h) \in Seq(All)
           /\ Len(Order(h)) = Len(Primaries) + Len(Backups)
           /\ \A j \in 1..Len(Primaries) : Order(h)[j] \in Range(Primaries)
           /\ \A d \in Range(Primaries) :
                 \E j \in 1..Len(Primaries) : Order(h)[j] = d
           /\ \A d \in All : \E j \in 1..Len(Order(h)) : Order(h)[j] = d
<1> DEFINE p == Len(Primaries)
           I == {i \in 1..Len(Primaries) : Primaries[i] = h}
           m == Min(I)
           back == SubSeq(Primaries, m, Len(Primaries))
           front == SubSeq(Primaries, 1, m - 1)
           P == Range(Primaries)
<1>1. /\ Primaries \in Seq(P) /\ p \in Nat \ {0}
      /\ \A i \in 1..p : Primaries[i] \in P
      /\ \A d \in P : \E i \in 1..p : Primaries[i] = d
  BY DoorLists, SeqOfRange, RangeEquality, EmptySeq
<1>2. /\ Backups \in Seq(All) /\ Len(Backups) \in Nat
      /\ \A d \in Range(Backups) : \E i \in 1..Len(Backups) : Backups[i] = d
  BY DoorsAssumption, RangeEquality
<1>3. m \in 1..p
  <2>1. PICK i \in 1..p : Primaries[i] = h
    BY <1>1
  <2>2. i \in I
    BY <2>1
  <2>3. \A j \in I : j \in 1..p /\ j \in Nat
    BY <1>1
  <2> HIDE DEF I
  <2> QED BY <2>2, <2>3, MinIs
<1>4. Order(h) = (back \o front) \o Backups
  BY <1>1, <1>3 DEF Order, SelectInSeq
<1> HIDE DEF m, I
<1>5. /\ back \in Seq(P) /\ Len(back) = p - m + 1
      /\ \A i \in 1..(p - m + 1) : back[i] = Primaries[m + i - 1]
  <2>1. \A i \in m..p : Primaries[i] \in P
    BY <1>1, <1>3
  <2>2. m \in Int /\ p \in Int /\ m <= p
    BY <1>1, <1>3
  <2> QED BY <2>1, <2>2, SubSeqProperties
<1>6. /\ front \in Seq(P) /\ Len(front) = m - 1
      /\ \A i \in 1..(m - 1) : front[i] = Primaries[i]
  <2>1. \A i \in 1..(m - 1) : Primaries[i] \in P
    BY <1>1, <1>3
  <2>2. m - 1 \in Int /\ 1 \in Int
    BY <1>3
  <2>3. /\ front \in Seq(P)
        /\ Len(front) = IF 1 <= m - 1 THEN m - 1 - 1 + 1 ELSE 0
        /\ \A i \in 1..(m - 1 - 1 + 1) : front[i] = Primaries[1 + i - 1]
    BY <2>1, <2>2, SubSeqProperties
  <2> QED BY <2>3, <1>3
<1> HIDE DEF back, front, P, p
<1> DEFINE turned == back \o front
<1>7. /\ turned \in Seq(P) /\ Len(turned) = p
      /\ \A i \in 1..p : turned[i] =
            IF i <= p - m + 1 THEN back[i] ELSE front[i - (p - m + 1)]
  <2>1. Len(back) + Len(front) = p
    BY <1>1, <1>3, <1>5, <1>6
  <2>2. /\ turned \in Seq(P) /\ Len(turned) = Len(back) + Len(front)
        /\ \A i \in 1..(Len(back) + Len(front)) : turned[i] =
              IF i <= Len(back) THEN back[i] ELSE front[i - Len(back)]
    BY <1>5, <1>6, ConcatProperties
  <2> QED BY <2>1, <2>2, <1>5
<1>8. \A d \in P : \E j \in 1..p : turned[j] = d
  <2> SUFFICES ASSUME NEW d \in P PROVE \E j \in 1..p : turned[j] = d
    OBVIOUS
  <2>1. PICK i \in 1..p : Primaries[i] = d
    BY <1>1
  <2>2. CASE i >= m
    <3>1. i - m + 1 \in 1..(p - m + 1) /\ i - m + 1 \in 1..p
      BY <2>2, <1>1, <1>3
    <3>2. turned[i - m + 1] = Primaries[m + (i - m + 1) - 1]
      BY <3>1, <1>5, <1>7, <1>1, <1>3
    <3>3. m + (i - m + 1) - 1 = i
      BY <1>3
    <3> QED BY <3>1, <3>2, <3>3, <2>1
  <2>3. CASE i < m
    <3>1. i + (p - m + 1) \in 1..p /\ i \in 1..(m - 1)
      BY <2>3, <1>1, <1>3
    <3>2. ~(i + (p - m + 1) <= p - m + 1) /\ i + (p - m + 1) - (p - m + 1) = i
      BY <3>1, <1>1, <1>3
    <3> DEFINE k == i + (p - m + 1)
    <3>3. k \in 1..p /\ ~(k <= p - m + 1) /\ k - (p - m + 1) = i
      BY <3>1, <3>2, <1>1, <1>3
    <3> HIDE DEF k
    <3>4. turned[k] = front[i]
      BY <3>3, <1>7
    <3>5. turned[k] = d
      BY <3>1, <3>4, <1>6, <2>1
    <3> QED BY <3>3, <3>5
  <2>4. i >= m \/ i < m
    BY <1>1, <1>3
  <2> QED BY <2>2, <2>3, <2>4
<1>9. \A i \in 1..p : turned[i] \in P
  BY <1>7
<1> HIDE DEF turned
<1>10. P \subseteq All
  BY DEF All, P
<1>11. turned \in Seq(All)
  BY <1>7, <1>10
<1>12. /\ Order(h) \in Seq(All) /\ Len(Order(h)) = p + Len(Backups)
       /\ \A j \in 1..(p + Len(Backups)) : Order(h)[j] =
             IF j <= p THEN turned[j] ELSE Backups[j - p]
  BY <1>2, <1>4, <1>7, <1>11, ConcatProperties DEF turned
<1>13. \A j \in 1..p : Order(h)[j] = turned[j]
  BY <1>1, <1>2, <1>12
<1>14. \A d \in Range(Backups) : \E j \in 1..Len(Order(h)) : Order(h)[j] = d
  <2> SUFFICES ASSUME NEW d \in Range(Backups)
               PROVE  \E j \in 1..Len(Order(h)) : Order(h)[j] = d
    OBVIOUS
  <2>1. PICK i \in 1..Len(Backups) : Backups[i] = d
    BY <1>2
  <2>2. i + p \in 1..(p + Len(Backups)) /\ ~(i + p <= p) /\ i + p - p = i
    BY <1>1, <1>2
  <2> DEFINE k == i + p
  <2>3. k \in 1..(p + Len(Backups)) /\ ~(k <= p) /\ k - p = i
    BY <2>2, <1>1, <1>2
  <2> HIDE DEF k
  <2>4. Order(h)[k] = Backups[i] /\ k \in 1..Len(Order(h))
    BY <2>3, <1>12
  <2> QED BY <2>1, <2>4
<1>15. \A d \in P : \E j \in 1..Len(Order(h)) : Order(h)[j] = d
  <2>1. \A j \in 1..p : j \in 1..Len(Order(h))
    BY <1>1, <1>2, <1>12
  <2> QED BY <2>1, <1>8, <1>13
<1> QED BY <1>8, <1>9, <1>12, <1>13, <1>14, <1>15 DEF All, P, p

\* No door is both.
LEMMA DoorsApart == Range(Primaries) \cap Range(Backups) = {}
<1> SUFFICES ASSUME NEW d \in Range(Primaries), d \in Range(Backups)
             PROVE  FALSE
  OBVIOUS
<1> DEFINE p == Len(Primaries)
           b == Len(Backups)
           both == Primaries \o Backups
<1>1. p \in Nat /\ b \in Nat
  BY DoorsAssumption
<1>2. PICK i \in 1..p : Primaries[i] = d
  BY DoorsAssumption, RangeEquality
<1>3. PICK j \in 1..b : Backups[j] = d
  BY DoorsAssumption, RangeEquality
<1>4. /\ both \in Seq(All) /\ Len(both) = p + b
      /\ \A k \in 1..(p + b) : both[k] =
            IF k <= p THEN Primaries[k] ELSE Backups[k - p]
  BY DoorsAssumption, ConcatProperties
<1>5. DOMAIN both = 1..(p + b)
  BY <1>4
<1>6. IsInjective(both)
  BY DoorsAssumption
<1> HIDE DEF both, p, b
<1>7. i \in 1..(p + b) /\ i <= p
  BY <1>1, <1>2
<1> DEFINE k == p + j
<1>8. k \in 1..(p + b) /\ ~(k <= p) /\ k - p = j /\ k # i
  BY <1>1, <1>2, <1>3
<1> HIDE DEF k
<1>9. both[i] = d
  BY <1>2, <1>4, <1>7
<1>10. both[k] = d
  BY <1>3, <1>4, <1>8
<1> QED BY <1>5, <1>6, <1>7, <1>8, <1>9, <1>10 DEF IsInjective

\* What pick returns is a door, and a backup only when all primaries are
\* benched.
LEMMA PickIs ==
    ASSUME NEW h \in Range(Primaries), left \in [All -> Nat]
    PROVE  /\ pick(h) \in All
           /\ pick(h) \in Range(Backups)
                 => \A d \in Range(Primaries) : benched(d)
<1> DEFINE o == Order(h)
           n == Len(Order(h))
           p == Len(Primaries)
           F == {j \in 1..Len(Order(h)) : ~benched(Order(h)[j])}
           N == {j \in 1..Len(Order(h)) :
                    \A e \in All : left[Order(h)[j]] <= left[e]}
           free == IF F # {} THEN Min(F) ELSE 0
           soon == IF N # {} THEN Min(N) ELSE 0
<1>1. pick(h) = o[IF free # 0 THEN free ELSE soon]
  BY DEF pick, SelectInSeq
<1>2. /\ o \in Seq(All) /\ n \in Nat /\ p \in Nat /\ p <= n
      /\ \A j \in 1..p : o[j] \in Range(Primaries)
      /\ \A d \in Range(Primaries) : \E j \in 1..p : o[j] = d
      /\ \A d \in All : \E j \in 1..n : o[j] = d
  <2>1. p \in Nat /\ Len(Backups) \in Nat
    BY DoorsAssumption
  <2>2. /\ o \in Seq(All) /\ n = p + Len(Backups)
        /\ \A j \in 1..p : o[j] \in Range(Primaries)
        /\ \A d \in Range(Primaries) : \E j \in 1..p : o[j] = d
        /\ \A d \in All : \E j \in 1..n : o[j] = d
    BY OrderIs
  <2> HIDE DEF o, n, p
  <2> QED BY <2>1, <2>2
<1>3. \A j \in 1..n : o[j] \in All
  BY <1>2
<1>4. F \in SUBSET Nat /\ N \in SUBSET Nat /\ F \subseteq 1..n /\ N \subseteq 1..n
  <2>1. \A j \in 1..n : j \in Nat
    BY <1>2
  <2> QED BY <2>1
<1>5. N # {}
  <2> DEFINE V == {left[e] : e \in All}
  <2>1. h \in All
    BY DEF All
  <2>2. V # {} /\ V \in SUBSET Nat
    BY <2>1
  <2>3. PICK v \in V : \A w \in V : v <= w
    BY <2>2, MinIs
  <2>4. PICK e \in All : v = left[e]
    OBVIOUS
  <2>5. PICK j \in 1..n : o[j] = e
    BY <1>2
  <2>6. \A d \in All : left[d] \in V
    OBVIOUS
  <2>7. \A d \in All : left[o[j]] <= left[d]
    BY <2>3, <2>4, <2>5, <2>6
  <2> QED BY <2>7
<1>6. soon \in 1..n
  <2> HIDE DEF N
  <2> QED BY <1>4, <1>5, MinIs
<1>7. CASE F # {}
  <2> HIDE DEF F
  <2>1. Min(F) \in F /\ \A j \in F : Min(F) <= j
    BY <1>4, <1>7, MinIs
  <2>2. Min(F) \in 1..n
    BY <2>1, <1>4
  <2>3. free = Min(F) /\ free # 0
    BY <1>7, <2>2
  <2>4. pick(h) = o[Min(F)]
    BY <1>1, <2>3
  <2>5. pick(h) \in All
    BY <2>2, <2>4, <1>3
  <2>6. ASSUME NEW d \in Range(Primaries), ~benched(d)
        PROVE  pick(h) \notin Range(Backups)
    <3>1. PICK j \in 1..p : o[j] = d
      BY <1>2
    <3>2. j \in 1..n
      BY <1>2
    <3>3. j \in F
      BY <2>6, <3>1, <3>2 DEF F
    <3>4. Min(F) <= j
      BY <2>1, <3>3
    <3>5. Min(F) \in 1..p
      BY <2>2, <3>4, <1>2
    <3>6. pick(h) \in Range(Primaries)
      BY <2>4, <3>5, <1>2
    <3> QED BY <3>6, DoorsApart
  <2> QED BY <2>5, <2>6
<1>8. CASE F = {}
  <2>1. free = 0
    BY <1>8
  <2>2. pick(h) = o[soon]
    BY <1>1, <2>1
  <2>3. pick(h) \in All
    BY <2>2, <1>6, <1>3
  <2>4. ASSUME NEW d \in Range(Primaries) PROVE benched(d)
    <3>1. PICK j \in 1..p : o[j] = d
      BY <1>2
    <3>2. j \in 1..n
      BY <1>2
    <3>3. j \notin F
      BY <1>8
    <3> QED BY <3>1, <3>2, <3>3
  <2> QED BY <2>3, <2>4
<1> QED BY <1>7, <1>8

\* The legs' homes are primaries.
LEMMA HomesAre == Homes \subseteq [Legs -> Range(Primaries)]
<1> DEFINE n == Len(Slots)
<1>0. Slots # << >>
  <2>1. Len(Primaries) \in Nat \ {0}
    BY DoorLists, EmptySeq
  <2>2. Primaries[1] \in Range(Primaries)
    BY <2>1, DoorLists, RangeEquality
  <2>3. Range(Slots) = Range(Primaries) /\ Slots \in Seq(All)
    BY DoorsAssumption
  <2>4. \E k \in 1..Len(Slots) : Slots[k] = Primaries[1]
    BY <2>2, <2>3, RangeEquality
  <2> QED BY <2>4, EmptySeq
<1>1. n \in Nat \ {0} /\ \A k \in 1..n : Slots[k] \in Range(Primaries)
  <2>1. Slots \in Seq(All) /\ Range(Slots) = Range(Primaries)
    BY DoorsAssumption
  <2>2. n \in Nat \ {0}
    BY <1>0, <2>1, EmptySeq
  <2> QED BY <2>1, <2>2, RangeEquality
<1> HIDE DEF n
<1>2. \A i \in Legs : (i % n) + 1 \in 1..n
  BY <1>1, DoorsAssumption DEF Legs
<1>3. \A i \in Legs : Slots[(i % n) + 1] \in Range(Primaries)
  BY <1>1, <1>2
<1> QED BY <1>3 DEF Homes, n

\* A bench stays within its bounds.
LEMMA FailedType ==
    ASSUME TypeOK, NEW d \in All, failed(d)
    PROVE  /\ fails' \in [All -> 0..(OpenFails - 1)]
           /\ left' \in [All -> 0..BenchMaxS]
           /\ bench' \in [All -> BenchS..BenchMaxS]
<1>1. bench[d] \in BenchS..BenchMaxS /\ fails[d] \in 0..(OpenFails - 1)
  BY DEF TypeOK
<1>2. bench[d] \in 0..BenchMaxS /\ 0 \in 0..(OpenFails - 1)
  BY <1>1, DoorsAssumption
<1>3. (IF 2 * bench[d] < BenchMaxS THEN 2 * bench[d] ELSE BenchMaxS)
          \in BenchS..BenchMaxS
  BY <1>1, DoorsAssumption
<1>4. CASE benched(d)
  BY <1>4 DEF failed, doors, TypeOK
<1>5. CASE ~benched(d) /\ fails[d] + 1 < OpenFails
  <2>1. fails[d] + 1 \in 0..(OpenFails - 1)
    BY <1>1, <1>5, DoorsAssumption
  <2> QED BY <1>5, <2>1 DEF failed, TypeOK
<1>6. CASE ~benched(d) /\ ~(fails[d] + 1 < OpenFails)
  BY <1>2, <1>3, <1>6 DEF failed, TypeOK
<1> QED BY <1>4, <1>5, <1>6

\* Every variable keeps its type.
LEMMA TypeStep ==
    ASSUME TypeOK, [Next]_vars
    PROVE  TypeOK'
<1> USE DEF doors, legs
<1>1. ASSUME EdgeChanges PROVE TypeOK'
  BY <1>1 DEF EdgeChanges, TypeOK
<1>2. ASSUME Pass PROVE TypeOK'
  <2>1. left' \in [All -> 0..BenchMaxS]
    BY <1>2, DoorsAssumption DEF Pass, TypeOK
  <2>2. \A i \in Legs : at[i] # "open" => waited[i] + 1 \in 0..DialMax
    BY <1>2, DoorsAssumption DEF Pass, TypeOK
  <2>3. 0 \in 0..DialMax
    BY DoorsAssumption
  <2>4. waited' \in [Legs -> 0..DialMax]
    BY <1>2, <2>2, <2>3 DEF Pass
  <2> QED BY <1>2, <2>1, <2>4 DEF Pass, TypeOK
<1>3. ASSUME NEW i \in Legs, Dial(i) PROVE TypeOK'
  <2>1. left \in [All -> Nat]
    BY DoorsAssumption DEF TypeOK
  <2>2. home[i] \in Range(Primaries)
    BY DEF TypeOK
  <2>3. pick(home[i]) \in All
    BY <2>1, <2>2, PickIs
  <2> QED BY <1>3, <2>3 DEF Dial, TypeOK
<1>4. ASSUME NEW i \in Legs, Opens(i) PROVE TypeOK'
  <2>1. door[i] \in All
    BY DEF TypeOK
  <2>2. 0 \in 0..(OpenFails - 1) /\ BenchS \in BenchS..BenchMaxS
        /\ 0 \in 0..DialMax
    BY DoorsAssumption
  <2> QED BY <1>4, <2>1, <2>2 DEF Opens, opened, TypeOK
<1>5. ASSUME NEW i \in Legs, Fails(i) PROVE TypeOK'
  <2>1. door[i] \in All
    BY DEF TypeOK
  <2>2. /\ fails' \in [All -> 0..(OpenFails - 1)]
        /\ left' \in [All -> 0..BenchMaxS]
        /\ bench' \in [All -> BenchS..BenchMaxS]
    BY <1>5, <2>1, FailedType DEF Fails
  <2>3. 0 \in 0..DialMax
    BY DoorsAssumption
  <2> QED BY <1>5, <2>2, <2>3 DEF Fails, TypeOK
<1>6. ASSUME NEW i \in Legs, SessionEnds(i) PROVE TypeOK'
  BY <1>6 DEF SessionEnds, TypeOK
<1>7. ASSUME UNCHANGED vars PROVE TypeOK'
  BY <1>7 DEF vars, TypeOK
<1> QED BY <1>1, <1>2, <1>3, <1>4, <1>5, <1>6, <1>7 DEF Next, Leg

\* Every variable has its type at first.
LEMMA TypeInit == Init => TypeOK
<1> SUFFICES ASSUME Init PROVE TypeOK
  OBVIOUS
<1>1. home \in [Legs -> Range(Primaries)]
  BY HomesAre DEF Init
<1>2. door \in [Legs -> All]
  BY <1>1 DEF Init, All
<1>3. /\ 0 \in 0..(OpenFails - 1) /\ 0 \in 0..BenchMaxS
      /\ BenchS \in BenchS..BenchMaxS /\ 0 \in 0..DialMax
  BY DoorsAssumption
<1> QED BY <1>1, <1>2, <1>3 DEF Init, TypeOK

\* Type correctness of the doors: above all, a bench never outgrows its cap.
THEOREM TypeCorrect == Spec => []TypeOK
<1> QED BY TypeInit, TypeStep, PTL DEF Spec

\* A backup is only ever dialed when every primary is benched.
THEOREM BackupsComeLast == Spec => BackupIsLastResort
<1> DEFINE Comes ==
        \A i \in Legs :
            (at[i] = "pick" /\ at'[i] = "dial" /\ door'[i] \in Range(Backups))
                => \A d \in Range(Primaries) : benched(d)
<1>1. TypeOK /\ [Next]_vars => [Comes]_vars
  <2> SUFFICES ASSUME TypeOK, [Next]_vars, NEW i \in Legs, at[i] = "pick",
                      at'[i] = "dial", door'[i] \in Range(Backups)
               PROVE  \A d \in Range(Primaries) : benched(d)
    OBVIOUS
  <2> USE DEF doors, legs, TypeOK
  <2>1. Dial(i)
    <3>1. ~UNCHANGED at
      OBVIOUS
    <3>2. ~EdgeChanges /\ ~Pass /\ ~UNCHANGED vars
      BY <3>1 DEF EdgeChanges, Pass, vars
    <3>3. ASSUME NEW j \in Legs, Opens(j) \/ Fails(j) \/ SessionEnds(j)
          PROVE  FALSE
      BY <3>3 DEF Opens, Fails, SessionEnds
    <3>4. PICK j \in Legs : Dial(j)
      BY <3>2, <3>3 DEF Next, Leg
    <3>5. j = i
      BY <3>4 DEF Dial
    <3> QED BY <3>4, <3>5
  <2>2. left \in [All -> Nat]
    BY DoorsAssumption
  <2>3. door'[i] = pick(home[i]) /\ home[i] \in Range(Primaries)
    BY <2>1 DEF Dial
  <2> QED BY <2>2, <2>3, PickIs
<1> QED BY <1>1, TypeCorrect, PTL DEF Spec, BackupIsLastResort

=============================================================================
