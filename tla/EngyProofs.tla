----------------------------- MODULE EngyProofs -----------------------------
(***************************************************************************)
(* Theorems about EngyJob for every number of requests, serves, threads    *)
(* and tokens.                                                             *)
(***************************************************************************)
EXTENDS EngyJob, SequenceTheorems, FiniteSetTheorems, TLAPS

-----------------------------------------------------------------------------
(* The chunks of a generation (EngyChunks) are put together right, for     *)
(* every chunk size, budget and answer of the model.                       *)

\* The smaller of two integers.
LEMMA LeastOf ==
    ASSUME NEW a \in Int, NEW b \in Int
    PROVE  /\ Least(a, b) \in Int
           /\ Least(a, b) <= a /\ Least(a, b) <= b
           /\ Least(a, b) = a \/ Least(a, b) = b
BY DEF Least

\* What Positions returns.
LEMMA PositionsAre ==
    ASSUME NEW a \in Nat \ {0}, NEW b \in Int, a - 1 <= b
    PROVE  /\ Positions(a, b) \in Seq(Nat)
           /\ Len(Positions(a, b)) = b - a + 1
           /\ \A i \in 1..(b - a + 1) : Positions(a, b)[i] = a + i - 1
<1> DEFINE n == b - a + 1
<1>1. n \in Nat
  OBVIOUS
<1>2. \A i \in 1..n : a + i - 1 \in Nat
  OBVIOUS
<1>3. Positions(a, b) \in [1..n -> Nat]
  BY <1>2 DEF Positions
<1>4. Positions(a, b) \in Seq(Nat) /\ Len(Positions(a, b)) = n
  BY <1>1, <1>3
<1> QED BY <1>4 DEF Positions

\* No positions.
LEMMA PositionsEmpty ==
    ASSUME NEW a \in Nat \ {0}
    PROVE  Positions(a, a - 1) = << >>
BY PositionsAre, EmptySeq

\* Positions from the first.
LEMMA FirstPositions ==
    ASSUME NEW n \in Nat
    PROVE  Positions(1, n) \in Seq(Nat) /\ Len(Positions(1, n)) = n
<1> DEFINE one == 1
<1>1. one \in Nat \ {0} /\ n \in Int /\ one - 1 <= n /\ n - one + 1 = n
  OBVIOUS
<1> HIDE DEF one
<1>2. Positions(one, n) \in Seq(Nat) /\ Len(Positions(one, n)) = n - one + 1
  BY <1>1, PositionsAre
<1> QED BY <1>1, <1>2 DEF one

\* A part of a run of positions.
LEMMA PartOfPositions ==
    ASSUME NEW a \in Nat \ {0}, NEW b \in Int, a - 1 <= b,
           NEW m \in Nat \ {0}, NEW n \in Int, m - 1 <= n, n <= b - a + 1
    PROVE  SubSeq(Positions(a, b), m, n) = Positions(a + m - 1, a + n - 1)
<1> DEFINE s == Positions(a, b)
           u == SubSeq(s, m, n)
           t == Positions(a + m - 1, a + n - 1)
<1>1. s \in Seq(Nat) /\ Len(s) = b - a + 1
      /\ \A i \in 1..(b - a + 1) : s[i] = a + i - 1
  BY PositionsAre
<1>2. t \in Seq(Nat) /\ Len(t) = n - m + 1
      /\ \A i \in 1..(n - m + 1) : t[i] = a + m - 1 + i - 1
  <2> DEFINE c == a + m - 1
             d == a + n - 1
  <2>1. c \in Nat \ {0} /\ d \in Int /\ c - 1 <= d /\ d - c + 1 = n - m + 1
    OBVIOUS
  <2> HIDE DEF c, d
  <2>2. Positions(c, d) \in Seq(Nat) /\ Len(Positions(c, d)) = d - c + 1
        /\ \A i \in 1..(d - c + 1) : Positions(c, d)[i] = c + i - 1
    BY <2>1, PositionsAre
  <2>3. Positions(c, d) \in Seq(Nat) /\ Len(Positions(c, d)) = n - m + 1
        /\ \A i \in 1..(n - m + 1) : Positions(c, d)[i] = c + i - 1
    BY <2>1, <2>2
  <2> QED BY <2>3 DEF c, d
<1>3. \A i \in m..n : s[i] \in Nat
  BY <1>1
<1> HIDE DEF s, t
<1>4. u \in Seq(Nat) /\ Len(u) = (IF m <= n THEN n - m + 1 ELSE 0)
      /\ \A i \in 1..(n - m + 1) : u[i] = s[m + i - 1]
  BY <1>3, SubSeqProperties
<1>5. Len(u) = n - m + 1
  BY <1>4
<1>6. \A i \in 1..(n - m + 1) : u[i] = t[i]
  BY <1>1, <1>2, <1>4
<1> HIDE DEF u
<1>7. u = t
  BY <1>2, <1>4, <1>5, <1>6, SeqEqual
<1> QED BY <1>7 DEF u, t, s

\* Two runs that meet.
LEMMA RunsOfPositions ==
    ASSUME NEW a \in Nat \ {0}, NEW b \in Int, NEW c \in Int,
           a - 1 <= b, b <= c
    PROVE  Positions(a, b) \o Positions(b + 1, c) = Positions(a, c)
<1> DEFINE s == Positions(a, b)
           t == Positions(b + 1, c)
           u == Positions(a, c)
<1>1. s \in Seq(Nat) /\ Len(s) = b - a + 1
      /\ \A i \in 1..(b - a + 1) : s[i] = a + i - 1
  BY PositionsAre
<1>2. t \in Seq(Nat) /\ Len(t) = c - b
      /\ \A i \in 1..(c - b) : t[i] = b + i
  <2> DEFINE d == b + 1
  <2>1. d \in Nat \ {0} /\ d - 1 <= c /\ c - d + 1 = c - b
    OBVIOUS
  <2> HIDE DEF d
  <2>2. Positions(d, c) \in Seq(Nat) /\ Len(Positions(d, c)) = c - d + 1
        /\ \A i \in 1..(c - d + 1) : Positions(d, c)[i] = d + i - 1
    BY <2>1, PositionsAre
  <2>3. Positions(d, c) \in Seq(Nat) /\ Len(Positions(d, c)) = c - b
        /\ \A i \in 1..(c - b) : Positions(d, c)[i] = d + i - 1
    BY <2>1, <2>2
  <2>4. \A i \in 1..(c - b) : d + i - 1 = b + i
    BY DEF d
  <2> QED BY <2>3, <2>4 DEF d
<1>3. u \in Seq(Nat) /\ Len(u) = c - a + 1
      /\ \A i \in 1..(c - a + 1) : u[i] = a + i - 1
  BY PositionsAre
<1> HIDE DEF s, t, u
<1>4. s \o t \in Seq(Nat) /\ Len(s \o t) = c - a + 1
      /\ \A i \in 1..(c - a + 1) :
            (s \o t)[i] = IF i <= Len(s) THEN s[i] ELSE t[i - Len(s)]
  <2>1. Len(s) + Len(t) = c - a + 1
    BY <1>1, <1>2
  <2>2. s \o t \in Seq(Nat) /\ Len(s \o t) = Len(s) + Len(t)
        /\ \A i \in 1..(Len(s) + Len(t)) :
              (s \o t)[i] = IF i <= Len(s) THEN s[i] ELSE t[i - Len(s)]
    BY <1>1, <1>2, ConcatProperties
  <2> QED BY <2>1, <2>2
<1>5. \A i \in 1..(c - a + 1) : (s \o t)[i] = u[i]
  <2> TAKE i \in 1..(c - a + 1)
  <2>1. CASE i <= Len(s) BY <1>1, <1>3, <1>4, <2>1
  <2>2. CASE i > Len(s)
    <3>1. i - Len(s) \in 1..(c - b) /\ b + (i - Len(s)) = a + i - 1
      BY <1>1, <2>2
    <3>2. t[i - Len(s)] = b + (i - Len(s))
      BY <1>2, <3>1
    <3> QED BY <1>1, <1>3, <1>4, <2>2, <3>1, <3>2
  <2>3. i \in Int /\ Len(s) \in Int
    BY <1>1
  <2>4. i <= Len(s) \/ i > Len(s)
    BY <2>3
  <2> QED BY <2>1, <2>2, <2>4
<1>6. s \o t = u
  BY <1>3, <1>4, <1>5, SeqEqual
<1> QED BY <1>6 DEF s, t, u

\* A run from the first, and what follows it.
LEMMA RunsFromFirst ==
    ASSUME NEW b \in Nat, NEW c \in Nat, b <= c
    PROVE  Positions(1, b) \o Positions(b + 1, c) = Positions(1, c)
<1> DEFINE one == 1
<1>1. one \in Nat \ {0} /\ b \in Int /\ c \in Int /\ one - 1 <= b
  OBVIOUS
<1> HIDE DEF one
<1>2. Positions(one, b) \o Positions(b + 1, c) = Positions(one, c)
  BY <1>1, RunsOfPositions
<1> QED BY <1>2 DEF one

-----------------------------------------------------------------------------
(* A generation under way.                                                 *)

\* A generation's record.
GenType == [oids : Seq(Nat), rows : Seq(Nat), extra : Seq(Nat),
            stopped : BOOLEAN]

\* A generation that is what one call would have returned so far: the rows are
\* the tokens', the tokens follow the folded ones, within budget and model;
\* only a first chunk folds, one token, and it is the last; a model that
\* stopped is spent.
ChunkInv(g, max, eos) ==
    /\ g \in GenType
    /\ g.rows = g.oids
    /\ g.extra = Positions(1, Len(g.extra))
    /\ g.oids = Positions(Len(g.extra) + 1, Len(g.extra) + Len(g.oids))
    /\ g.oids = << >> => g.extra = << >>
    /\ g.extra # << >> => g.stopped
    /\ Len(g.extra) <= 1
    /\ Len(g.oids) <= max /\ Len(g.extra) + Len(g.oids) <= max
    /\ Len(g.extra) + Len(g.oids) <= eos
    /\ (g.extra = << >> /\ g.stopped) => Len(g.oids) = eos

\* It holds before the first call.
LEMMA ChunkInit ==
    ASSUME NEW max \in Nat, NEW eos \in Nat \ {0}
    PROVE  ChunkInv(NoTokens, max, eos)
<1>1. << >> \in Seq(Nat) /\ Len(<< >>) = 0
  BY EmptySeq
<1>2. Positions(1, 0) = << >>
  BY PositionsEmpty
<1> QED BY <1>1, <1>2 DEF ChunkInv, GenType, NoTokens

\* Where the next call goes on, how much it asks for, and where it ends.
LEMMA CallBounds ==
    ASSUME NEW max \in Nat \ {0}, NEW eos \in Nat \ {0}, NEW g,
           ChunkInv(g, max, eos), ~Ended(g, max)
    PROVE  /\ g.extra = << >>
           /\ Resume(g) \in Nat \ {0}
           /\ Want(g, max) \in Nat \ {0}
           /\ Want(g, max) <= max - Len(g.oids)
           /\ Asks(g, max) \in Nat \ {0}
           /\ LastOf(g, max, eos) \in Nat
           /\ Resume(g) <= LastOf(g, max, eos)
           /\ LastOf(g, max, eos) <= eos
           /\ LastOf(g, max, eos) <= Resume(g) + Asks(g, max) - 1
           /\ Resume(g) + Asks(g, max) - 1 = Len(g.oids) + Want(g, max)
           /\ g.oids # << >> => Resume(g) = Len(g.oids)
<1>1. g.oids \in Seq(Nat) /\ Len(g.oids) \in Nat
  BY DEF ChunkInv, GenType
<1>2. g.extra = << >> /\ Len(g.extra) = 0
  BY EmptySeq DEF ChunkInv, Ended
<1>3. Len(g.oids) < max
  BY <1>1 DEF Ended
<1>4. Want(g, max) \in Nat \ {0} /\ Want(g, max) <= max - Len(g.oids)
  <2> DEFINE left == max - Len(g.oids)
  <2>1. left \in Nat \ {0}
    BY <1>1, <1>3
  <2> HIDE DEF left
  <2>2. Want(g, max) = Least(GenChunk, left)
    BY DEF Want, left
  <2>3. Least(GenChunk, left) \in Nat \ {0} /\ Least(GenChunk, left) <= left
    BY <2>1, ChunksAssumption DEF Least
  <2> QED BY <2>2, <2>3 DEF left
<1>5. CASE g.oids = << >>
  <2>1. Len(g.oids) = 0
    BY <1>5, EmptySeq
  <2> QED BY <1>2, <1>4, <1>5, <2>1 DEF Resume, Asks, LastOf, Least
<1>6. CASE g.oids # << >>
  <2>1. Len(g.oids) \in Nat \ {0}
    BY <1>1, <1>6, EmptySeq
  <2>2. Resume(g) = Len(g.oids) /\ Asks(g, max) = Want(g, max) + 1
    BY <1>1, <1>2, <1>6 DEF Resume, Asks
  <2>3. Len(g.oids) <= eos
    BY <1>1, <1>2 DEF ChunkInv
  <2> QED BY <1>2, <1>4, <2>1, <2>2, <2>3 DEF LastOf, Least
<1> QED BY <1>5, <1>6

\* What is kept of a first chunk.
LEMMA FirstKept ==
    ASSUME NEW last \in Nat \ {0}, NEW cached \in BOOLEAN, NEW g, NEW ftype,
           g.oids = << >>, Answer(g, last, cached, ftype).rows # << >>
    PROVE  LET k == KeptOfFirst(Answer(g, last, cached, ftype))
               o == IF cached THEN 1 ELSE 0
           IN  /\ k.oids = Positions(o + 1, last)
               /\ k.rows = Positions(o + 1, last)
               /\ k.extra = Positions(1, o)
               /\ o + 1 <= last
<1> DEFINE a == Answer(g, last, cached, ftype)
           o == IF cached THEN 1 ELSE 0
           p == Positions(1, last)
           q == Positions(o + 1, last)
<1>1. a.oids = p /\ a.rows = Positions(1 + o, last) /\ a.offset = o
  BY DEF Answer, Resume
<1>2. o \in {0, 1} /\ 1 + o = o + 1
  OBVIOUS
<1> HIDE DEF a, o
<1>3. o + 1 <= last
  <2>1. SUFFICES ASSUME last = 1, o = 1 PROVE FALSE
    BY <1>2
  <2>2. a.rows = Positions(2, 1)
    BY <1>1, <2>1
  <2> QED BY <2>2, PositionsEmpty DEF a
<1> DEFINE one == 1
           f == o + 1
<1>4. Len(p) = last /\ p \in Seq(Nat)
  <2>1. one \in Nat \ {0} /\ one - 1 <= last /\ last - one + 1 = last
    OBVIOUS
  <2> HIDE DEF one
  <2>2. Positions(one, last) \in Seq(Nat)
        /\ Len(Positions(one, last)) = last - one + 1
    BY <2>1, PositionsAre
  <2> QED BY <2>1, <2>2 DEF one
<1>5. Len(q) = last - o /\ q \in Seq(Nat)
  <2>1. f \in Nat \ {0} /\ f - 1 <= last /\ last - f + 1 = last - o
        /\ last \in Int
    BY <1>2, <1>3
  <2> HIDE DEF f
  <2>2. Positions(f, last) \in Seq(Nat)
        /\ Len(Positions(f, last)) = last - f + 1
    BY <2>1, PositionsAre
  <2> QED BY <2>1, <2>2 DEF f
<1>6. SubSeq(p, o + 1, last) = q
  <2>1. /\ one \in Nat \ {0} /\ one - 1 <= last
        /\ f \in Nat \ {0} /\ f - 1 <= last /\ last <= last - one + 1
        /\ one + f - 1 = f /\ one + last - 1 = last /\ last \in Int
    BY <1>2, <1>3
  <2> HIDE DEF one, f
  <2>2. SubSeq(Positions(one, last), f, last)
            = Positions(one + f - 1, one + last - 1)
    BY <2>1, PartOfPositions
  <2> QED BY <2>1, <2>2 DEF one, f
<1>7. SubSeq(p, 1, o) = Positions(1, o)
  <2>1. /\ one \in Nat \ {0} /\ one - 1 <= last
        /\ o \in Int /\ one - 1 <= o /\ o <= last - one + 1
        /\ one + one - 1 = one /\ one + o - 1 = o /\ last \in Int
    BY <1>2, <1>3
  <2> HIDE DEF one, f
  <2>2. SubSeq(Positions(one, last), one, o)
            = Positions(one + one - 1, one + o - 1)
    BY <2>1, PartOfPositions
  <2> QED BY <2>1, <2>2 DEF one
<1>8. Least(Len(q), Len(q)) = Len(q)
  BY DEF Least
<1>9. SubSeq(q, 1, Len(q)) = q
  BY <1>5, SubSeqFull
<1>10. a.rows = q
  BY <1>1, <1>2
<1>11. KeptOfFirst(a) = [oids |-> q, rows |-> q, extra |-> Positions(1, o)]
  <2> HIDE DEF p, q
  <2>1. SubSeq(a.oids, a.offset + 1, Len(a.oids)) = q
    BY <1>1, <1>4, <1>6
  <2> QED BY <1>1, <1>7, <1>8, <1>9, <1>10, <2>1 DEF KeptOfFirst
<1> QED BY <1>3, <1>11 DEF a, o

\* The tokens behind the overlap.
LEMMA PartOfNext ==
    ASSUME NEW r \in Nat \ {0}, NEW last \in Int, r <= last
    PROVE  SubSeq(Positions(r, last), 2, 1 + (last - r))
               = Positions(r + 1, last)
<1> DEFINE m == 2
           n == 1 + (last - r)
<1>1. /\ m \in Nat \ {0} /\ n \in Int /\ m - 1 <= n /\ n <= last - r + 1
      /\ r - 1 <= last
  OBVIOUS
<1>2. r + m - 1 = r + 1 /\ r + n - 1 = last
  OBVIOUS
<1> HIDE DEF m, n
<1>3. SubSeq(Positions(r, last), m, n) = Positions(r + m - 1, r + n - 1)
  BY <1>1, PartOfPositions
<1>4. SubSeq(Positions(r, last), m, n) = Positions(r + 1, last)
  BY <1>2, <1>3
<1> QED BY <1>4 DEF m, n

\* Their rows, whether or not the overlap has one.
LEMMA RowsOfNext ==
    ASSUME NEW r \in Nat \ {0}, NEW last \in Int, r <= last,
           NEW o \in {0, 1}
    PROVE  SubSeq(Positions(r + o, last), 1 - o + 1, 1 - o + (last - r))
               = Positions(r + 1, last)
<1> DEFINE f == r + o
           m == 1 - o + 1
           n == 1 - o + (last - r)
<1>1. /\ f \in Nat \ {0} /\ f - 1 <= last
      /\ m \in Nat \ {0} /\ n \in Int /\ m - 1 <= n /\ n <= last - f + 1
  OBVIOUS
<1>2. f + m - 1 = r + 1 /\ f + n - 1 = last
  OBVIOUS
<1> HIDE DEF f, m, n
<1>3. SubSeq(Positions(f, last), m, n) = Positions(f + m - 1, f + n - 1)
  BY <1>1, PartOfPositions
<1>4. SubSeq(Positions(f, last), m, n) = Positions(r + 1, last)
  BY <1>2, <1>3
<1> QED BY <1>4 DEF f, m, n

\* What is kept of a continuation.
LEMMA NextKept ==
    ASSUME NEW last \in Nat \ {0}, NEW cached \in BOOLEAN, NEW g, NEW ftype,
           g.oids # << >>, Resume(g) \in Nat \ {0}, Resume(g) <= last
    PROVE  LET k == KeptOfNext(Answer(g, last, cached, ftype))
           IN  /\ k.oids = Positions(Resume(g) + 1, last)
               /\ k.rows = Positions(Resume(g) + 1, last)
               /\ k.extra = << >>
<1> DEFINE a == Answer(g, last, cached, ftype)
           r == Resume(g)
           o == IF cached THEN 1 ELSE 0
           start == 1 - o
           p == Positions(r, last)
           q == Positions(r + o, last)
<1>1. a.oids = p /\ a.rows = q /\ a.offset = o
  BY DEF Answer
<1>2. o \in {0, 1} /\ start \in {0, 1}
      /\ start = IF a.offset = 0 THEN 1 ELSE 0
  BY <1>1
<1>3. r \in Nat \ {0} /\ r <= last
  OBVIOUS
<1> HIDE DEF a, o, r
<1> DEFINE f == r + o
<1>4. Len(q) = last - r - o + 1
  <2>1. f \in Nat \ {0} /\ f - 1 <= last /\ last - f + 1 = last - r - o + 1
    BY <1>2, <1>3
  <2> HIDE DEF f
  <2>2. Len(Positions(f, last)) = last - f + 1
    <3>1. last \in Int
      OBVIOUS
    <3> QED BY ONLY <2>1, <3>1, PositionsAre
  <2> QED BY <2>1, <2>2 DEF f
<1> DEFINE avail == Len(q) - start
<1>5. avail = last - r
  <2>1. start = 1 - o
    OBVIOUS
  <2> HIDE DEF start
  <2> QED BY <1>2, <1>3, <1>4, <2>1
<1>6. SubSeq(p, 2, 1 + avail) = Positions(r + 1, last)
  <2>1. SubSeq(p, 2, 1 + (last - r)) = Positions(r + 1, last)
    <3> HIDE DEF p
    <3>1. last \in Int
      OBVIOUS
    <3> QED BY <1>3, <3>1, PartOfNext DEF p
  <2> QED BY <1>5, <2>1
<1>7. SubSeq(q, start + 1, start + avail) = Positions(r + 1, last)
  <2>1. SubSeq(q, 1 - o + 1, 1 - o + (last - r)) = Positions(r + 1, last)
    <3>1. last \in Int
      OBVIOUS
    <3> QED BY <1>2, <1>3, <3>1, RowsOfNext
  <2> QED BY <1>5, <2>1
<1>8. KeptOfNext(a) = [oids |-> Positions(r + 1, last),
                       rows |-> Positions(r + 1, last), extra |-> << >>]
  <2> HIDE DEF p, q
  <2> QED BY <1>1, <1>2, <1>6, <1>7 DEF KeptOfNext
<1> QED BY <1>8 DEF a, r

\* A call that stopped by itself, or came back short, has reached the end.
LEMMA EndOfCall ==
    ASSUME NEW max \in Nat \ {0}, NEW eos \in Nat \ {0}, NEW g,
           ChunkInv(g, max, eos), ~Ended(g, max),
           NEW ftype \in FinishTypes(g, max, eos),
           \/ ftype # "length"
           \/ LastOf(g, max, eos) < Len(g.oids) + Want(g, max)
    PROVE  LastOf(g, max, eos) = eos
<1> DEFINE limit == Resume(g) + Asks(g, max) - 1
<1>1. limit \in Int /\ limit = Len(g.oids) + Want(g, max)
  BY CallBounds
<1>2. LastOf(g, max, eos) = IF limit <= eos THEN limit ELSE eos
  BY DEF LastOf, Least
<1>3. ftype # "length" => eos <= limit
  BY <1>1 DEF FinishTypes
<1> QED BY <1>1, <1>2, <1>3

\* Whatever the serve answers to a call that is not aborted, the generation
\* stays what a single call would have returned so far: up to where it asked.
THEOREM ChunkStep ==
    ASSUME NEW max \in Nat \ {0}, NEW eos \in Nat \ {0}, NEW g,
           ChunkInv(g, max, eos), ~Ended(g, max),
           NEW cached \in BOOLEAN, NEW ftype \in FinishTypes(g, max, eos),
           Answer(g, LastOf(g, max, eos), cached, ftype).rows # << >>
    PROVE  LET e == Extend(g, max, Answer(g, LastOf(g, max, eos), cached, ftype))
           IN  /\ ChunkInv(e, max, eos)
               /\ Len(e.extra) + Len(e.oids) = LastOf(g, max, eos)
<1> DEFINE last == LastOf(g, max, eos)
           want == Want(g, max)
           a == Answer(g, last, cached, ftype)
           e == Extend(g, max, a)
<1>1. g.oids \in Seq(Nat) /\ g.rows = g.oids /\ Len(g.oids) \in Nat
  BY DEF ChunkInv, GenType
<1>2. /\ g.extra = << >>
      /\ last \in Nat \ {0} /\ last <= eos
      /\ want \in Nat \ {0} /\ want <= max - Len(g.oids)
      /\ last <= Len(g.oids) + want
      /\ Resume(g) \in Nat \ {0} /\ Resume(g) <= last
      /\ g.oids # << >> => Resume(g) = Len(g.oids)
  <2>1. /\ g.extra = << >>
        /\ Resume(g) \in Nat \ {0} /\ Asks(g, max) \in Nat \ {0}
        /\ want \in Nat \ {0} /\ want <= max - Len(g.oids)
        /\ last \in Nat /\ Resume(g) <= last /\ last <= eos
        /\ last <= Resume(g) + Asks(g, max) - 1
        /\ Resume(g) + Asks(g, max) - 1 = Len(g.oids) + want
        /\ g.oids # << >> => Resume(g) = Len(g.oids)
    BY CallBounds
  <2> HIDE DEF last, want
  <2> QED BY <1>1, <2>1
<1>3. (ftype # "length" \/ last < Len(g.oids) + want) => last = eos
  BY EndOfCall
<1>4. a.ftype = ftype
  BY DEF Answer
<1>5. CASE g.oids = << >>
  <2> DEFINE o == IF cached THEN 1 ELSE 0
             k == KeptOfFirst(a)
             b == o + 1
  <2>1. /\ k.oids = Positions(b, last) /\ k.rows = Positions(b, last)
        /\ k.extra = Positions(1, o) /\ b <= last
    BY <1>2, <1>5, FirstKept
  <2>2. o \in {0, 1}
    OBVIOUS
  <2> HIDE DEF last, want, o, k, a
  <2>3. /\ b \in Nat \ {0} /\ last \in Int /\ b - 1 <= last
        /\ last - b + 1 = last - o /\ b = o + 1
    BY <1>2, <2>1, <2>2
  <2> HIDE DEF b
  <2>4. Len(g.oids) = 0
    BY <1>5, EmptySeq
  <2>5. k.oids \in Seq(Nat) /\ Len(k.oids) = last - o
    BY <2>1, <2>3, PositionsAre
  <2>6. k.extra \in Seq(Nat) /\ Len(k.extra) = o
    <3>1. o \in Nat
      BY <2>2
    <3> QED BY <2>1, <3>1, FirstPositions
  <2>7. e = [oids |-> k.oids, rows |-> k.oids, extra |-> k.extra,
             stopped |-> ftype # "length" \/ last - o < want]
    <3>1. << >> \o k.oids = k.oids /\ << >> \o k.extra = k.extra
      BY <2>5, <2>6, ConcatEmptySeq
    <3>2. g.rows = << >> /\ g.extra = << >>
      BY <1>1, <1>2, <1>5
    <3>3. k.rows = k.oids
      BY <2>1
    <3> QED BY <1>4, <1>5, <2>5, <3>1, <3>2, <3>3 DEF Extend, k, want
  <2> HIDE DEF e
  <2>8. e \in GenType
    BY <2>5, <2>6, <2>7 DEF GenType
  <2>9. e.extra = Positions(1, Len(e.extra))
    BY <2>1, <2>6, <2>7
  <2>10. e.oids = Positions(Len(e.extra) + 1, Len(e.extra) + Len(e.oids))
    <3>1. o + (last - o) = last
      BY <2>2, <2>3
    <3> QED BY <2>1, <2>3, <2>5, <2>6, <2>7, <3>1
  <2>11. e.oids # << >>
    BY <2>1, <2>2, <2>3, <2>5, <2>7, EmptySeq
  <2>12. e.extra # << >> => e.stopped
    <3>1. e.extra # << >> => o = 1
      BY <2>2, <2>6, <2>7, EmptySeq
    <3>2. o = 1 => last - o < want
      BY <1>2, <2>3, <2>4
    <3> QED BY <2>7, <3>1, <3>2
  <2>13. /\ Len(e.extra) <= 1 /\ Len(e.extra) + Len(e.oids) = last
         /\ Len(e.oids) <= max /\ Len(e.extra) + Len(e.oids) <= max
         /\ Len(e.extra) + Len(e.oids) <= eos
    <3>1. Len(e.oids) = last - o /\ Len(e.extra) = o
      BY <2>5, <2>6, <2>7
    <3>2. last <= want /\ want <= max
      BY <1>2, <2>4
    <3> QED BY <1>2, <2>2, <3>1, <3>2
  <2>14. (e.extra = << >> /\ e.stopped) => Len(e.oids) = eos
    <3>1. e.extra = << >> => o = 0
      BY <2>2, <2>6, <2>7, EmptySeq
    <3>2. (o = 0 /\ last - o < want) => last < Len(g.oids) + want
      BY <1>2, <2>3, <2>4
    <3>3. Len(e.oids) = last - o /\ (o = 0 => last - o = last)
      BY <1>2, <2>5, <2>7
    <3>4. e.stopped => ftype # "length" \/ last - o < want
      BY <2>7
    <3> QED BY <1>3, <3>1, <3>2, <3>3, <3>4
  <2>15. e.rows = e.oids
    BY <2>7
  <2>16. ChunkInv(e, max, eos)
    BY <2>8, <2>9, <2>10, <2>11, <2>12, <2>13, <2>14, <2>15 DEF ChunkInv
  <2> QED BY <2>13, <2>16 DEF e, a, last
<1>6. CASE g.oids # << >>
  <2> DEFINE k == KeptOfNext(a)
             r == Len(g.oids)
             b == r + 1
  <2>1. k.oids = Positions(b, last) /\ k.rows = Positions(b, last)
        /\ k.extra = << >>
    BY <1>2, <1>6, NextKept
  <2> HIDE DEF last, want, k, a
  <2>2. /\ r \in Nat \ {0} /\ r <= last
        /\ b \in Nat \ {0} /\ last \in Int /\ b - 1 <= last
        /\ last - b + 1 = last - r
    BY <1>1, <1>2, <1>6
  <2>3. g.oids = Positions(1, r)
    BY <1>1, <1>2, EmptySeq DEF ChunkInv
  <2> HIDE DEF r, b
  <2>4. k.oids \in Seq(Nat) /\ Len(k.oids) = last - r
    BY <2>1, <2>2, PositionsAre
  <2>5. g.oids \o k.oids = Positions(1, last)
    <3>1. Positions(1, r) \o Positions(r + 1, last) = Positions(1, last)
      BY <1>2, <2>2, RunsFromFirst
    <3> QED BY <2>1, <2>3, <3>1 DEF b
  <2>6. Positions(1, last) \in Seq(Nat) /\ Len(Positions(1, last)) = last
    <3>1. g.oids \o k.oids \in Seq(Nat)
          /\ Len(g.oids \o k.oids) = Len(g.oids) + Len(k.oids)
      BY <1>1, <2>4, ConcatProperties
    <3> QED BY <2>2, <2>4, <2>5, <3>1 DEF r
  <2>7. e = [oids |-> Positions(1, last), rows |-> Positions(1, last),
             extra |-> << >>,
             stopped |-> ftype # "length" \/ last - r < want]
    <3>1. << >> \o << >> = << >>
      BY EmptySeq, ConcatEmptySeq
    <3>2. k.rows = k.oids
      BY <2>1
    <3> QED BY <1>1, <1>2, <1>4, <1>6, <2>1, <2>4, <2>5, <3>1, <3>2
            DEF Extend, k, want
  <2> HIDE DEF e
  <2>8. Len(e.extra) = 0 /\ << >> \in Seq(Nat) /\ Positions(1, 0) = << >>
    BY <2>7, EmptySeq, PositionsEmpty
  <2>9. e \in GenType
    BY <2>6, <2>7, <2>8 DEF GenType
  <2>10. e.extra = Positions(1, Len(e.extra))
    BY <2>7, <2>8
  <2>11. e.oids = Positions(Len(e.extra) + 1, Len(e.extra) + Len(e.oids))
    <3>1. Len(e.oids) = last /\ 0 + last = last /\ 0 + 1 = 1
      BY <2>2, <2>6, <2>7
    <3> QED BY <2>7, <2>8, <3>1
  <2>12. /\ Len(e.extra) <= 1 /\ Len(e.extra) + Len(e.oids) = last
         /\ Len(e.oids) <= max /\ Len(e.extra) + Len(e.oids) <= max
         /\ Len(e.extra) + Len(e.oids) <= eos
    BY <1>2, <2>2, <2>6, <2>7, <2>8 DEF r
  <2>13. e.stopped => Len(e.oids) = eos
    <3>1. last - r < want => last < Len(g.oids) + want
      BY <1>2, <2>2 DEF r
    <3> QED BY <1>3, <2>6, <2>7, <3>1
  <2>14. ChunkInv(e, max, eos)
    BY <2>7, <2>9, <2>10, <2>11, <2>12, <2>13 DEF ChunkInv
  <2> QED BY <2>12, <2>14 DEF e, a, last
<1> QED BY <1>5, <1>6

\* Once the loop is over and nothing was folded, the tokens are those of a
\* single call, and stopped says whether the model ended them.
THEOREM ChunksDone ==
    ASSUME NEW max \in Nat, NEW eos \in Nat \ {0}, NEW g,
           ChunkInv(g, max, eos), Ended(g, max), g.extra = << >>
    PROVE  /\ Len(g.oids) = Least(max, eos)
           /\ eos > max => ~g.stopped
           /\ eos < max => g.stopped
<1>1. /\ Len(g.oids) \in Nat /\ Len(g.oids) <= max /\ Len(g.oids) <= eos
      /\ g.stopped => Len(g.oids) = eos
  BY EmptySeq DEF ChunkInv, GenType
<1>2. g.stopped \/ Len(g.oids) >= max
  BY DEF Ended
<1> QED BY <1>1, <1>2 DEF Least

-----------------------------------------------------------------------------
(* The types of EngyJob.                                                   *)

\* Where a thread can be.
Places == Working \cup {"none", "queued", "over"}

\* A request's own part of the types.
LEMMA RequestType ==
    ASSUME TypeOK, NEW c \in Requests
    PROVE  /\ queue[c] \in Seq(Seq(Nat)) /\ pend[c] \in Seq(Nat)
           /\ frames[c] \in Seq(Nat) /\ seen[c] \in Nat /\ late[c] \in Nat
           /\ gen[c] \in GenType /\ shape[c] \in Shape \cup {None}
           /\ at[c] \in Places
BY DEF TypeOK, GenType, Places

\* What is handed to the queue is text, and so is what is kept back.
LEMMA HandedType ==
    ASSUME TypeOK, NEW c \in Requests, NEW text \in Seq(Nat),
           NEW n \in 0..Len(text)
    PROVE  /\ Handed(c, text, n) \in Seq(Seq(Nat))
           /\ KeptBack(text, n) \in Seq(Nat)
<1>1. queue[c] \in Seq(Seq(Nat))
  BY RequestType
<1>2. \A i \in 1..Len(text) : text[i] \in Nat
  OBVIOUS
<1>3. SubSeq(text, 1, n) \in Seq(Nat)
  <2>1. \A i \in 1..n : text[i] \in Nat
    BY <1>2
  <2> QED BY <2>1, SubSeqProperties
<1>4. SubSeq(text, n + 1, Len(text)) \in Seq(Nat)
  <2>1. \A i \in (n + 1)..Len(text) : text[i] \in Nat
    BY <1>2
  <2>2. n + 1 \in Int /\ Len(text) \in Int
    OBVIOUS
  <2> QED BY <2>1, <2>2, SubSeqProperties
<1>5. Append(queue[c], SubSeq(text, 1, n)) \in Seq(Seq(Nat))
  BY <1>1, <1>3
<1> QED BY <1>1, <1>4, <1>5 DEF Handed, KeptBack

\* A thread that ends leaves its variables typed.
LEMMA SettleType ==
    ASSUME TypeOK, NEW c \in Requests, NEW deltas \in Seq(Seq(Nat)),
           NEW how \in {"ok", "error", "cancelled"}, Settle(c, how, deltas)
    PROVE  /\ at' \in [Requests -> Places]
           /\ result' \in [Requests -> {"none", "ok", "error", "cancelled"}]
           /\ queue' \in [Requests -> Seq(Seq(Nat))]
           /\ pend' \in [Requests -> Seq(Nat)]
<1>1. << >> \in Seq(Nat)
  OBVIOUS
<1>2. Append(deltas, << >>) \in Seq(Seq(Nat))
  BY <1>1
<1>3. at' \in [Requests -> Places]
  BY DEF TypeOK, Settle, Places
<1>4. result' \in [Requests -> {"none", "ok", "error", "cancelled"}]
  BY DEF TypeOK, Settle
<1>5. queue' \in [Requests -> Seq(Seq(Nat))]
  BY <1>2 DEF TypeOK, Settle
<1>6. pend' \in [Requests -> Seq(Nat)]
  BY <1>1 DEF TypeOK, Settle
<1> QED BY <1>3, <1>4, <1>5, <1>6

\* Counts stay natural numbers.
LEMMA ReleaseType ==
    ASSUME TypeOK, NEW c \in Requests, Release(c)
    PROVE  inflight' \in [Serves -> Nat]
<1> DEFINE n == inflight[on[c]]
<1>1. CASE on[c] \in Serves
  <2>1. n \in Nat
    BY <1>1 DEF TypeOK
  <2>2. (IF n = 0 THEN 0 ELSE n - 1) \in Nat
    BY <2>1
  <2>3. inflight' = [inflight EXCEPT ![on[c]] = IF n = 0 THEN 0 ELSE n - 1]
    BY DEF Release
  <2> HIDE DEF n
  <2> QED BY <2>2, <2>3 DEF TypeOK
<1>2. CASE on[c] \notin Serves
  <2>1. inflight' = inflight
    BY <1>2 DEF TypeOK, Release
  <2> QED BY <2>1 DEF TypeOK
<1> QED BY <1>1, <1>2

\* So does a generation that is left.
LEMMA UnwindsType ==
    ASSUME TypeOK, NEW c \in Requests, NEW deltas \in Seq(Seq(Nat)),
           NEW how \in {"error", "cancelled"}, Unwinds(c, how, deltas),
           UNCHANGED <<call, hist>>
    PROVE  TypeOK'
<1>1. Settle(c, how, deltas) /\ Release(c)
  BY DEF Unwinds
<1>2. /\ at' \in [Requests -> Places]
      /\ result' \in [Requests -> {"none", "ok", "error", "cancelled"}]
      /\ queue' \in [Requests -> Seq(Seq(Nat))]
      /\ pend' \in [Requests -> Seq(Nat)]
  BY <1>1, SettleType
<1>3. inflight' \in [Serves -> Nat]
  BY <1>1, ReleaseType
<1> QED BY <1>2, <1>3 DEF TypeOK, Unwinds, call, hist, Places

\* A call goes on at a position.
LEMMA ResumeType ==
    ASSUME NEW g \in GenType
    PROVE  Resume(g) \in Nat /\ Resume(g) - 1 \in Nat
<1> DEFINE x == Len(g.extra)
           y == Len(g.oids)
<1>1. g.oids \in Seq(Nat) /\ g.extra \in Seq(Nat)
  BY DEF GenType
<1>2. x \in Nat /\ y \in Nat /\ (g.oids # << >> => y # 0)
  BY <1>1, EmptySeq
<1>3. Resume(g) = IF g.oids = << >> THEN 1 ELSE x + y
  BY DEF Resume
<1> HIDE DEF x, y
<1>4. g.oids # << >> => x + y \in Nat /\ x + y - 1 \in Nat
  BY <1>2
<1>5. CASE g.oids = << >>
  <2>1. Resume(g) = 1
    BY <1>3, <1>5
  <2> QED BY <2>1
<1>6. CASE g.oids # << >>
  <2>1. Resume(g) = x + y
    BY <1>3, <1>6
  <2> QED BY <1>2, <1>6, <2>1
<1> QED BY <1>5, <1>6

\* Calls are aborted, and aborts queued, only for a cancelled request; a
\* generation is always the beginning of what one call would return, and its
\* thread is where the loop has it.
GenInv ==
    \A c \in Requests :
        /\ (cut[c] \/ abort[c] # "none") => flag[c]
        /\ (at[c] # "none" \/ co[c] # "none") => shape[c] # None
        /\ shape[c] # None => ChunkInv(gen[c], shape[c].max, shape[c].eos)
        /\ shape[c] = None => gen[c] = NoTokens
        /\ co[c] \in {"none", "created"} => at[c] = "none"
        /\ at[c] \in {"checked", "rid", "gen"} => ~Ended(gen[c], shape[c].max)
        /\ at[c] = "prove" => Ended(gen[c], shape[c].max)

\* A request that is made has a shape.
LEMMA ShapeType ==
    ASSUME TypeOK, GenInv, NEW c \in Requests, at[c] # "none" \/ co[c] # "none"
    PROVE  /\ shape[c].max \in Nat /\ shape[c].eos \in Nat \ {0}
           /\ ChunkInv(gen[c], shape[c].max, shape[c].eos)
<1>1. shape[c] \in Shape \cup {None} /\ shape[c] # None
  BY RequestType DEF GenInv
<1> QED BY <1>1 DEF Shape, GenInv

\* One that makes a call has a budget for it.
LEMMA CallShape ==
    ASSUME TypeOK, GenInv, NEW c \in Requests,
           at[c] \in {"checked", "rid", "gen"}
    PROVE  /\ shape[c].max \in Nat \ {0} /\ shape[c].eos \in Nat \ {0}
           /\ ChunkInv(gen[c], shape[c].max, shape[c].eos)
           /\ ~Ended(gen[c], shape[c].max)
<1>1. /\ shape[c].max \in Nat /\ shape[c].eos \in Nat \ {0}
      /\ ChunkInv(gen[c], shape[c].max, shape[c].eos)
      /\ ~Ended(gen[c], shape[c].max)
  BY ShapeType DEF GenInv
<1>2. Len(gen[c].oids) \in Nat
  BY <1>1, EmptySeq DEF ChunkInv, GenType
<1>3. shape[c].max # 0
  BY <1>1, <1>2 DEF Ended
<1> QED BY <1>1, <1>3

\* A generation that goes on has been extended by one answer.
LEMMA ReturnsExtends ==
    ASSUME TypeOK, GenInv, NEW c \in Requests, Returns(c), at'[c] # "over"
    PROVE  /\ ~flag[c]
           /\ gen' = [gen EXCEPT ![c] = gen'[c]]
           /\ at' = [at EXCEPT ![c] = "top"]
           /\ ChunkInv(gen'[c], shape[c].max, shape[c].eos)
           /\ Len(gen'[c].extra) + Len(gen'[c].oids) = End(c)
           /\ \E n \in 0..Len(pend[c]) :
                 /\ queue' = [queue EXCEPT ![c] = Handed(c, pend[c], n)]
                 /\ pend' = [pend EXCEPT ![c] = KeptBack(pend[c], n)]
           /\ UNCHANGED <<co, jobs, frames, answer, gone, backlog, on,
                          inflight, result, shape, flag, abort, call, hist>>
<1> DEFINE max == shape[c].max
           eos == shape[c].eos
<1>1. at[c] = "gen"
  BY DEF Returns
<1>2. max \in Nat \ {0} /\ eos \in Nat \ {0} /\ ChunkInv(gen[c], max, eos)
      /\ ~Ended(gen[c], max)
  BY <1>1, CallShape
<1>3. PICK a \in Answered(c), n \in 0..Len(pend[c]) :
         \/ /\ flag[c]
            /\ Unwinds(c, "cancelled", Handed(c, pend[c], n))
         \/ /\ ~flag[c]
            /\ a.rows = << >>
            /\ Unwinds(c, "error", Handed(c, pend[c], n))
         \/ /\ ~flag[c]
            /\ a.rows # << >>
            /\ gen' = [gen EXCEPT ![c] = Extend(@, shape[c].max, a)]
            /\ at' = [at EXCEPT ![c] = "top"]
            /\ queue' = [queue EXCEPT ![c] = Handed(c, pend[c], n)]
            /\ pend' = [pend EXCEPT ![c] = KeptBack(pend[c], n)]
            /\ UNCHANGED <<co, jobs, frames, answer, gone, backlog, on,
                           inflight, result, shape, flag, abort>>
  BY DEF Returns
<1>4. UNCHANGED <<call, hist>>
  BY DEF Returns
<1>5. \A how, deltas : ~Unwinds(c, how, deltas)
  BY DEF Unwinds, Settle, TypeOK
<1>6. /\ ~flag[c]
      /\ a.rows # << >>
      /\ gen' = [gen EXCEPT ![c] = Extend(@, shape[c].max, a)]
      /\ at' = [at EXCEPT ![c] = "top"]
      /\ queue' = [queue EXCEPT ![c] = Handed(c, pend[c], n)]
      /\ pend' = [pend EXCEPT ![c] = KeptBack(pend[c], n)]
      /\ UNCHANGED <<co, jobs, frames, answer, gone, backlog, on,
                     inflight, result, shape, flag, abort>>
  BY <1>3, <1>5
<1>7. ~cut[c]
  BY <1>6 DEF GenInv
<1>8. PICK cached \in BOOLEAN, ftype \in FinishTypes(gen[c], max, eos) :
          a = Answer(gen[c], End(c), cached, ftype)
  BY <1>7 DEF Answered
<1>9. gen'[c] = Extend(gen[c], max, a)
  BY <1>6 DEF TypeOK
<1>10. End(c) = LastOf(gen[c], max, eos)
  BY DEF End
<1>11. ChunkInv(gen'[c], max, eos)
       /\ Len(gen'[c].extra) + Len(gen'[c].oids) = End(c)
  <2> HIDE DEF max, eos
  <2> DEFINE last == LastOf(gen[c], max, eos)
             b == Answer(gen[c], last, cached, ftype)
             e == Extend(gen[c], max, b)
  <2>1. a = b /\ b.rows # << >>
    BY <1>6, <1>8, <1>10
  <2>2. ChunkInv(e, max, eos) /\ Len(e.extra) + Len(e.oids) = last
    BY <1>2, <2>1, ChunkStep
  <2>3. gen'[c] = e
    BY <1>9, <2>1
  <2> HIDE DEF e, b, last
  <2> QED BY <1>10, <2>2, <2>3 DEF last
<1> QED BY <1>4, <1>6, <1>9, <1>11

\* What an event adds is text.
LEMMA NewTextType ==
    ASSUME NEW c, NEW last \in Nat, seen[c] \in Nat, seen[c] + 1 <= last
    PROVE  NewText(c, last) \in Seq(Nat)
<1> DEFINE a == seen[c] + 1
<1>1. a \in Nat \ {0} /\ last \in Int /\ a - 1 <= last
  OBVIOUS
<1> HIDE DEF a
<1>2. Positions(a, last) \in Seq(Nat)
  BY <1>1, PositionsAre
<1>3. << >> \in Seq(Nat)
  OBVIOUS
<1> QED BY <1>2, <1>3 DEF NewText, a

\* Every variable keeps its type.
LEMMA TypeStep ==
    ASSUME TypeOK, GenInv, [Next]_vars
    PROVE  TypeOK'
<1>1. ASSUME NEW c \in Requests, ReadsServe(c) PROVE TypeOK'
  <2>1. co' \in [Requests -> {"none", "created", "run", "over"}]
    BY <1>1 DEF TypeOK, Places, Working, Generating, ReadsServe
  <2> QED BY <1>1, <2>1 DEF TypeOK, Places, ReadsServe,
                 loop, work, call, hist
<1>2. ASSUME NEW c \in Requests, Starts(c) PROVE TypeOK'
  <2>1. co' \in [Requests -> {"none", "created", "run", "over"}]
    BY <1>2 DEF TypeOK, Places, Working, Generating, Starts
  <2>2. jobs' \subseteq Requests
    BY <1>2 DEF TypeOK, Places, Working, Generating, Starts
  <2>3. backlog' \in Seq(Requests)
    BY <1>2 DEF TypeOK, Places, Working, Generating, Starts
  <2>4. at' \in [Requests -> Places]
    BY <1>2 DEF TypeOK, Places, Working, Generating, Starts
  <2> QED BY <1>2, <2>1, <2>2, <2>3, <2>4 DEF TypeOK, Places, Starts,
                 loop, work, call, hist
<1>3. ASSUME NEW c \in Requests, ReadsCancel(c) PROVE TypeOK'
  <2>1. flag' \in [Requests -> BOOLEAN]
    BY <1>3 DEF TypeOK, Places, Working, Generating, ReadsCancel
  <2>2. abort' \in [Requests -> {"none", "queued", "posting", "done",
                             "failed"}]
    BY <1>3 DEF TypeOK, Places, Working, Generating, ReadsCancel
  <2>3. caught' \in [Requests -> Places]
    BY <1>3 DEF TypeOK, Places, Working, Generating, ReadsCancel
  <2> QED BY <1>3, <2>1, <2>2, <2>3 DEF TypeOK, Places, ReadsCancel,
                 loop, work, call, hist
<1>4. ASSUME NEW c \in Requests, ThreadStarts(c) PROVE TypeOK'
  <2>1. backlog' \in Seq(Requests)
    BY <1>4 DEF TypeOK, Places, Working, Generating, ThreadStarts
  <2>2. at' \in [Requests -> Places]
    BY <1>4 DEF TypeOK, Places, Working, Generating, ThreadStarts
  <2> QED BY <1>4, <2>1, <2>2 DEF TypeOK, Places, ThreadStarts,
                 loop, work, call, hist
<1>5. ASSUME NEW c \in Requests, Picks(c) PROVE TypeOK'
  <2>1. on' \in [Requests -> Serves \cup {None}]
    BY <1>5 DEF TypeOK, Places, Working, Generating, Picks
  <2>2. inflight' \in [Serves -> Nat]
    BY <1>5 DEF TypeOK, Places, Working, Generating, Picks
  <2>3. at' \in [Requests -> Places]
    BY <1>5 DEF TypeOK, Places, Working, Generating, Picks
  <2> QED BY <1>5, <2>1, <2>2, <2>3 DEF TypeOK, Places, Picks,
                 loop, work, call, hist
<1>6. ASSUME NEW c \in Requests, Registers(c) PROVE TypeOK'
  <2>1. at' \in [Requests -> Places]
    BY <1>6 DEF TypeOK, Places, Working, Generating, Registers
  <2> QED BY <1>6, <2>1 DEF TypeOK, Places, Registers,
                 loop, work, call, hist
<1>7. ASSUME NEW c \in Requests, AbortStarts(c) PROVE TypeOK'
  <2>1. abort' \in [Requests -> {"none", "queued", "posting", "done",
                             "failed"}]
    BY <1>7 DEF TypeOK, Places, Working, Generating, AbortStarts
  <2> QED BY <1>7, <2>1 DEF TypeOK, Places, AbortStarts,
                 loop, work, call, hist
<1>8. ASSUME NEW c \in Requests, AbortLands(c) PROVE TypeOK'
  <2>1. abort' \in [Requests -> {"none", "queued", "posting", "done",
                             "failed"}]
    BY <1>8 DEF TypeOK, Places, Working, Generating, AbortLands
  <2>2. cut' \in [Requests -> BOOLEAN]
    BY <1>8 DEF TypeOK, Places, Working, Generating, AbortLands
  <2> QED BY <1>8, <2>1, <2>2 DEF TypeOK, Places, AbortLands,
                 loop, work, call, hist
<1>9. ASSUME NEW c \in Requests, AbortFails(c) PROVE TypeOK'
  <2>1. abort' \in [Requests -> {"none", "queued", "posting", "done",
                             "failed"}]
    BY <1>9 DEF TypeOK, Places, Working, Generating, AbortFails
  <2> QED BY <1>9, <2>1 DEF TypeOK, Places, AbortFails,
                 loop, work, call, hist
<1>10. ASSUME NEW c \in Requests, SendsChunk(c) PROVE TypeOK'
  <2>1. queue[c] \in Seq(Seq(Nat)) /\ queue[c] # << >>
    BY <1>10, RequestType DEF SendsChunk
  <2>2. Tail(queue[c]) \in Seq(Seq(Nat)) /\ Head(queue[c]) \in Seq(Nat)
    BY <2>1
  <2>3. frames[c] \o Head(queue[c]) \in Seq(Nat)
    BY <2>2, RequestType
  <2>4. queue' \in [Requests -> Seq(Seq(Nat))]
    BY <1>10, <2>2 DEF TypeOK, SendsChunk
  <2>5. CASE c \in gone
    BY <1>10, <2>4, <2>5 DEF TypeOK, SendsChunk, Finish, work, call, hist
  <2>6. CASE c \notin gone
    <3>1. frames' \in [Requests -> Seq(Nat)]
      BY <1>10, <2>3, <2>6 DEF TypeOK, SendsChunk
    <3>2. UNCHANGED <<co, jobs, answer, gone, work, call, shape, flag, abort,
                      hist>>
      BY <1>10, <2>6 DEF SendsChunk
    <3> QED BY <2>4, <3>1, <3>2 DEF TypeOK, work, call, hist, SendsChunk
  <2> QED BY <2>5, <2>6
<1>11. ASSUME NEW c \in Requests, Answers(c) PROVE TypeOK'
  <2>1. queue[c] \in Seq(Seq(Nat)) /\ queue[c] # << >>
    BY <1>11, RequestType DEF Answers
  <2>2. Tail(queue[c]) \in Seq(Seq(Nat))
    BY <2>1
  <2>3. queue' \in [Requests -> Seq(Seq(Nat))]
    BY <1>11, <2>2 DEF TypeOK, Answers
  <2>4. answer' \in [Requests -> {"none", "response", "error"}]
    BY <1>11 DEF TypeOK, Answers
  <2>5. co' \in [Requests -> {"none", "created", "run", "over"}]
        /\ jobs' \subseteq Requests
    BY <1>11 DEF TypeOK, Answers, Finish
  <2> QED BY <1>11, <2>3, <2>4, <2>5 DEF TypeOK, Answers, work, call, hist
<1>12. ASSUME NEW c \in Requests, PrepFails(c) PROVE TypeOK'
  <2>1. Settle(c, "error", queue[c]) /\ queue[c] \in Seq(Seq(Nat))
    BY <1>12, RequestType DEF PrepFails
  <2>2. /\ at' \in [Requests -> Places]
        /\ result' \in [Requests -> {"none", "ok", "error", "cancelled"}]
        /\ queue' \in [Requests -> Seq(Seq(Nat))]
        /\ pend' \in [Requests -> Seq(Nat)]
    BY <2>1, SettleType
  <2> QED BY <1>12, <2>2 DEF TypeOK, PrepFails, call, hist, Places
<1>13. ASSUME NEW c \in Requests, ChecksTop(c) PROVE TypeOK'
  <2>1. queue[c] \in Seq(Seq(Nat))
    BY RequestType
  <2>2. CASE Unwinds(c, "cancelled", queue[c]) /\ UNCHANGED <<call, hist>>
    BY <2>1, <2>2, UnwindsType
  <2>3. CASE ~(Unwinds(c, "cancelled", queue[c]) /\ UNCHANGED <<call, hist>>)
    <3>1. /\ at' = [at EXCEPT ![c] = "checked"]
          /\ UNCHANGED <<loop, backlog, on, inflight, gen, pend, result, call,
                         shape, flag, abort, hist>>
      BY <1>13, <2>3 DEF ChecksTop
    <3>2. at' \in [Requests -> Places]
      BY <3>1 DEF TypeOK, Places, Working, Generating
    <3> QED BY <3>1, <3>2 DEF TypeOK, Places, loop, call, hist
  <2> QED BY <2>2, <2>3
<1>14. ASSUME NEW c \in Requests, Posts(c) PROVE TypeOK'
  <2>2. Resume(gen[c]) - 1 \in Nat
    BY RequestType, ResumeType
  <2>3. seen' \in [Requests -> Nat]
    BY <1>14, <2>2 DEF TypeOK, Posts
  <2>4. late' \in [Requests -> Nat]
    BY <1>14 DEF TypeOK, Posts
  <2>5. at' \in [Requests -> Places] /\ cut' \in [Requests -> BOOLEAN]
    BY <1>14 DEF TypeOK, Posts, Places, Working, Generating
  <2> QED BY <1>14, <2>3, <2>4, <2>5 DEF TypeOK, Posts, Places, loop
<1>15. ASSUME NEW c \in Requests, Event(c) PROVE TypeOK'
  <2>1. queue[c] \in Seq(Seq(Nat)) /\ pend[c] \in Seq(Nat) /\ seen[c] \in Nat
    BY RequestType
  <2>2. CASE flag[c]
    <3>1. Unwinds(c, "cancelled", queue[c]) /\ UNCHANGED <<call, hist>>
      BY <1>15, <2>2 DEF Event
    <3> QED BY <2>1, <3>1, UnwindsType
  <2>3. CASE ~flag[c]
    <3>1. PICK last \in (seen[c] + 1)..Least(seen[c] + PerEvent, End(c)) :
              /\ seen' = [seen EXCEPT ![c] = last]
              /\ \E n \in 0..Len(pend[c] \o NewText(c, last)) :
                    /\ queue' = [queue EXCEPT ![c] =
                                     Handed(c, pend[c] \o NewText(c, last), n)]
                    /\ pend' = [pend EXCEPT ![c] =
                                     KeptBack(pend[c] \o NewText(c, last), n)]
      BY <1>15, <2>3 DEF Event
    <3>2. UNCHANGED <<co, jobs, frames, answer, gone, backlog, at, on,
                      inflight, gen, result, cut, shape, flag, abort, hist>>
      BY <1>15, <2>3 DEF Event
    <3> DEFINE text == pend[c] \o NewText(c, last)
    <3>3. last \in Nat /\ seen[c] + 1 <= last
      BY <2>1
    <3>4. NewText(c, last) \in Seq(Nat)
      BY <2>1, <3>3, NewTextType
    <3>5. text \in Seq(Nat)
      BY <2>1, <3>4
    <3>6. PICK n \in 0..Len(text) :
              /\ queue' = [queue EXCEPT ![c] = Handed(c, text, n)]
              /\ pend' = [pend EXCEPT ![c] = KeptBack(text, n)]
      BY <3>1
    <3> HIDE DEF text
    <3>7. Handed(c, text, n) \in Seq(Seq(Nat))
          /\ KeptBack(text, n) \in Seq(Nat)
      BY <3>5, HandedType
    <3>8. queue' \in [Requests -> Seq(Seq(Nat))]
      BY <3>6, <3>7 DEF TypeOK
    <3>9. pend' \in [Requests -> Seq(Nat)]
      BY <3>6, <3>7 DEF TypeOK
    <3>10. seen' \in [Requests -> Nat]
      BY <3>1, <3>3 DEF TypeOK
    <3> QED BY <3>2, <3>8, <3>9, <3>10 DEF TypeOK, hist
  <2> QED BY <2>2, <2>3
<1>16. ASSUME NEW c \in Requests, Returns(c) PROVE TypeOK'
  <2>1. pend[c] \in Seq(Nat)
    BY RequestType
  <2>2. \A n \in 0..Len(pend[c]) :
            /\ Handed(c, pend[c], n) \in Seq(Seq(Nat))
            /\ KeptBack(pend[c], n) \in Seq(Nat)
    BY <2>1, HandedType
  <2>3. CASE at'[c] = "over"
    <3>1. UNCHANGED <<call, hist>>
      BY <1>16 DEF Returns
    <3>2. at'[c] # "top"
      BY <2>3
    <3>3. \E n \in 0..Len(pend[c]), how \in {"error", "cancelled"} :
              Unwinds(c, how, Handed(c, pend[c], n))
      BY <1>16, <3>2 DEF Returns, TypeOK
    <3> QED BY <2>2, <3>1, <3>3, UnwindsType
  <2>4. CASE at'[c] # "over"
    <3>1. /\ gen' = [gen EXCEPT ![c] = gen'[c]]
          /\ at' = [at EXCEPT ![c] = "top"]
          /\ ChunkInv(gen'[c], shape[c].max, shape[c].eos)
          /\ \E n \in 0..Len(pend[c]) :
                /\ queue' = [queue EXCEPT ![c] = Handed(c, pend[c], n)]
                /\ pend' = [pend EXCEPT ![c] = KeptBack(pend[c], n)]
          /\ UNCHANGED <<co, jobs, frames, answer, gone, backlog, on,
                         inflight, result, shape, flag, abort, call, hist>>
      BY <1>16, <2>4, ReturnsExtends
    <3>2. queue' \in [Requests -> Seq(Seq(Nat))]
      BY <2>2, <3>1 DEF TypeOK
    <3>3. pend' \in [Requests -> Seq(Nat)]
      BY <2>2, <3>1 DEF TypeOK
    <3>4. gen' \in [Requests -> GenType]
      BY <3>1 DEF TypeOK, ChunkInv, GenType
    <3>5. at' \in [Requests -> Places]
      BY <3>1 DEF TypeOK, Places, Working, Generating
    <3> QED BY <3>1, <3>2, <3>3, <3>4, <3>5
            DEF TypeOK, call, hist, GenType, Places
  <2> QED BY <2>3, <2>4
<1>17. ASSUME NEW c \in Requests, CallFails(c) PROVE TypeOK'
  <2>1. queue[c] \in Seq(Seq(Nat))
    BY RequestType
  <2>2. \E how \in {"error", "cancelled"} : Unwinds(c, how, queue[c])
    BY <1>17 DEF CallFails
  <2> QED BY <1>17, <2>1, <2>2, UnwindsType DEF CallFails
<1>18. ASSUME NEW c \in Requests, LoopEnds(c) PROVE TypeOK'
  <2>1. pend[c] \in Seq(Nat) /\ Len(pend[c]) \in 0..Len(pend[c])
    BY RequestType
  <2>2. Handed(c, pend[c], Len(pend[c])) \in Seq(Seq(Nat))
    BY <2>1, HandedType
  <2>3. queue' \in [Requests -> Seq(Seq(Nat))]
    BY <1>18, <2>2 DEF TypeOK, LoopEnds
  <2>4. pend' \in [Requests -> Seq(Nat)]
    BY <1>18 DEF TypeOK, LoopEnds
  <2>5. at' \in [Requests -> Places]
    BY <1>18 DEF TypeOK, LoopEnds, Places, Working
  <2>6. inflight' \in [Serves -> Nat]
    BY <1>18, ReleaseType DEF LoopEnds
  <2> QED BY <1>18, <2>3, <2>4, <2>5, <2>6
          DEF TypeOK, LoopEnds, call, hist, Places
<1>19. ASSUME NEW c \in Requests, Proves(c) PROVE TypeOK'
  <2>1. queue[c] \in Seq(Seq(Nat))
    BY RequestType
  <2>2. \E how \in {"ok", "error"} : Settle(c, how, queue[c])
    BY <1>19 DEF Proves
  <2>3. /\ at' \in [Requests -> Places]
        /\ result' \in [Requests -> {"none", "ok", "error", "cancelled"}]
        /\ queue' \in [Requests -> Seq(Seq(Nat))]
        /\ pend' \in [Requests -> Seq(Nat)]
    BY <2>1, <2>2, SettleType
  <2> QED BY <1>19, <2>3 DEF TypeOK, Proves, call, hist, Places
<1>20. ASSUME SocketEnds PROVE TypeOK'
  <2>1. gone' \subseteq Requests
    BY <1>20 DEF SocketEnds
  <2> QED BY <1>20, <2>1 DEF TypeOK, SocketEnds, work, call, hist
<1>21. ASSUME UNCHANGED vars PROVE TypeOK'
  BY <1>21 DEF TypeOK, vars, loop, work, call, hist
<1> QED
  BY <1>1, <1>2, <1>3, <1>4, <1>5, <1>6, <1>7, <1>8, <1>9, <1>10, <1>11,
     <1>12, <1>13, <1>14, <1>15, <1>16, <1>17, <1>18, <1>19, <1>20, <1>21
     DEF Next, Coroutine, Thread, Reply, Abort, Idle

-----------------------------------------------------------------------------
(* The generations.                                                        *)

\* The variables GenInv and the invariants below speak of are functions.
LEMMA FunctionTypes ==
    ASSUME TypeOK
    PROVE  /\ co \in [Requests -> {"none", "created", "run", "over"}]
           /\ at \in [Requests -> Places]
           /\ flag \in [Requests -> BOOLEAN]
           /\ cut \in [Requests -> BOOLEAN]
           /\ abort \in [Requests -> {"none", "queued", "posting", "done",
                                      "failed"}]
BY DEF TypeOK, Places

\* It holds at first.
LEMMA GenInit == Init => TypeOK /\ GenInv
<1> SUFFICES ASSUME Init PROVE TypeOK /\ GenInv
  OBVIOUS
<1>1. shape \in [Requests -> Shape \cup {None}]
  BY JobAssumption DEF Init
<1>2. << >> \in Seq(Nat) /\ << >> \in Seq(Seq(Nat)) /\ << >> \in Seq(Requests)
  OBVIOUS
<1>3. NoTokens \in [oids : Seq(Nat), rows : Seq(Nat), extra : Seq(Nat),
                    stopped : BOOLEAN]
  BY <1>2 DEF NoTokens
<1>4. TypeOK
  BY <1>1, <1>2, <1>3 DEF TypeOK, Init
<1>5. ASSUME NEW c \in Requests, shape[c] # None
      PROVE  ChunkInv(gen[c], shape[c].max, shape[c].eos)
  <2>1. shape[c].max \in Nat /\ shape[c].eos \in Nat \ {0}
    BY <1>1, <1>5 DEF Shape
  <2>2. gen[c] = NoTokens
    BY DEF Init
  <2> QED BY <2>1, <2>2, ChunkInit
<1>6. GenInv
  BY <1>5 DEF GenInv, Init
<1> QED BY <1>4, <1>6

\* Every step keeps it.
LEMMA GenStep ==
    ASSUME TypeOK, GenInv, [Next]_vars
    PROVE  GenInv'
<1> USE FunctionTypes DEF GenInv, loop, work, call, hist
<1>1. ASSUME NEW c \in Requests, ReadsServe(c) PROVE GenInv'
  BY <1>1 DEF ReadsServe
<1>2. ASSUME NEW c \in Requests, Starts(c) PROVE GenInv'
  BY <1>2 DEF Starts
<1>3. ASSUME NEW c \in Requests, ReadsCancel(c) PROVE GenInv'
  BY <1>3 DEF ReadsCancel
<1>4. ASSUME NEW c \in Requests, SendsChunk(c) PROVE GenInv'
  BY <1>4 DEF SendsChunk, Finish
<1>5. ASSUME NEW c \in Requests, Answers(c) PROVE GenInv'
  BY <1>5 DEF Answers, Finish
<1>6. ASSUME NEW c \in Requests, ThreadStarts(c) PROVE GenInv'
  BY <1>6 DEF ThreadStarts
<1>7. ASSUME NEW c \in Requests, PrepFails(c) PROVE GenInv'
  BY <1>7 DEF PrepFails, Settle
<1>8. ASSUME NEW c \in Requests, Picks(c) PROVE GenInv'
  BY <1>8 DEF Picks
<1>9. ASSUME NEW c \in Requests, ChecksTop(c) PROVE GenInv'
  BY <1>9 DEF ChecksTop, Unwinds, Settle
<1>10. ASSUME NEW c \in Requests, Registers(c) PROVE GenInv'
  BY <1>10 DEF Registers
<1>11. ASSUME NEW c \in Requests, Posts(c) PROVE GenInv'
  BY <1>11 DEF Posts
<1>12. ASSUME NEW c \in Requests, Event(c) PROVE GenInv'
  BY <1>12 DEF Event, Unwinds, Settle
<1>13. ASSUME NEW c \in Requests, CallFails(c) PROVE GenInv'
  BY <1>13 DEF CallFails, Unwinds, Settle, Registered
<1>14. ASSUME NEW c \in Requests, LoopEnds(c) PROVE GenInv'
  BY <1>14 DEF LoopEnds
<1>15. ASSUME NEW c \in Requests, Proves(c) PROVE GenInv'
  BY <1>15 DEF Proves, Settle
<1>16. ASSUME NEW c \in Requests, AbortStarts(c) PROVE GenInv'
  BY <1>16 DEF AbortStarts
<1>17. ASSUME NEW c \in Requests, AbortLands(c) PROVE GenInv'
  BY <1>17 DEF AbortLands
<1>18. ASSUME NEW c \in Requests, AbortFails(c) PROVE GenInv'
  BY <1>18 DEF AbortFails
<1>19. ASSUME NEW c \in Requests, Returns(c) PROVE GenInv'
  <2>1. CASE at'[c] = "over"
    <3>1. at'[c] # "top"
      BY <2>1
    <3> QED BY <1>19, <3>1 DEF Returns, Unwinds, Settle
  <2>2. CASE at'[c] # "over"
    <3>1. /\ gen' = [gen EXCEPT ![c] = gen'[c]]
          /\ at' = [at EXCEPT ![c] = "top"]
          /\ ChunkInv(gen'[c], shape[c].max, shape[c].eos)
          /\ UNCHANGED <<co, shape, flag, cut, abort>>
      BY <1>19, <2>2, ReturnsExtends
    <3>2. at[c] # "none"
      BY <1>19 DEF Returns
    <3>3. gen \in [Requests -> GenType]
      BY DEF TypeOK, GenType
    <3> QED BY <3>1, <3>2, <3>3
  <2> QED BY <2>1, <2>2
<1>20. ASSUME SocketEnds PROVE GenInv'
  BY <1>20 DEF SocketEnds
<1>21. ASSUME UNCHANGED vars PROVE GenInv'
  BY <1>21 DEF vars
<1> QED
  BY <1>1, <1>2, <1>3, <1>4, <1>5, <1>6, <1>7, <1>8, <1>9, <1>10, <1>11,
     <1>12, <1>13, <1>14, <1>15, <1>16, <1>17, <1>18, <1>19, <1>20, <1>21
     DEF Next, Coroutine, Thread, Reply, Abort, Idle

\* Type correctness of the reference miner's requests.
THEOREM TypeCorrect == Spec => []TypeOK
<1>1. TypeOK /\ GenInv /\ [Next]_vars => (TypeOK /\ GenInv)'
  BY TypeStep, GenStep
<1> QED BY <1>1, GenInit, PTL DEF Spec

\* However a generation is cut into chunks, whatever the serve has cached and
\* however often it is asked, its tokens and rows are a single call's.
THEOREM ChunksAreOneCall == Spec => []ChunksMakeOneCall
<1>1. TypeOK /\ GenInv => ChunksMakeOneCall
  <2> SUFFICES ASSUME TypeOK, GenInv, NEW c \in Requests
      PROVE  LET g == gen[c]
             IN  /\ g.rows = g.oids
                 /\ g.extra \o g.oids = Positions(1, Len(g.extra) + Len(g.oids))
                 /\ (at[c] = "prove" /\ g.extra = << >>) =>
                        Len(g.oids) = Least(shape[c].max, shape[c].eos)
    BY DEF ChunksMakeOneCall
  <2> DEFINE g == gen[c]
             x == Len(g.extra)
             n == Len(g.oids)
  <2>1. CASE shape[c] = None
    <3>1. g = NoTokens
      BY <2>1 DEF GenInv
    <3>2. g.oids = << >> /\ g.rows = << >> /\ g.extra = << >>
      BY <3>1 DEF NoTokens
    <3>3. << >> \o << >> = << >> /\ Positions(1, 0) = << >>
          /\ Len(<< >>) + Len(<< >>) = 0
      BY EmptySeq, ConcatEmptySeq, PositionsEmpty
    <3>4. at[c] # "prove"
      BY <2>1 DEF GenInv
    <3> QED BY <3>2, <3>3, <3>4
  <2>2. CASE shape[c] # None
    <3>1. shape[c].max \in Nat /\ shape[c].eos \in Nat \ {0}
          /\ ChunkInv(g, shape[c].max, shape[c].eos)
      BY <2>2, RequestType DEF Shape, GenInv
    <3>2. x \in Nat /\ n \in Nat /\ g.rows = g.oids
          /\ g.extra = Positions(1, x) /\ g.oids = Positions(x + 1, x + n)
      <4> HIDE DEF g
      <4>1. g \in GenType /\ g.rows = g.oids
            /\ g.extra = Positions(1, Len(g.extra))
            /\ g.oids = Positions(Len(g.extra) + 1, Len(g.extra) + Len(g.oids))
        BY <3>1 DEF ChunkInv
      <4>2. g.oids \in Seq(Nat) /\ g.extra \in Seq(Nat)
        BY <4>1 DEF GenType
      <4>3. x \in Nat /\ n \in Nat
        BY <4>2
      <4> QED BY <4>1, <4>3
    <3>3. Positions(1, x) \o Positions(x + 1, x + n) = Positions(1, x + n)
      <4> HIDE DEF x, n
      <4>1. x + n \in Nat /\ x <= x + n
        BY <3>2
      <4> QED BY <3>2, <4>1, RunsFromFirst
    <3>4. (at[c] = "prove" /\ g.extra = << >>) =>
              n = Least(shape[c].max, shape[c].eos)
      BY <3>1, ChunksDone DEF GenInv
    <3> QED BY <3>2, <3>3, <3>4
  <2> QED BY <2>1, <2>2
<1>2. TypeOK /\ GenInv /\ [Next]_vars => (TypeOK /\ GenInv)'
  BY TypeStep, GenStep
<1> QED BY <1>1, <1>2, GenInit, PTL DEF Spec

\* So finish_reason tells a budget that ran out from a model that stopped.
THEOREM TruncatedIsRight == Spec => []TruncatedIsTrue
<1>1. TypeOK /\ GenInv => TruncatedIsTrue
  <2> SUFFICES ASSUME TypeOK, GenInv, NEW c \in Requests,
                      at[c] = "prove", gen[c].extra = << >>
      PROVE  /\ shape[c].eos > shape[c].max => ~gen[c].stopped
             /\ shape[c].eos < shape[c].max => gen[c].stopped
    BY DEF TruncatedIsTrue
  <2>1. shape[c].max \in Nat /\ shape[c].eos \in Nat \ {0}
        /\ ChunkInv(gen[c], shape[c].max, shape[c].eos)
    BY ShapeType
  <2>2. Ended(gen[c], shape[c].max)
    BY DEF GenInv
  <2> QED BY <2>1, <2>2, ChunksDone
<1>2. TypeOK /\ GenInv /\ [Next]_vars => (TypeOK /\ GenInv)'
  BY TypeStep, GenStep
<1> QED BY <1>1, <1>2, GenInit, PTL DEF Spec

-----------------------------------------------------------------------------
(* The serve slots.                                                        *)

\* The requests that hold a slot on a serve.
Holders(s) == {c \in Requests : on[c] = s /\ at[c] \in Generating}

SlotInv ==
    /\ SlotsAreExact
    /\ \A c \in Requests : at[c] \in Generating => on[c] \in Serves

\* The counts and the requests that hold their slots.
LEMMA SlotFacts ==
    ASSUME TypeOK, SlotInv
    PROVE  /\ on \in [Requests -> Serves \cup {None}]
           /\ inflight \in [Serves -> Nat]
           /\ None \notin Serves
           /\ \A s \in Serves : inflight[s] = Cardinality(Holders(s))
           /\ \A s \in Serves : IsFiniteSet(Holders(s))
<1>1. on \in [Requests -> Serves \cup {None}] /\ inflight \in [Serves -> Nat]
  BY DEF TypeOK
<1>2. None \notin Serves
  BY JobAssumption DEF Serves
<1>3. \A s \in Serves : inflight[s] = Cardinality(Holders(s))
  BY DEF SlotInv, SlotsAreExact, Holders
<1>4. \A s : Holders(s) \in SUBSET Requests
  BY DEF Holders
<1>5. \A s \in Serves : IsFiniteSet(Holders(s))
  BY <1>4, FS_Subset, JobAssumption
<1> QED BY <1>1, <1>2, <1>3, <1>5

\* Nothing changes hands.
LEMMA SlotsStay ==
    ASSUME TypeOK, SlotInv, UNCHANGED <<on, inflight>>,
           \A d \in Requests : at'[d] \in Generating <=> at[d] \in Generating
    PROVE  SlotInv'
<1>1. \A s : Holders(s)' = Holders(s)
  BY DEF Holders
<1>2. \A s \in Serves : inflight'[s] = Cardinality(Holders(s)')
  BY <1>1, SlotFacts
<1>3. SlotsAreExact'
  BY <1>2 DEF SlotsAreExact, Holders
<1> QED BY <1>3 DEF SlotInv

\* A slot is given back, once.
LEMMA SlotLeaves ==
    ASSUME TypeOK, SlotInv, NEW c \in Requests, at[c] \in Generating,
           NEW p, p \notin Generating, at' = [at EXCEPT ![c] = p],
           Release(c), UNCHANGED on
    PROVE  SlotInv'
<1>1. PICK u \in Serves : u = on[c]
  BY DEF SlotInv
<1>2. at'[c] = p /\ \A d \in Requests \ {c} : at'[d] = at[d]
  BY FunctionTypes
<1>3. Holders(u)' = Holders(u) \ {c} /\ c \in Holders(u)
  BY <1>1, <1>2 DEF Holders
<1>4. \A s \in Serves \ {u} : Holders(s)' = Holders(s)
  BY <1>1, <1>2 DEF Holders
<1> DEFINE n == inflight[u]
<1>5. n \in Nat /\ n = Cardinality(Holders(u)) /\ IsFiniteSet(Holders(u))
  BY <1>1, SlotFacts
<1>6. Cardinality(Holders(u)') = n - 1 /\ n # 0
  <2> HIDE DEF n
  <2>1. Cardinality(Holders(u) \ {c}) = n - 1 /\ IsFiniteSet(Holders(u) \ {c})
    BY <1>3, <1>5, FS_RemoveElement
  <2>2. n - 1 \in Nat
    BY <2>1, FS_CardinalityType
  <2> QED BY <1>3, <1>5, <2>1, <2>2
<1>7. inflight'[u] = n - 1 /\ \A s \in Serves \ {u} : inflight'[s] = inflight[s]
  BY <1>1, <1>5, <1>6, SlotFacts DEF Release
<1>8. \A s \in Serves : inflight'[s] = Cardinality(Holders(s)')
  <2> HIDE DEF n
  <2>1. inflight'[u] = Cardinality(Holders(u)')
    BY <1>6, <1>7
  <2>2. ASSUME NEW s \in Serves, s # u
        PROVE  inflight'[s] = Cardinality(Holders(s)')
    <3>1. inflight'[s] = inflight[s] /\ Holders(s)' = Holders(s)
      BY <1>4, <1>7, <2>2
    <3> QED BY <3>1, SlotFacts
  <2> QED BY <2>1, <2>2
<1>9. SlotsAreExact'
  BY <1>8 DEF SlotsAreExact, Holders
<1>10. \A d \in Requests : at'[d] \in Generating => on[d] \in Serves
  BY <1>2 DEF SlotInv
<1> QED BY <1>9, <1>10 DEF SlotInv

\* A slot is taken.
LEMMA SlotTaken ==
    ASSUME TypeOK, SlotInv, NEW c \in Requests, Picks(c)
    PROVE  SlotInv'
<1>1. PICK u \in Serves : /\ on' = [on EXCEPT ![c] = u]
                          /\ inflight' = [inflight EXCEPT ![u] = @ + 1]
  BY DEF Picks
<1>2. at[c] = "prep" /\ at' = [at EXCEPT ![c] = "top"]
  BY DEF Picks
<1>3. /\ at'[c] = "top" /\ \A d \in Requests \ {c} : at'[d] = at[d]
      /\ on'[c] = u /\ \A d \in Requests \ {c} : on'[d] = on[d]
  BY <1>1, <1>2, FunctionTypes, SlotFacts
<1>4. Holders(u)' = Holders(u) \cup {c} /\ c \notin Holders(u)
  BY <1>2, <1>3 DEF Holders, Generating
<1>5. \A s \in Serves \ {u} : Holders(s)' = Holders(s)
  BY <1>2, <1>3 DEF Holders, Generating
<1> DEFINE n == inflight[u]
<1>6. n \in Nat /\ n = Cardinality(Holders(u)) /\ IsFiniteSet(Holders(u))
  BY <1>1, SlotFacts
<1>7. Cardinality(Holders(u)') = n + 1
  <2> HIDE DEF n
  <2> QED BY <1>4, <1>6, FS_AddElement
<1>8. inflight'[u] = n + 1 /\ \A s \in Serves \ {u} : inflight'[s] = inflight[s]
  BY <1>1, SlotFacts
<1>9. \A s \in Serves : inflight'[s] = Cardinality(Holders(s)')
  <2> HIDE DEF n
  <2> QED BY <1>5, <1>7, <1>8, SlotFacts
<1>10. SlotsAreExact'
  BY <1>9 DEF SlotsAreExact, Holders
<1>11. \A d \in Requests : at'[d] \in Generating => on'[d] \in Serves
  BY <1>3 DEF SlotInv
<1> QED BY <1>10, <1>11 DEF SlotInv

\* A generation that is left gives its slot back.
LEMMA SlotUnwinds ==
    ASSUME TypeOK, SlotInv, NEW c \in Requests, at[c] \in Generating,
           NEW how, NEW deltas, Unwinds(c, how, deltas)
    PROVE  SlotInv'
<1>1. at' = [at EXCEPT ![c] = "over"] /\ Release(c) /\ UNCHANGED on
  BY DEF Unwinds, Settle
<1>2. "over" \notin Generating
  BY DEF Generating
<1> QED BY <1>1, <1>2, SlotLeaves

\* Every step keeps the slots.
LEMMA SlotStep ==
    ASSUME TypeOK, GenInv, SlotInv, [Next]_vars
    PROVE  SlotInv'
<1> USE FunctionTypes DEF loop, work, call, hist
<1>1. ASSUME NEW c \in Requests, ReadsServe(c) PROVE SlotInv'
  BY <1>1, SlotsStay DEF ReadsServe
<1>2. ASSUME NEW c \in Requests, Starts(c) PROVE SlotInv'
  BY <1>2, SlotsStay DEF Starts, GenInv, Generating
<1>3. ASSUME NEW c \in Requests, ReadsCancel(c) PROVE SlotInv'
  BY <1>3, SlotsStay DEF ReadsCancel
<1>4. ASSUME NEW c \in Requests, SendsChunk(c) PROVE SlotInv'
  BY <1>4, SlotsStay DEF SendsChunk
<1>5. ASSUME NEW c \in Requests, Answers(c) PROVE SlotInv'
  BY <1>5, SlotsStay DEF Answers
<1>6. ASSUME NEW c \in Requests, ThreadStarts(c) PROVE SlotInv'
  BY <1>6, SlotsStay DEF ThreadStarts, Generating
<1>7. ASSUME NEW c \in Requests, PrepFails(c) PROVE SlotInv'
  BY <1>7, SlotsStay DEF PrepFails, Settle, Generating
<1>8. ASSUME NEW c \in Requests, Registers(c) PROVE SlotInv'
  BY <1>8, SlotsStay DEF Registers, Generating
<1>9. ASSUME NEW c \in Requests, Posts(c) PROVE SlotInv'
  BY <1>9, SlotsStay DEF Posts, Generating
<1>10. ASSUME NEW c \in Requests, Proves(c) PROVE SlotInv'
  BY <1>10, SlotsStay DEF Proves, Settle, Generating
<1>11. ASSUME NEW c \in Requests, AbortStarts(c) PROVE SlotInv'
  BY <1>11, SlotsStay DEF AbortStarts
<1>12. ASSUME NEW c \in Requests, AbortLands(c) PROVE SlotInv'
  BY <1>12, SlotsStay DEF AbortLands
<1>13. ASSUME NEW c \in Requests, AbortFails(c) PROVE SlotInv'
  BY <1>13, SlotsStay DEF AbortFails
<1>14. ASSUME NEW c \in Requests, Picks(c) PROVE SlotInv'
  BY <1>14, SlotTaken
<1>15. ASSUME NEW c \in Requests, ChecksTop(c) PROVE SlotInv'
  <2>1. CASE Unwinds(c, "cancelled", queue[c])
    BY <1>15, <2>1, SlotUnwinds DEF ChecksTop, Generating
  <2>2. CASE ~Unwinds(c, "cancelled", queue[c])
    BY <1>15, <2>2, SlotsStay DEF ChecksTop, Generating
  <2> QED BY <2>1, <2>2
<1>16. ASSUME NEW c \in Requests, Event(c) PROVE SlotInv'
  <2>1. CASE Unwinds(c, "cancelled", queue[c])
    BY <1>16, <2>1, SlotUnwinds DEF Event, Generating
  <2>2. CASE ~Unwinds(c, "cancelled", queue[c])
    BY <1>16, <2>2, SlotsStay DEF Event
  <2> QED BY <2>1, <2>2
<1>17. ASSUME NEW c \in Requests, Returns(c) PROVE SlotInv'
  <2>1. at[c] = "gen" /\ "gen" \in Generating /\ "top" \in Generating
    BY <1>17 DEF Returns, Generating
  <2>2. \/ \E n \in 0..Len(pend[c]), how \in {"error", "cancelled"} :
               Unwinds(c, how, Handed(c, pend[c], n))
        \/ at' = [at EXCEPT ![c] = "top"] /\ UNCHANGED <<on, inflight>>
    BY <1>17 DEF Returns
  <2>3. CASE \E n \in 0..Len(pend[c]), how \in {"error", "cancelled"} :
                 Unwinds(c, how, Handed(c, pend[c], n))
    BY <2>1, <2>3, SlotUnwinds
  <2>4. CASE at' = [at EXCEPT ![c] = "top"] /\ UNCHANGED <<on, inflight>>
    BY <2>1, <2>4, SlotsStay
  <2> QED BY <2>2, <2>3, <2>4
<1>18. ASSUME NEW c \in Requests, CallFails(c) PROVE SlotInv'
  BY <1>18, SlotUnwinds DEF CallFails, Registered, Generating
<1>19. ASSUME NEW c \in Requests, LoopEnds(c) PROVE SlotInv'
  BY <1>19, SlotLeaves DEF LoopEnds, Generating
<1>20. ASSUME SocketEnds PROVE SlotInv'
  BY <1>20, SlotsStay DEF SocketEnds
<1>21. ASSUME UNCHANGED vars PROVE SlotInv'
  BY <1>21, SlotsStay DEF vars
<1> QED
  BY <1>1, <1>2, <1>3, <1>4, <1>5, <1>6, <1>7, <1>8, <1>9, <1>10, <1>11,
     <1>12, <1>13, <1>14, <1>15, <1>16, <1>17, <1>18, <1>19, <1>20, <1>21
     DEF Next, Coroutine, Thread, Reply, Abort, Idle

\* No generation holds a slot at first.
LEMMA SlotInit == Init => SlotInv
<1> SUFFICES ASSUME Init PROVE SlotInv
  OBVIOUS
<1>1. \A c \in Requests : at[c] \notin Generating
  BY DEF Init, Generating
<1>2. \A s : Holders(s) = {}
  BY <1>1 DEF Holders
<1>3. \A s \in Serves : inflight[s] = Cardinality(Holders(s))
  BY <1>2, FS_EmptySet DEF Init
<1> QED BY <1>1, <1>3 DEF SlotInv, SlotsAreExact, Holders

\* However a generation ends, its slot goes back to its serve, once.
THEOREM SlotsGoBack == Spec => []SlotsAreExact
<1>1. TypeOK /\ GenInv /\ SlotInv /\ [Next]_vars
          => (TypeOK /\ GenInv /\ SlotInv)'
  BY TypeStep, GenStep, SlotStep
<1>2. SlotInv => SlotsAreExact
  BY DEF SlotInv
<1> QED BY <1>1, <1>2, GenInit, SlotInit, PTL DEF Spec

-----------------------------------------------------------------------------
(* Cancelled requests.                                                     *)

\* A queue without the end in it.
IsText(q) == \A i \in 1..Len(q) : q[i] # << >>

\* The end is queued, and an answer sent, only once the thread has ended.
EndInv ==
    \A c \in Requests :
        /\ at[c] # "over" => IsText(queue[c])
        /\ answer[c] # "none" => at[c] = "over" /\ result[c] # "cancelled"
        /\ answer[c] = "response" => result[c] = "ok"

\* A thread whose request was cancelled in time stays on a way that ends
\* without an answer, and begins at most the call it was about to make.
CancelInv ==
    \A c \in Requests :
        /\ ~flag[c] => caught[c] = "none" /\ late[c] = 0
        /\ caught[c] \in Stoppable =>
              \/ /\ at[c] \in Stoppable
                 /\ at[c] \in {"queued", "prep", "top"} =>
                        ~Ended(gen[c], shape[c].max)
              \/ at[c] = "over" /\ result[c] \in {"error", "cancelled"}
        /\ caught[c] \in Generating =>
              at[c] \in Generating \/ (at[c] = "over" /\ result[c] = "cancelled")
        /\ late[c] <= IF caught[c] \in {"checked", "rid"} THEN 1 ELSE 0
        /\ (flag[c] /\ at[c] \in {"checked", "rid"}) =>
              caught[c] \in {"checked", "rid"} /\ late[c] = 0

\* The variables they speak of are functions.
LEMMA MoreFunctions ==
    ASSUME TypeOK
    PROVE  /\ queue \in [Requests -> Seq(Seq(Nat))]
           /\ answer \in [Requests -> {"none", "response", "error"}]
           /\ result \in [Requests -> {"none", "ok", "error", "cancelled"}]
           /\ caught \in [Requests -> Places]
           /\ late \in [Requests -> Nat]
BY DEF TypeOK, Places

\* Every step keeps the account of cancelled requests.
LEMMA CancelStep ==
    ASSUME TypeOK, GenInv, CancelInv, [Next]_vars
    PROVE  CancelInv'
<1> USE FunctionTypes, MoreFunctions
        DEF CancelInv, Stoppable, Generating, loop, work, call, hist
<1>1. ASSUME NEW c \in Requests, ReadsServe(c) PROVE CancelInv'
  BY <1>1 DEF ReadsServe
<1>2. ASSUME NEW c \in Requests, Starts(c) PROVE CancelInv'
  BY <1>2 DEF Starts, GenInv
<1>3. ASSUME NEW c \in Requests, ReadsCancel(c) PROVE CancelInv'
  BY <1>3 DEF ReadsCancel
<1>4. ASSUME NEW c \in Requests, SendsChunk(c) PROVE CancelInv'
  BY <1>4 DEF SendsChunk
<1>5. ASSUME NEW c \in Requests, Answers(c) PROVE CancelInv'
  BY <1>5 DEF Answers
<1>6. ASSUME NEW c \in Requests, ThreadStarts(c) PROVE CancelInv'
  BY <1>6 DEF ThreadStarts
<1>7. ASSUME NEW c \in Requests, PrepFails(c) PROVE CancelInv'
  BY <1>7 DEF PrepFails, Settle
<1>8. ASSUME NEW c \in Requests, ChecksTop(c) PROVE CancelInv'
  BY <1>8 DEF ChecksTop, Unwinds, Settle
<1>9. ASSUME NEW c \in Requests, Registers(c) PROVE CancelInv'
  BY <1>9 DEF Registers
<1>10. ASSUME NEW c \in Requests, Posts(c) PROVE CancelInv'
  BY <1>10 DEF Posts
<1>11. ASSUME NEW c \in Requests, Event(c) PROVE CancelInv'
  <2>1. /\ at[c] = "gen" /\ UNCHANGED <<gen, shape, flag, caught, late>>
        /\ \/ /\ at' = [at EXCEPT ![c] = "over"]
              /\ result' = [result EXCEPT ![c] = "cancelled"]
           \/ UNCHANGED <<at, result>>
    BY <1>11 DEF Event, Unwinds, Settle
  <2> QED BY <2>1
<1>12. ASSUME NEW c \in Requests, CallFails(c) PROVE CancelInv'
  BY <1>12 DEF CallFails, Unwinds, Settle, Registered
<1>13. ASSUME NEW c \in Requests, LoopEnds(c) PROVE CancelInv'
  BY <1>13 DEF LoopEnds
<1>14. ASSUME NEW c \in Requests, Proves(c) PROVE CancelInv'
  BY <1>14 DEF Proves, Settle
<1>15. ASSUME NEW c \in Requests, AbortStarts(c) PROVE CancelInv'
  BY <1>15 DEF AbortStarts
<1>16. ASSUME NEW c \in Requests, AbortLands(c) PROVE CancelInv'
  BY <1>16 DEF AbortLands
<1>17. ASSUME NEW c \in Requests, AbortFails(c) PROVE CancelInv'
  BY <1>17 DEF AbortFails
<1>18. ASSUME NEW c \in Requests, Picks(c) PROVE CancelInv'
  BY <1>18 DEF Picks
<1>19. ASSUME NEW c \in Requests, Returns(c) PROVE CancelInv'
  <2>1. CASE at'[c] = "over"
    <3>1. at'[c] # "top"
      BY <2>1
    <3>2. PICK how \in {"cancelled", "error"} :
             /\ how = "error" => ~flag[c]
             /\ at' = [at EXCEPT ![c] = "over"]
             /\ result' = [result EXCEPT ![c] = how]
             /\ UNCHANGED <<gen, shape, flag, caught, late>>
      BY <1>19, <3>1 DEF Returns, Unwinds, Settle
    <3>3. at[c] = "gen"
      BY <1>19 DEF Returns
    <3> QED BY <3>2, <3>3
  <2>2. CASE at'[c] # "over"
    <3>1. /\ gen' = [gen EXCEPT ![c] = gen'[c]]
          /\ at' = [at EXCEPT ![c] = "top"]
          /\ ~flag[c]
          /\ UNCHANGED <<shape, flag, result, caught, late>>
      BY <1>19, <2>2, ReturnsExtends
    <3>2. gen \in [Requests -> GenType]
      BY DEF TypeOK, GenType
    <3> QED BY <3>1, <3>2
  <2> QED BY <2>1, <2>2
<1>20. ASSUME SocketEnds PROVE CancelInv'
  BY <1>20 DEF SocketEnds
<1>21. ASSUME UNCHANGED vars PROVE CancelInv'
  BY <1>21 DEF vars
<1> QED
  BY <1>1, <1>2, <1>3, <1>4, <1>5, <1>6, <1>7, <1>8, <1>9, <1>10, <1>11,
     <1>12, <1>13, <1>14, <1>15, <1>16, <1>17, <1>18, <1>19, <1>20, <1>21
     DEF Next, Coroutine, Thread, Reply, Abort, Idle

\* What a thread hands to the queue is never the end.
LEMMA HandedIsText ==
    ASSUME TypeOK, NEW c \in Requests, NEW text \in Seq(Nat),
           NEW n \in 0..Len(text),
           IsText(queue[c])
    PROVE  IsText(Handed(c, text, n))
<1> USE DEF IsText
<1> DEFINE t == SubSeq(text, 1, n)
           q == queue[c]
<1>1. q \in Seq(Seq(Nat))
  BY RequestType
<1>2. CASE n = 0
  BY <1>2 DEF Handed
<1>3. CASE n # 0
  <2>1. \A i \in 1..n : text[i] \in Nat
    OBVIOUS
  <2>2. t \in Seq(Nat) /\ Len(t) = n
    BY <1>3, <2>1, SubSeqProperties
  <2>3. t # << >>
    BY <1>3, <2>2, EmptySeq
  <2>4. Handed(c, text, n) = Append(q, t)
    BY <1>3 DEF Handed
  <2> HIDE DEF t, q
  <2>5. Len(Append(q, t)) = Len(q) + 1
        /\ \A i \in 1..(Len(q) + 1) :
              Append(q, t)[i] = IF i = Len(q) + 1 THEN t ELSE q[i]
    BY <1>1, <2>2
  <2>6. \A i \in 1..Len(q) : q[i] # << >>
    BY DEF q
  <2>7. \A i \in 1..(Len(q) + 1) : i # Len(q) + 1 => i \in 1..Len(q)
    BY <1>1
  <2> QED BY <2>3, <2>4, <2>5, <2>6, <2>7
<1> QED BY <1>2, <1>3

\* Nor does taking one from the front bring the end in.
LEMMA TailIsText ==
    ASSUME NEW S, NEW q \in Seq(S), q # << >>, IsText(q)
    PROVE  Head(q) # << >> /\ IsText(Tail(q))
<1>1. /\ Head(q) = q[1] /\ Len(q) \in Nat \ {0}
      /\ Len(Tail(q)) = Len(q) - 1
      /\ \A i \in 1..(Len(q) - 1) : Tail(q)[i] = q[i + 1]
  BY HeadTailProperties, EmptySeq
<1>2. \A i \in 1..(Len(q) - 1) : i + 1 \in 1..Len(q)
  BY <1>1
<1> QED BY <1>1, <1>2 DEF IsText

\* A thread that ends keeps the order: its end, then the answer.
LEMMA EndSettles ==
    ASSUME TypeOK, EndInv, NEW c \in Requests, at[c] # "over",
           NEW how \in {"ok", "error", "cancelled"}, NEW deltas,
           Settle(c, how, deltas), UNCHANGED answer
    PROVE  EndInv'
<1>1. answer[c] = "none"
  BY DEF EndInv
<1>2. /\ at' = [at EXCEPT ![c] = "over"]
      /\ result' = [result EXCEPT ![c] = how]
      /\ \A d \in Requests : d # c => queue'[d] = queue[d]
  BY MoreFunctions DEF Settle
<1> QED BY <1>1, <1>2, FunctionTypes, MoreFunctions DEF EndInv

\* A step that hands text to the queue keeps it too.
LEMMA EndHands ==
    ASSUME TypeOK, EndInv, NEW c \in Requests, at[c] # "over",
           NEW text \in Seq(Nat), NEW n \in 0..Len(text),
           queue' = [queue EXCEPT ![c] = Handed(c, text, n)],
           UNCHANGED <<answer, result>>,
           \A d \in Requests : at'[d] = "over" => at[d] = "over",
           \A d \in Requests : at[d] = "over" => at'[d] = "over"
    PROVE  EndInv'
<1>1. IsText(Handed(c, text, n))
  BY HandedIsText DEF EndInv
<1>2. queue'[c] = Handed(c, text, n)
      /\ \A d \in Requests : d # c => queue'[d] = queue[d]
  BY MoreFunctions
<1> QED BY <1>1, <1>2 DEF EndInv

\* And one that does not touch the queue.
LEMMA EndStays ==
    ASSUME EndInv, UNCHANGED <<queue, answer, result>>,
           \A d \in Requests : at'[d] = "over" <=> at[d] = "over"
    PROVE  EndInv'
BY DEF EndInv

\* Every step keeps the account of ends.
LEMMA EndStep ==
    ASSUME TypeOK, GenInv, EndInv, [Next]_vars
    PROVE  EndInv'
<1> USE DEF loop, work, call, hist
<1>1. ASSUME NEW c \in Requests, ReadsServe(c) PROVE EndInv'
  <2>1. /\ UNCHANGED <<queue, answer, result>>
        /\ \A d \in Requests : at'[d] = "over" <=> at[d] = "over"
    BY <1>1, FunctionTypes DEF ReadsServe
  <2> QED BY <2>1, EndStays
<1>2. ASSUME NEW c \in Requests, ReadsCancel(c) PROVE EndInv'
  <2>1. /\ UNCHANGED <<queue, answer, result>>
        /\ \A d \in Requests : at'[d] = "over" <=> at[d] = "over"
    BY <1>2, FunctionTypes DEF ReadsCancel
  <2> QED BY <2>1, EndStays
<1>3. ASSUME NEW c \in Requests, ThreadStarts(c) PROVE EndInv'
  <2>1. /\ UNCHANGED <<queue, answer, result>>
        /\ \A d \in Requests : at'[d] = "over" <=> at[d] = "over"
    BY <1>3, FunctionTypes DEF ThreadStarts
  <2> QED BY <2>1, EndStays
<1>4. ASSUME NEW c \in Requests, Picks(c) PROVE EndInv'
  <2>1. /\ UNCHANGED <<queue, answer, result>>
        /\ \A d \in Requests : at'[d] = "over" <=> at[d] = "over"
    BY <1>4, FunctionTypes DEF Picks
  <2> QED BY <2>1, EndStays
<1>5. ASSUME NEW c \in Requests, Registers(c) PROVE EndInv'
  <2>1. /\ UNCHANGED <<queue, answer, result>>
        /\ \A d \in Requests : at'[d] = "over" <=> at[d] = "over"
    BY <1>5, FunctionTypes DEF Registers
  <2> QED BY <2>1, EndStays
<1>6. ASSUME NEW c \in Requests, Posts(c) PROVE EndInv'
  <2>1. /\ UNCHANGED <<queue, answer, result>>
        /\ \A d \in Requests : at'[d] = "over" <=> at[d] = "over"
    BY <1>6, FunctionTypes DEF Posts
  <2> QED BY <2>1, EndStays
<1>7. ASSUME NEW c \in Requests, AbortStarts(c) PROVE EndInv'
  <2>1. /\ UNCHANGED <<queue, answer, result>>
        /\ \A d \in Requests : at'[d] = "over" <=> at[d] = "over"
    BY <1>7, FunctionTypes DEF AbortStarts
  <2> QED BY <2>1, EndStays
<1>8. ASSUME NEW c \in Requests, AbortLands(c) PROVE EndInv'
  <2>1. /\ UNCHANGED <<queue, answer, result>>
        /\ \A d \in Requests : at'[d] = "over" <=> at[d] = "over"
    BY <1>8, FunctionTypes DEF AbortLands
  <2> QED BY <2>1, EndStays
<1>9. ASSUME NEW c \in Requests, AbortFails(c) PROVE EndInv'
  <2>1. /\ UNCHANGED <<queue, answer, result>>
        /\ \A d \in Requests : at'[d] = "over" <=> at[d] = "over"
    BY <1>9, FunctionTypes DEF AbortFails
  <2> QED BY <2>1, EndStays
<1>10. ASSUME NEW c \in Requests, Starts(c) PROVE EndInv'
  <2>1. at[c] = "none"
    BY <1>10 DEF Starts, GenInv
  <2>2. /\ UNCHANGED <<queue, answer, result>>
        /\ \A d \in Requests : at'[d] = "over" <=> at[d] = "over"
    BY <1>10, <2>1, FunctionTypes DEF Starts
  <2> QED BY <2>2, EndStays
<1>11. ASSUME NEW c \in Requests, SendsChunk(c) PROVE EndInv'
  <2>1. /\ queue[c] # << >> /\ queue[c] \in Seq(Seq(Nat))
        /\ queue' = [queue EXCEPT ![c] = Tail(@)]
        /\ UNCHANGED <<at, answer, result>>
    BY <1>11, MoreFunctions DEF SendsChunk
  <2>2. IsText(queue[c]) => IsText(Tail(queue[c]))
    BY <2>1, TailIsText
  <2> QED BY <2>1, <2>2, MoreFunctions DEF EndInv
<1>12. ASSUME NEW c \in Requests, Answers(c) PROVE EndInv'
  <2>1. /\ queue[c] # << >> /\ Head(queue[c]) = << >>
        /\ queue[c] \in Seq(Seq(Nat))
        /\ queue' = [queue EXCEPT ![c] = Tail(@)]
        /\ UNCHANGED <<at, result>>
    BY <1>12, MoreFunctions DEF Answers
  <2>2. ~IsText(queue[c])
    BY <2>1, TailIsText
  <2>3. at[c] = "over"
    BY <2>2 DEF EndInv
  <2> DEFINE said == IF c \in gone \/ result[c] = "cancelled" THEN "none"
                     ELSE IF result[c] = "ok" THEN "response" ELSE "error"
  <2>4. /\ answer' = [answer EXCEPT ![c] = said]
        /\ said # "none" => result[c] # "cancelled"
        /\ said = "response" => result[c] = "ok"
    BY <1>12 DEF Answers
  <2> HIDE DEF said
  <2> QED BY <2>1, <2>3, <2>4, MoreFunctions DEF EndInv
<1>13. ASSUME NEW c \in Requests, PrepFails(c) PROVE EndInv'
  <2>1. at[c] # "over" /\ Settle(c, "error", queue[c]) /\ UNCHANGED answer
    BY <1>13 DEF PrepFails
  <2> QED BY <2>1, EndSettles
<1>14. ASSUME NEW c \in Requests, ChecksTop(c) PROVE EndInv'
  <2>1. at[c] # "over"
    BY <1>14 DEF ChecksTop
  <2>2. CASE Unwinds(c, "cancelled", queue[c])
    <3>1. Settle(c, "cancelled", queue[c]) /\ UNCHANGED answer
      BY <2>2 DEF Unwinds
    <3> QED BY <2>1, <3>1, EndSettles
  <2>3. CASE ~Unwinds(c, "cancelled", queue[c])
    <3>1. /\ UNCHANGED <<queue, answer, result>>
          /\ \A d \in Requests : at'[d] = "over" <=> at[d] = "over"
      BY <1>14, <2>1, <2>3, FunctionTypes DEF ChecksTop
    <3> QED BY <3>1, EndStays
  <2> QED BY <2>2, <2>3
<1>15. ASSUME NEW c \in Requests, Event(c) PROVE EndInv'
  <2>1. at[c] # "over"
    BY <1>15 DEF Event
  <2>2. CASE Unwinds(c, "cancelled", queue[c])
    <3>1. Settle(c, "cancelled", queue[c]) /\ UNCHANGED answer
      BY <2>2 DEF Unwinds
    <3> QED BY <2>1, <3>1, EndSettles
  <2>3. CASE ~Unwinds(c, "cancelled", queue[c])
    <3>1. PICK last \in (seen[c] + 1)..Least(seen[c] + PerEvent, End(c)) :
             LET text == pend[c] \o NewText(c, last)
             IN  \E n \in 0..Len(text) :
                    queue' = [queue EXCEPT ![c] = Handed(c, text, n)]
      BY <1>15, <2>3 DEF Event
    <3> DEFINE text == pend[c] \o NewText(c, last)
    <3>2. PICK n \in 0..Len(text) :
             queue' = [queue EXCEPT ![c] = Handed(c, text, n)]
      BY <3>1
    <3>3. NewText(c, last) \in Seq(Nat)
      <4>1. seen[c] \in Nat
        BY RequestType
      <4>2. last \in Nat /\ seen[c] + 1 <= last
        BY <4>1
      <4> QED BY <4>1, <4>2, NewTextType
    <3>4. text \in Seq(Nat)
      BY <3>3, RequestType
    <3>5. UNCHANGED <<at, answer, result>>
      BY <1>15, <2>3 DEF Event
    <3> HIDE DEF text
    <3> QED BY <2>1, <3>2, <3>4, <3>5, EndHands
  <2> QED BY <2>2, <2>3
<1>16. ASSUME NEW c \in Requests, Returns(c) PROVE EndInv'
  <2>1. at[c] # "over"
    BY <1>16 DEF Returns
  <2>2. CASE at'[c] = "over"
    <3>1. at'[c] # "top"
      BY <2>2
    <3>2. PICK how \in {"cancelled", "error"}, n \in 0..Len(pend[c]) :
             Unwinds(c, how, Handed(c, pend[c], n))
      BY <1>16, <3>1, FunctionTypes DEF Returns
    <3>3. /\ Settle(c, how, Handed(c, pend[c], n))
          /\ UNCHANGED answer
      BY <3>2 DEF Unwinds
    <3> QED BY <2>1, <3>3, EndSettles
  <2>3. CASE at'[c] # "over"
    <3>1. PICK n \in 0..Len(pend[c]) :
             queue' = [queue EXCEPT ![c] = Handed(c, pend[c], n)]
      BY <1>16, <2>3, ReturnsExtends
    <3>2. /\ UNCHANGED <<answer, result>>
          /\ at' = [at EXCEPT ![c] = "top"]
      BY <1>16, <2>3, ReturnsExtends
    <3>3. pend[c] \in Seq(Nat)
      BY RequestType
    <3>4. \A d \in Requests : at'[d] = "over" <=> at[d] = "over"
      BY <2>1, <3>2, FunctionTypes
    <3> QED BY <2>1, <3>1, <3>2, <3>3, <3>4, EndHands
  <2> QED BY <2>2, <2>3
<1>17. ASSUME NEW c \in Requests, CallFails(c) PROVE EndInv'
  <2>1. at[c] # "over"
    BY <1>17 DEF CallFails, Registered
  <2>2. PICK how \in {"ok", "error", "cancelled"} :
           Unwinds(c, how, queue[c])
    BY <1>17 DEF CallFails
  <2>3. Settle(c, how, queue[c]) /\ UNCHANGED answer
    BY <2>2 DEF Unwinds
  <2> QED BY <2>1, <2>3, EndSettles
<1>18. ASSUME NEW c \in Requests, LoopEnds(c) PROVE EndInv'
  <2>1. /\ at[c] # "over" /\ at' = [at EXCEPT ![c] = "prove"]
        /\ queue' = [queue EXCEPT ![c] = Handed(c, pend[c], Len(pend[c]))]
        /\ UNCHANGED <<answer, result>>
    BY <1>18 DEF LoopEnds
  <2>2. pend[c] \in Seq(Nat) /\ Len(pend[c]) \in 0..Len(pend[c])
    BY RequestType
  <2>3. \A d \in Requests : at'[d] = "over" <=> at[d] = "over"
    BY <2>1, FunctionTypes
  <2> QED BY <2>1, <2>2, <2>3, EndHands
<1>19. ASSUME NEW c \in Requests, Proves(c) PROVE EndInv'
  <2>1. at[c] # "over" /\ UNCHANGED answer
    BY <1>19 DEF Proves
  <2>2. PICK how \in {"ok", "error"} : Settle(c, how, queue[c])
    BY <1>19 DEF Proves
  <2> QED BY <2>1, <2>2, EndSettles
<1>20. ASSUME SocketEnds PROVE EndInv'
  BY <1>20, EndStays DEF SocketEnds
<1>21. ASSUME UNCHANGED vars PROVE EndInv'
  BY <1>21, EndStays DEF vars
<1> QED
  BY <1>1, <1>2, <1>3, <1>4, <1>5, <1>6, <1>7, <1>8, <1>9, <1>10, <1>11,
     <1>12, <1>13, <1>14, <1>15, <1>16, <1>17, <1>18, <1>19, <1>20, <1>21
     DEF Next, Coroutine, Thread, Reply, Abort, Idle

\* Both hold at first.
LEMMA CancelInit == Init => CancelInv /\ EndInv
<1> SUFFICES ASSUME Init PROVE CancelInv /\ EndInv
  OBVIOUS
<1>1. CancelInv
  BY DEF Init, CancelInv, Stoppable, Generating
<1>2. Len(<< >>) = 0
  BY EmptySeq
<1>3. EndInv
  BY <1>2 DEF Init, EndInv, IsText
<1> QED BY <1>1, <1>3

\* Everything that is kept about cancelled requests.
LEMMA CancelKept == Spec => [](CancelInv /\ EndInv)
<1>1. TypeOK /\ GenInv /\ CancelInv /\ EndInv /\ [Next]_vars
          => (TypeOK /\ GenInv /\ CancelInv /\ EndInv)'
  BY TypeStep, GenStep, CancelStep, EndStep
<1> QED BY <1>1, GenInit, CancelInit, PTL DEF Spec

\* A buyer who left in time is never answered, and so never billed.
THEOREM QuietWhenCancelled == Spec => []QuietAfterCancel
<1>1. CancelInv /\ EndInv => QuietAfterCancel
  BY DEF CancelInv, EndInv, QuietAfterCancel, Stoppable, Generating
<1> QED BY <1>1, CancelKept, PTL

\* A CANCEL costs no further call but the one that was being made.
THEOREM CancelsStopCalls == Spec => []CancelStopsCalls
<1>1. CancelInv => CancelStopsCalls
  BY DEF CancelInv, CancelStopsCalls
<1> QED BY <1>1, CancelKept, PTL

-----------------------------------------------------------------------------
(* What the buyer is told.                                                 *)

\* The deltas of a queue, behind the tokens that were sent and before those
\* that are held back, are the tokens up to the n-th, in order: ends[i] is
\* where the i-th ends.
InOrder(sent, deltas, held, n) ==
    \E ends \in [0..Len(deltas) -> 0..n] :
        /\ sent = Positions(1, ends[0])
        /\ \A i \in 1..Len(deltas) :
              /\ ends[i - 1] <= ends[i]
              /\ deltas[i] = Positions(ends[i - 1] + 1, ends[i])
        /\ held = Positions(ends[Len(deltas)] + 1, n)

\* A run behind a number of tokens, and its parts.
LEMMA RunBehind ==
    ASSUME NEW a \in Nat, NEW n \in Nat, a <= n
    PROVE  /\ Positions(a + 1, n) \in Seq(Nat)
           /\ Len(Positions(a + 1, n)) = n - a
           /\ \A k \in 0..(n - a) :
                 /\ SubSeq(Positions(a + 1, n), 1, k) = Positions(a + 1, a + k)
                 /\ SubSeq(Positions(a + 1, n), k + 1, n - a)
                        = Positions(a + k + 1, n)
<1> DEFINE b == a + 1
           s == Positions(b, n)
<1>1. b \in Nat \ {0} /\ n \in Int /\ b - 1 <= n /\ n - b + 1 = n - a
  OBVIOUS
<1>2. s \in Seq(Nat) /\ Len(s) = n - a
  <2> HIDE DEF b
  <2> QED BY <1>1, PositionsAre
<1>3. ASSUME NEW k \in 0..(n - a)
      PROVE  /\ SubSeq(s, 1, k) = Positions(a + 1, a + k)
             /\ SubSeq(s, k + 1, n - a) = Positions(a + k + 1, n)
  <2> DEFINE one == 1
             m == k + 1
  <2>1. /\ one \in Nat \ {0} /\ k \in Int /\ one - 1 <= k /\ k <= n - b + 1
        /\ b + one - 1 = a + 1 /\ b + k - 1 = a + k
    OBVIOUS
  <2>2. /\ m \in Nat \ {0} /\ n - a \in Int /\ m - 1 <= n - a
        /\ n - a <= n - b + 1
        /\ b + m - 1 = a + k + 1 /\ b + (n - a) - 1 = n
    OBVIOUS
  <2> DEFINE r == n - a
  <2> HIDE DEF one, m, b, r
  <2>3. SubSeq(Positions(b, n), one, k) = Positions(b + one - 1, b + k - 1)
    BY <1>1, <2>1, PartOfPositions
  <2>4. SubSeq(Positions(b, n), m, r) = Positions(b + m - 1, b + r - 1)
    BY <1>1, <2>2, PartOfPositions DEF r
  <2> QED BY <2>1, <2>2, <2>3, <2>4 DEF one, m, r
<1> QED BY <1>2, <1>3

\* An empty run ends where it begins.
LEMMA EmptyRun ==
    ASSUME NEW a \in Nat, NEW n \in Nat, a <= n, Positions(a + 1, n) = << >>
    PROVE  a = n
<1>1. Len(<< >>) = 0
  BY EmptySeq
<1>2. Len(Positions(a + 1, n)) = n - a
  BY RunBehind
<1> QED BY <1>1, <1>2

\* Nothing is in order.
LEMMA InOrderNothing == InOrder(<< >>, << >>, << >>, 0)
<1> DEFINE ends == [i \in 0..Len(<< >>) |-> 0]
<1>1. Len(<< >>) = 0 /\ Positions(1, 0) = << >>
  BY EmptySeq, PositionsEmpty
<1>2. ends \in [0..Len(<< >>) -> 0..0]
  OBVIOUS
<1>3. ends[0] = 0 /\ ends[Len(<< >>)] = 0
  BY <1>1
<1>4. 0 + 1 = 1
  OBVIOUS
<1> HIDE DEF ends
<1> QED BY <1>1, <1>2, <1>3, <1>4 DEF InOrder

\* One delta is sent.
LEMMA InOrderSend ==
    ASSUME NEW S, NEW q \in Seq(S), q # << >>, NEW f, NEW p, NEW n \in Nat,
           InOrder(f, q, p, n)
    PROVE  InOrder(f \o Head(q), Tail(q), p, n)
<1> DEFINE l == Len(q)
           t == Tail(q)
<1>1. PICK ends \in [0..l -> 0..n] :
        /\ f = Positions(1, ends[0])
        /\ \A i \in 1..l :
              /\ ends[i - 1] <= ends[i]
              /\ q[i] = Positions(ends[i - 1] + 1, ends[i])
        /\ p = Positions(ends[l] + 1, n)
  BY DEF InOrder
<1>2. /\ Head(q) = q[1] /\ l \in Nat \ {0}
      /\ Len(t) = l - 1
      /\ \A i \in 1..(l - 1) : t[i] = q[i + 1]
  BY HeadTailProperties, EmptySeq
<1> DEFINE rest == [i \in 0..(l - 1) |-> ends[i + 1]]
<1>3. rest \in [0..Len(t) -> 0..n]
  BY <1>1, <1>2
<1>4. f \o Head(q) = Positions(1, rest[0])
  <2>1. /\ ends[0] \in Nat /\ ends[1] \in Nat /\ ends[0] <= ends[1]
        /\ q[1] = Positions(ends[0] + 1, ends[1]) /\ rest[0] = ends[1]
    <3>1. 0 \in 0..l /\ 1 \in 0..l /\ 1 \in 1..l /\ 1 - 1 = 0
          /\ 0 \in 0..(l - 1)
          /\ 0 + 1 = 1
      BY <1>2
    <3>2. ends[0] <= ends[1] /\ q[1] = Positions(ends[0] + 1, ends[1])
      BY <1>1, <3>1
    <3> QED BY <1>1, <3>1, <3>2
  <2>2. Positions(1, ends[0]) \o Positions(ends[0] + 1, ends[1])
            = Positions(1, ends[1])
    BY <2>1, RunsFromFirst
  <2> QED BY <1>1, <1>2, <2>1, <2>2
<1>5. ASSUME NEW i \in 1..Len(t)
      PROVE  /\ rest[i - 1] <= rest[i]
             /\ t[i] = Positions(rest[i - 1] + 1, rest[i])
  <2>1. i + 1 \in 1..l /\ i \in 1..(l - 1) /\ i - 1 \in 0..(l - 1)
        /\ i \in 0..(l - 1) /\ (i + 1) - 1 = i /\ (i - 1) + 1 = i
    BY <1>2
  <2>2. rest[i - 1] = ends[i] /\ rest[i] = ends[i + 1]
    BY <2>1
  <2>3. ends[(i + 1) - 1] <= ends[i + 1]
        /\ q[i + 1] = Positions(ends[(i + 1) - 1] + 1, ends[i + 1])
    BY <1>1, <2>1
  <2> QED BY <1>2, <2>1, <2>2, <2>3
<1>6. p = Positions(rest[Len(t)] + 1, n)
  <2>1. Len(t) \in 0..(l - 1) /\ Len(t) + 1 = l
    BY <1>2
  <2> QED BY <1>1, <2>1
<1> HIDE DEF rest, t
<1>7. InOrder(f \o Head(q), t, p, n)
  BY <1>3, <1>4, <1>5, <1>6 DEF InOrder
<1> QED BY <1>7 DEF t

\* Some of what was held back goes to the queue: a delta, or none.
LEMMA InOrderHand ==
    ASSUME NEW S, NEW q \in Seq(S), NEW f, NEW p, NEW n \in Nat,
           InOrder(f, q, p, n), NEW k \in 0..Len(p),
           SubSeq(p, 1, k) \in S
    PROVE  InOrder(f, IF k = 0 THEN q ELSE Append(q, SubSeq(p, 1, k)),
                   SubSeq(p, k + 1, Len(p)), n)
<1> DEFINE l == Len(q)
<1>1. PICK ends \in [0..l -> 0..n] :
        /\ f = Positions(1, ends[0])
        /\ \A i \in 1..l :
              /\ ends[i - 1] <= ends[i]
              /\ q[i] = Positions(ends[i - 1] + 1, ends[i])
        /\ p = Positions(ends[l] + 1, n)
  BY DEF InOrder
<1> DEFINE a == ends[l]
           d == SubSeq(p, 1, k)
           r == SubSeq(p, k + 1, Len(p))
<1>2. l \in Nat /\ a \in 0..n
  BY <1>1
<1>3. a \in Nat /\ a <= n /\ n \in Nat /\ p = Positions(a + 1, n)
  BY <1>1, <1>2
<1>4. Len(p) = n - a /\ d = Positions(a + 1, a + k)
      /\ r = Positions(a + k + 1, n)
  <2> HIDE DEF a
  <2>1. Len(p) = n - a
    BY <1>3, RunBehind
  <2>2. k \in 0..(n - a)
    BY <2>1
  <2> QED BY <1>3, <2>1, <2>2, RunBehind
<1>5. CASE k = 0
  <2>1. a + k + 1 = a + 1
    BY <1>3, <1>5
  <2>2. r = p
    BY <1>3, <1>4, <2>1
  <2> QED BY <1>5, <2>2
<1>6. CASE k # 0
  <2> DEFINE q2 == Append(q, d)
             more == [i \in 0..(l + 1) |-> IF i = l + 1 THEN a + k ELSE ends[i]]
  <2>1. /\ Len(q2) = l + 1 /\ q2[l + 1] = d
        /\ \A i \in 1..l : q2[i] = q[i]
    OBVIOUS
  <2>2. a + k \in 0..n
    BY <1>3, <1>4
  <2> HIDE DEF q2, d, r
  <2>3. more \in [0..Len(q2) -> 0..n]
    BY <1>1, <2>1, <2>2
  <2>4. f = Positions(1, more[0])
    BY <1>1, <1>2
  <2>5. ASSUME NEW i \in 1..Len(q2)
        PROVE  /\ more[i - 1] <= more[i]
               /\ q2[i] = Positions(more[i - 1] + 1, more[i])
    <3>1. CASE i = l + 1
      <4>1. more[i] = a + k /\ more[i - 1] = a
        BY <1>2, <3>1
      <4> QED BY <1>3, <1>4, <2>1, <3>1, <4>1
    <3>2. CASE i # l + 1
      <4>1. i \in 1..l /\ i - 1 \in 0..l /\ i - 1 # l + 1
        BY <1>2, <2>1, <3>2
      <4>2. more[i] = ends[i] /\ more[i - 1] = ends[i - 1]
        BY <1>2, <4>1
      <4> QED BY <1>1, <2>1, <4>1, <4>2
    <3> QED BY <3>1, <3>2
  <2>6. r = Positions(more[Len(q2)] + 1, n)
    BY <1>2, <1>4, <2>1
  <2> HIDE DEF more
  <2>7. InOrder(f, q2, r, n)
    BY <2>3, <2>4, <2>5, <2>6 DEF InOrder
  <2> QED BY <1>6, <2>7 DEF q2, d, r
<1> QED BY <1>5, <1>6

\* More is heard, and held back.
LEMMA InOrderHear ==
    ASSUME NEW S, NEW q \in Seq(S), NEW f, NEW p, NEW n \in Nat,
           InOrder(f, q, p, n), NEW m \in Nat, n <= m
    PROVE  InOrder(f, q, p \o Positions(n + 1, m), m)
<1> DEFINE l == Len(q)
<1>1. PICK ends \in [0..l -> 0..n] :
        /\ f = Positions(1, ends[0])
        /\ \A i \in 1..l :
              /\ ends[i - 1] <= ends[i]
              /\ q[i] = Positions(ends[i - 1] + 1, ends[i])
        /\ p = Positions(ends[l] + 1, n)
  BY DEF InOrder
<1>2. l \in Nat /\ ends[l] \in 0..n
  BY <1>1
<1> DEFINE b == ends[l] + 1
<1>3. /\ b \in Nat \ {0} /\ n \in Int /\ m \in Int /\ b - 1 <= n
  BY <1>2
<1>4. Positions(b, n) \o Positions(n + 1, m) = Positions(b, m)
  <2> HIDE DEF b
  <2> QED BY <1>3, RunsOfPositions
<1>5. ends \in [0..l -> 0..m]
  <2>1. \A x \in 0..n : x \in 0..m
    OBVIOUS
  <2> QED BY <1>1, <2>1
<1> QED BY <1>1, <1>4, <1>5 DEF InOrder

\* The end is put behind the deltas.
LEMMA InOrderEnd ==
    ASSUME NEW S, << >> \in S, NEW q \in Seq(S), NEW f, NEW p, NEW n \in Nat,
           InOrder(f, q, p, n)
    PROVE  InOrder(f, Append(q, << >>), p, n)
<1> DEFINE l == Len(q)
           q2 == Append(q, << >>)
<1>1. PICK ends \in [0..l -> 0..n] :
        /\ f = Positions(1, ends[0])
        /\ \A i \in 1..l :
              /\ ends[i - 1] <= ends[i]
              /\ q[i] = Positions(ends[i - 1] + 1, ends[i])
        /\ p = Positions(ends[l] + 1, n)
  BY DEF InOrder
<1> DEFINE a == ends[l]
           more == [i \in 0..(l + 1) |-> IF i = l + 1 THEN a ELSE ends[i]]
<1>2. l \in Nat /\ a \in 0..n
  BY <1>1
<1>3. /\ Len(q2) = l + 1 /\ q2[l + 1] = << >>
      /\ \A i \in 1..l : q2[i] = q[i]
  OBVIOUS
<1>4. Positions(a + 1, a) = << >>
  <2> DEFINE b == a + 1
  <2>1. b \in Nat \ {0} /\ b - 1 = a
    BY <1>2
  <2> HIDE DEF b
  <2>2. Positions(b, b - 1) = << >>
    BY <2>1, PositionsEmpty
  <2> QED BY <2>1, <2>2 DEF b
<1> HIDE DEF q2
<1>5. more \in [0..Len(q2) -> 0..n]
  BY <1>1, <1>2, <1>3
<1>6. f = Positions(1, more[0])
  BY <1>1, <1>2
<1>7. ASSUME NEW i \in 1..Len(q2)
      PROVE  /\ more[i - 1] <= more[i]
             /\ q2[i] = Positions(more[i - 1] + 1, more[i])
  <2>1. CASE i = l + 1
    <3>1. more[i] = a /\ more[i - 1] = a
      BY <1>2, <2>1
    <3> QED BY <1>2, <1>3, <1>4, <2>1, <3>1
  <2>2. CASE i # l + 1
    <3>1. i \in 1..l /\ i - 1 \in 0..l /\ i - 1 # l + 1
      BY <1>2, <1>3, <2>2
    <3>2. more[i] = ends[i] /\ more[i - 1] = ends[i - 1]
      BY <1>2, <3>1
    <3> QED BY <1>1, <1>3, <3>1, <3>2
  <2> QED BY <2>1, <2>2
<1>8. p = Positions(more[Len(q2)] + 1, n)
  BY <1>1, <1>2, <1>3
<1> HIDE DEF more
<1>9. InOrder(f, q2, p, n)
  BY <1>5, <1>6, <1>7, <1>8 DEF InOrder
<1> QED BY <1>9 DEF q2

\* What was sent is the beginning of the answer.
LEMMA InOrderSent ==
    ASSUME NEW q, Len(q) \in Nat, NEW f, NEW p, NEW n \in Nat,
           InOrder(f, q, p, n)
    PROVE  \E k \in 0..n : f = Positions(1, k) /\ Len(f) = k
<1>1. PICK ends \in [0..Len(q) -> 0..n] : f = Positions(1, ends[0])
  BY DEF InOrder
<1>2. ends[0] \in 0..n /\ ends[0] \in Nat
  BY <1>1
<1> QED BY <1>1, <1>2, FirstPositions

\* When only the end is queued, and nothing held back, all was sent.
LEMMA InOrderAll ==
    ASSUME NEW S, NEW q \in Seq(S), NEW f, NEW n \in Nat,
           InOrder(f, q, << >>, n), Len(q) = 1, q[1] = << >>
    PROVE  f = Positions(1, n)
<1>1. PICK ends \in [0..1 -> 0..n] :
        /\ f = Positions(1, ends[0])
        /\ \A i \in 1..1 :
              /\ ends[i - 1] <= ends[i]
              /\ q[i] = Positions(ends[i - 1] + 1, ends[i])
        /\ << >> = Positions(ends[1] + 1, n)
  BY DEF InOrder
<1> DEFINE a == ends[0]
           b == ends[1]
<1>2. a \in Nat /\ b \in Nat /\ b <= n
  BY <1>1
<1>3. a <= b /\ q[1] = Positions(a + 1, b)
  <2>1. 1 \in 1..1 /\ 1 - 1 = 0
    OBVIOUS
  <2>2. ends[1 - 1] <= ends[1] /\ q[1] = Positions(ends[1 - 1] + 1, ends[1])
    BY <1>1, <2>1
  <2> QED BY <2>1, <2>2
<1>4. << >> = Positions(b + 1, n) /\ << >> = Positions(a + 1, b)
  BY <1>1, <1>3
<1> HIDE DEF a, b
<1>5. b = n /\ a = b
  BY <1>2, <1>3, <1>4, EmptyRun
<1> QED BY <1>1, <1>5 DEF a

\* The tokens a request's generation accounts for, and how long it can be.
Total(c) == Len(gen[c].extra) + Len(gen[c].oids)
Bound(c) == Least(shape[c].max, shape[c].eos)

\* The tokens whose text has reached the thread.
Heard(c) ==
    IF ~shape[c].stream THEN 0
    ELSE IF at[c] = "gen" /\ Total(c) < seen[c] THEN seen[c] ELSE Total(c)

\* Nothing that was heard is lost, unless the thread gave the request up.
Sound(c) ==
    \E p \in Seq(Nat), n \in 0..Bound(c) :
        /\ InOrder(frames[c], queue[c], p, n)
        /\ ~shape[c].stream => n = 0
        /\ (at[c] # "over" \/ result[c] = "ok") => p = pend[c] /\ n = Heard(c)

\* A request's stream: the coroutine's and the thread's parts of it.
Told(c) ==
    /\ answer[c] # "none" => co[c] = "over"
    /\ at[c] = "gen" => seen[c] \in (Resume(gen[c]) - 1)..End(c)
    /\ at[c] \in {"prove", "over"} => pend[c] = << >>
    /\ at[c] = "over" =>
          \A i \in 1..(Len(queue[c]) - 1) : queue[c][i] # << >>
    /\ result[c] = "ok" =>
          at[c] = "over" /\ Ended(gen[c], shape[c].max)
    /\ (co[c] # "over" /\ shape[c] # None) => Sound(c)

ToldInv == \A c \in Requests : Told(c)

\* Where a thread is not in a call and hands nothing over.
Quiet == {"none", "queued", "prep", "top", "checked", "rid"}

\* The variables of the streams are functions too.
LEMMA StreamFunctions ==
    ASSUME TypeOK
    PROVE  /\ co \in [Requests -> {"none", "created", "run", "over"}]
           /\ at \in [Requests -> Places]
           /\ queue \in [Requests -> Seq(Seq(Nat))]
           /\ frames \in [Requests -> Seq(Nat)]
           /\ answer \in [Requests -> {"none", "response", "error"}]
           /\ result \in [Requests -> {"none", "ok", "error", "cancelled"}]
           /\ pend \in [Requests -> Seq(Nat)]
           /\ seen \in [Requests -> Nat]
           /\ gen \in [Requests -> GenType]
BY DEF TypeOK, Places, GenType

\* The counts of a request.
LEMMA CountTypes ==
    ASSUME TypeOK, GenInv, NEW c \in Requests, shape[c] # None
    PROVE  /\ Total(c) \in 0..Bound(c) /\ Bound(c) \in Nat
           /\ gen[c].oids = << >> => Total(c) = 0 /\ Resume(gen[c]) = 1
           /\ gen[c].oids # << >> => Resume(gen[c]) = Total(c) /\ Total(c) # 0
<1> DEFINE max == shape[c].max
           eos == shape[c].eos
           x == Len(gen[c].extra)
           y == Len(gen[c].oids)
<1>1. max \in Nat /\ eos \in Nat \ {0} /\ ChunkInv(gen[c], max, eos)
  BY RequestType DEF Shape, GenInv
<1>2. /\ gen[c].oids \in Seq(Nat) /\ gen[c].extra \in Seq(Nat)
      /\ x + y <= max /\ x + y <= eos
      /\ gen[c].oids = << >> => gen[c].extra = << >>
  BY <1>1 DEF ChunkInv, GenType
<1>3. x \in Nat /\ y \in Nat
      /\ (gen[c].oids = << >> => x = 0 /\ y = 0)
      /\ (gen[c].oids # << >> => y # 0)
  BY <1>2, EmptySeq
<1>4. Total(c) = x + y /\ Bound(c) = Least(max, eos)
      /\ Resume(gen[c]) = IF gen[c].oids = << >> THEN 1 ELSE x + y
  BY DEF Total, Bound, Resume
<1> HIDE DEF max, eos, x, y
<1>5. Least(max, eos) \in Nat
      /\ (Least(max, eos) = max \/ Least(max, eos) = eos)
  BY <1>1 DEF Least
<1> QED BY <1>1, <1>2, <1>3, <1>4, <1>5

\* Where a call that can be made ends.
LEMMA EndTypes ==
    ASSUME TypeOK, GenInv, NEW c \in Requests,
           at[c] \in {"checked", "rid", "gen"}
    PROVE  /\ End(c) \in 1..Bound(c) /\ Resume(gen[c]) \in 1..End(c)
           /\ Total(c) \in 0..End(c)
<1> DEFINE max == shape[c].max
           eos == shape[c].eos
           r == Resume(gen[c])
           e == End(c)
<1>1. /\ max \in Nat \ {0} /\ eos \in Nat \ {0} /\ ChunkInv(gen[c], max, eos)
      /\ ~Ended(gen[c], max) /\ shape[c] # None
  BY CallShape DEF GenInv
<1>2. /\ r \in Nat \ {0} /\ e \in Nat /\ r <= e /\ e <= eos
      /\ e <= r + Asks(gen[c], max) - 1
      /\ r + Asks(gen[c], max) - 1 = Len(gen[c].oids) + Want(gen[c], max)
      /\ Want(gen[c], max) <= max - Len(gen[c].oids)
      /\ Want(gen[c], max) \in Nat /\ Asks(gen[c], max) \in Nat
  BY <1>1, CallBounds DEF End
<1>3. Len(gen[c].oids) \in Nat
  BY RequestType DEF GenType
<1>4. Bound(c) = Least(max, eos)
  BY DEF Bound
<1>5. /\ Total(c) \in Nat
      /\ gen[c].oids = << >> => Total(c) = 0
      /\ gen[c].oids # << >> => r = Total(c)
  BY <1>1, CountTypes
<1> HIDE DEF max, eos, r, e
<1>6. e <= max
  BY <1>1, <1>2, <1>3
<1>7. e <= Bound(c) /\ Bound(c) \in Nat
  BY <1>1, <1>2, <1>4, <1>6 DEF Least
<1>8. e \in 1..Bound(c) /\ r \in 1..e
  BY <1>2, <1>7
<1>9. Total(c) \in 0..e
  BY <1>2, <1>5
<1> QED BY <1>8, <1>9 DEF r, e

\* What has been heard is not more than the answer.
LEMMA HeardType ==
    ASSUME TypeOK, GenInv, NEW c \in Requests, Told(c), shape[c] # None
    PROVE  Heard(c) \in 0..Bound(c)
<1>1. Total(c) \in 0..Bound(c) /\ Bound(c) \in Nat
  BY CountTypes
<1>2. CASE at[c] = "gen" /\ Total(c) < seen[c]
  <2>1. End(c) \in 1..Bound(c) /\ seen[c] \in Nat
    BY <1>2, EndTypes, RequestType
  <2>2. Resume(gen[c]) - 1 \in Nat
    BY ResumeType, RequestType
  <2>3. seen[c] \in 0..Bound(c)
    BY <1>1, <1>2, <2>1, <2>2 DEF Told
  <2> QED BY <1>1, <1>2, <2>3 DEF Heard
<1>3. CASE ~(at[c] = "gen" /\ Total(c) < seen[c])
  BY <1>1, <1>3 DEF Heard
<1> QED BY <1>2, <1>3

\* Text that is handed over stays in order.
LEMMA HandedInOrder ==
    ASSUME TypeOK, NEW c \in Requests, NEW text \in Seq(Nat),
           NEW k \in 0..Len(text), NEW f, NEW n \in Nat,
           InOrder(f, queue[c], text, n)
    PROVE  InOrder(f, Handed(c, text, k), KeptBack(text, k), n)
<1>1. queue[c] \in Seq(Seq(Nat))
  BY RequestType
<1>2. SubSeq(text, 1, k) \in Seq(Nat)
  <2>1. \A i \in 1..k : text[i] \in Nat
    OBVIOUS
  <2> QED BY <2>1, SubSeqProperties
<1> QED BY <1>1, <1>2, InOrderHand DEF Handed, KeptBack

\* When all is handed over nothing is held back.
LEMMA AllHanded ==
    ASSUME NEW text \in Seq(Nat)
    PROVE  KeptBack(text, Len(text)) = << >>
<1> DEFINE k == Len(text)
<1>1. k \in Nat /\ k + 1 \in Int /\ k \in Int
      /\ \A i \in (k + 1)..k : text[i] \in Nat
  OBVIOUS
<1>2. Len(SubSeq(text, k + 1, k)) = 0 /\ SubSeq(text, k + 1, k) \in Seq(Nat)
  BY <1>1, SubSeqProperties
<1> QED BY <1>2, EmptySeq DEF KeptBack

\* A step that leaves the streams alone.
LEMMA ToldStays ==
    ASSUME TypeOK, ToldInv,
           UNCHANGED <<queue, frames, answer, result, pend, seen, gen, shape>>,
           \A d \in Requests :
               /\ co'[d] = "over" <=> co[d] = "over"
               /\ at'[d] = at[d] \/ (at[d] \in Quiet /\ at'[d] \in Quiet)
    PROVE  ToldInv'
<1> SUFFICES ASSUME NEW d \in Requests PROVE Told(d)'
  BY DEF ToldInv
<1>1. Told(d)
  BY DEF ToldInv
<1>2. /\ at'[d] = "gen" <=> at[d] = "gen"
      /\ at'[d] = "over" <=> at[d] = "over"
      /\ at'[d] = "prove" <=> at[d] = "prove"
  BY DEF Quiet
<1>3. Heard(d)' = Heard(d) /\ Bound(d)' = Bound(d) /\ End(d)' = End(d)
  BY <1>2 DEF Heard, Total, Bound, End
<1>4. Sound(d)' <=> Sound(d)
  BY <1>2, <1>3 DEF Sound
<1> QED BY <1>1, <1>2, <1>3, <1>4 DEF Told

\* A step that is about one request's stream leaves the others alone.
LEMMA ToldOthers ==
    ASSUME ToldInv, NEW c \in Requests, Told(c)',
           \A d \in Requests : d # c =>
               /\ co'[d] = co[d] /\ at'[d] = at[d] /\ queue'[d] = queue[d]
               /\ frames'[d] = frames[d] /\ answer'[d] = answer[d]
               /\ result'[d] = result[d] /\ pend'[d] = pend[d]
               /\ seen'[d] = seen[d] /\ gen'[d] = gen[d]
               /\ shape'[d] = shape[d]
    PROVE  ToldInv'
<1> SUFFICES ASSUME NEW d \in Requests, d # c PROVE Told(d)'
  BY DEF ToldInv
<1>1. Told(d)
  BY DEF ToldInv
<1>2. Heard(d)' = Heard(d) /\ Bound(d)' = Bound(d) /\ End(d)' = End(d)
  BY DEF Heard, Total, Bound, End
<1>3. Sound(d)' <=> Sound(d)
  BY <1>2 DEF Sound
<1> QED BY <1>1, <1>2, <1>3 DEF Told

\* The thread ends, with or without the answer.
LEMMA ToldSettles ==
    ASSUME TypeOK, ToldInv, NEW c \in Requests, at[c] # "over",
           NEW how \in {"ok", "error", "cancelled"},
           NEW deltas \in Seq(Seq(Nat)), IsText(deltas),
           how = "ok" => at[c] = "prove" /\ Ended(gen[c], shape[c].max),
           (co[c] # "over" /\ shape[c] # None) =>
               \E p \in Seq(Nat), n \in 0..Bound(c) :
                   /\ InOrder(frames[c], deltas, p, n)
                   /\ ~shape[c].stream => n = 0
                   /\ how = "ok" => p = pend[c] /\ n = Heard(c),
           Settle(c, how, deltas),
           UNCHANGED <<co, frames, answer, seen, gen, shape>>
    PROVE  ToldInv'
<1> DEFINE q == Append(deltas, << >>)
<1>1. /\ at'[c] = "over" /\ result'[c] = how /\ queue'[c] = q
      /\ pend'[c] = << >>
      /\ \A d \in Requests : d # c =>
            /\ at'[d] = at[d] /\ result'[d] = result[d]
            /\ queue'[d] = queue[d] /\ pend'[d] = pend[d]
  BY StreamFunctions DEF Settle
<1>2. \A i \in 1..(Len(q) - 1) : q[i] # << >>
  <2>1. << >> \in Seq(Nat)
    OBVIOUS
  <2>2. Len(q) = Len(deltas) + 1 /\ \A i \in 1..Len(deltas) : q[i] = deltas[i]
    BY <2>1
  <2>3. \A i \in 1..Len(deltas) : deltas[i] # << >>
    BY DEF IsText
  <2> HIDE DEF q
  <2>4. Len(q) - 1 = Len(deltas)
    BY <2>2
  <2> QED BY <2>2, <2>3, <2>4
<1>3. ASSUME co[c] # "over", shape[c] # None PROVE Sound(c)'
  <2>1. PICK p \in Seq(Nat), n \in 0..Bound(c) :
            /\ InOrder(frames[c], deltas, p, n)
            /\ ~shape[c].stream => n = 0
            /\ how = "ok" => p = pend[c] /\ n = Heard(c)
    BY <1>3
  <2>2. << >> \in Seq(Nat)
    OBVIOUS
  <2>3. n \in Nat
    BY <2>1
  <2>4. InOrder(frames[c], q, p, n)
    BY <2>1, <2>2, <2>3, InOrderEnd
  <2>5. Bound(c)' = Bound(c)
    BY DEF Bound
  <2>6. how = "ok" => p = << >> /\ n = Heard(c)'
    <3> SUFFICES ASSUME how = "ok" PROVE p = << >> /\ n = Heard(c)'
      OBVIOUS
    <3>1. at[c] = "prove" /\ pend[c] = << >>
      BY DEF ToldInv, Told
    <3>2. Heard(c)' = Heard(c)
      BY <1>1, <3>1 DEF Heard, Total
    <3> QED BY <2>1, <3>1, <3>2
  <2> HIDE DEF q
  <2>7. InOrder(frames'[c], queue'[c], p, n) /\ n \in 0..Bound(c)'
    BY <1>1, <2>1, <2>4, <2>5
  <2> QED BY <1>1, <2>1, <2>6, <2>7 DEF Sound
<1>4. Told(c)'
  <2> HIDE DEF q
  <2> QED BY <1>1, <1>2, <1>3 DEF ToldInv, Told
<1> QED BY <1>1, <1>4, ToldOthers

\* The thread hands some text to the queue and goes on.
LEMMA ToldHands ==
    ASSUME TypeOK, ToldInv, NEW c \in Requests, at[c] # "over",
           NEW text \in Seq(Nat), NEW k \in 0..Len(text),
           queue' = [queue EXCEPT ![c] = Handed(c, text, k)],
           pend' = [pend EXCEPT ![c] = KeptBack(text, k)],
           at'[c] # "over", at'[c] = "prove" => k = Len(text),
           at'[c] = "gen" => seen'[c] \in (Resume(gen'[c]) - 1)..End(c)',
           Heard(c)' \in 0..Bound(c),
           (co[c] # "over" /\ shape[c] # None) =>
               InOrder(frames[c], queue[c], text, Heard(c)'),
           UNCHANGED <<co, frames, answer, result, shape>>,
           \A d \in Requests : d # c =>
               at'[d] = at[d] /\ seen'[d] = seen[d] /\ gen'[d] = gen[d]
    PROVE  ToldInv'
<1>1. /\ queue'[c] = Handed(c, text, k) /\ pend'[c] = KeptBack(text, k)
      /\ \A d \in Requests : d # c =>
            queue'[d] = queue[d] /\ pend'[d] = pend[d]
  BY StreamFunctions
<1>2. Handed(c, text, k) \in Seq(Seq(Nat)) /\ KeptBack(text, k) \in Seq(Nat)
  BY HandedType
<1>3. Heard(c)' \in Nat
  <2> DEFINE h == Heard(c)'
  <2>1. h \in 0..Bound(c)
    OBVIOUS
  <2> HIDE DEF h
  <2>2. h \in Nat
    BY <2>1
  <2> QED BY <2>2 DEF h
<1>4. ASSUME co[c] # "over", shape[c] # None PROVE Sound(c)'
  <2> DEFINE h == Heard(c)'
  <2>1. InOrder(frames[c], queue[c], text, h) /\ h \in Nat
    BY <1>3, <1>4
  <2> HIDE DEF h
  <2>2. InOrder(frames[c], Handed(c, text, k), KeptBack(text, k), h)
    BY <2>1, HandedInOrder
  <2>3. Bound(c)' = Bound(c)
    BY DEF Bound
  <2>4. InOrder(frames'[c], queue'[c], pend'[c], h) /\ h \in 0..Bound(c)'
    BY <1>1, <2>2, <2>3 DEF h
  <2>5. ~shape'[c].stream => h = 0
    BY DEF Heard, h
  <2> QED BY <1>1, <1>2, <2>4, <2>5 DEF Sound, h
<1>5. at'[c] = "prove" => pend'[c] = << >>
  BY <1>1, AllHanded
<1>6. result[c] # "ok"
  BY DEF ToldInv, Told
<1>7. Told(c)'
  BY <1>4, <1>5, <1>6 DEF ToldInv, Told
<1> QED BY <1>1, <1>7, ToldOthers

\* What is kept of a queue whose end, if it is there, is last.
LEMMA TailKeeps ==
    ASSUME NEW S, NEW q \in Seq(S), q # << >>,
           \A i \in 1..(Len(q) - 1) : q[i] # << >>
    PROVE  \A i \in 1..(Len(Tail(q)) - 1) : Tail(q)[i] # << >>
<1>1. /\ Len(q) \in Nat \ {0} /\ Len(Tail(q)) = Len(q) - 1
      /\ \A i \in 1..(Len(q) - 1) : Tail(q)[i] = q[i + 1]
  BY HeadTailProperties, EmptySeq
<1>2. \A i \in 1..(Len(q) - 2) :
          i + 1 \in 1..(Len(q) - 1) /\ i \in 1..(Len(q) - 1)
  BY <1>1
<1>3. Len(Tail(q)) - 1 = Len(q) - 2
  BY <1>1
<1> QED BY <1>1, <1>2, <1>3

\* What a thread that is not over has in its stream.
LEMMA ToldStream ==
    ASSUME TypeOK, ToldInv, NEW c \in Requests, at[c] # "over",
           co[c] # "over", shape[c] # None
    PROVE  /\ InOrder(frames[c], queue[c], pend[c], Heard(c))
           /\ pend[c] \in Seq(Nat) /\ Heard(c) \in 0..Bound(c)
           /\ ~shape[c].stream => Heard(c) = 0
<1>1. Sound(c)
  BY DEF ToldInv, Told
<1> QED BY <1>1 DEF Sound

\* The thread gives up, at once.
LEMMA ToldStops ==
    ASSUME TypeOK, EndInv, ToldInv, NEW c \in Requests, at[c] # "over",
           NEW how \in {"error", "cancelled"}, Settle(c, how, queue[c]),
           UNCHANGED <<co, frames, answer, seen, gen, shape>>
    PROVE  ToldInv'
<1>1. queue[c] \in Seq(Seq(Nat)) /\ IsText(queue[c])
  BY RequestType DEF EndInv
<1>2. (co[c] # "over" /\ shape[c] # None) =>
          \E p \in Seq(Nat), n \in 0..Bound(c) :
              /\ InOrder(frames[c], queue[c], p, n)
              /\ ~shape[c].stream => n = 0
              /\ how = "ok" => p = pend[c] /\ n = Heard(c)
  BY ToldStream
<1> QED BY <1>1, <1>2, ToldSettles

\* A delta is sent on.
LEMMA ToldSends ==
    ASSUME TypeOK, ToldInv, NEW c \in Requests, SendsChunk(c)
    PROVE  ToldInv'
<1> USE DEF work, call, hist
<1> DEFINE q == queue[c]
<1>1. /\ q # << >> /\ Head(q) # << >> /\ q \in Seq(Seq(Nat))
      /\ queue'[c] = Tail(q) /\ co[c] = "run"
      /\ \A d \in Requests : d # c => queue'[d] = queue[d]
      /\ UNCHANGED <<at, answer, result, pend, seen, gen, shape>>
  BY StreamFunctions DEF SendsChunk
<1>2. /\ \A d \in Requests : d # c => co'[d] = co[d] /\ frames'[d] = frames[d]
      /\ co'[c] # "over" => frames'[c] = frames[c] \o Head(q)
  BY <1>1, StreamFunctions DEF SendsChunk, Finish
<1>3. (\A i \in 1..(Len(q) - 1) : q[i] # << >>)
          => \A i \in 1..(Len(Tail(q)) - 1) : Tail(q)[i] # << >>
  BY <1>1, TailKeeps
<1>4. ASSUME co'[c] # "over", shape[c] # None PROVE Sound(c)'
  <2>1. Sound(c)
    BY <1>1, <1>4 DEF ToldInv, Told
  <2>2. PICK p \in Seq(Nat), n \in 0..Bound(c) :
            /\ InOrder(frames[c], q, p, n)
            /\ ~shape[c].stream => n = 0
            /\ (at[c] # "over" \/ result[c] = "ok") => p = pend[c] /\ n = Heard(c)
    BY <2>1 DEF Sound
  <2>3. n \in Nat
    BY <2>2
  <2>4. InOrder(frames'[c], Tail(q), p, n)
    BY <1>1, <1>2, <1>4, <2>2, <2>3, InOrderSend
  <2>5. Bound(c)' = Bound(c) /\ Heard(c)' = Heard(c)
    BY <1>1 DEF Bound, Heard, Total
  <2>6. InOrder(frames'[c], queue'[c], p, n) /\ n \in 0..Bound(c)'
        /\ (~shape'[c].stream => n = 0)
        /\ ((at'[c] # "over" \/ result'[c] = "ok") =>
                p = pend'[c] /\ n = Heard(c)')
    BY <1>1, <2>2, <2>4, <2>5
  <2> QED BY <2>6 DEF Sound
<1>5. Told(c)
  BY DEF ToldInv
<1>6. answer'[c] = "none" /\ End(c)' = End(c)
  BY <1>1, <1>5 DEF Told, End
<1>7. Told(c)'
  <2> HIDE DEF q
  <2> QED BY <1>1, <1>3, <1>4, <1>5, <1>6 DEF Told, q
<1> QED BY <1>1, <1>2, <1>7, ToldOthers

\* The answer is sent, and with it the coroutine is over.
LEMMA ToldAnswers ==
    ASSUME TypeOK, ToldInv, NEW c \in Requests, Answers(c)
    PROVE  ToldInv'
<1> USE DEF work, call, hist
<1> DEFINE q == queue[c]
<1>1. /\ q # << >> /\ q \in Seq(Seq(Nat))
      /\ queue'[c] = Tail(q) /\ co'[c] = "over"
      /\ \A d \in Requests : d # c =>
            queue'[d] = queue[d] /\ co'[d] = co[d] /\ answer'[d] = answer[d]
      /\ UNCHANGED <<at, frames, result, pend, seen, gen, shape>>
  BY StreamFunctions DEF Answers, Finish
<1>2. (\A i \in 1..(Len(q) - 1) : q[i] # << >>)
          => \A i \in 1..(Len(Tail(q)) - 1) : Tail(q)[i] # << >>
  BY <1>1, TailKeeps
<1>3. Told(c) /\ End(c)' = End(c)
  BY <1>1 DEF ToldInv, End
<1>4. Told(c)'
  <2> HIDE DEF q
  <2> QED BY <1>1, <1>2, <1>3 DEF Told, q
<1> QED BY <1>1, <1>4, ToldOthers

\* A call is posted: nothing of it has been heard.
LEMMA ToldPosts ==
    ASSUME TypeOK, GenInv, ToldInv, NEW c \in Requests, Posts(c)
    PROVE  ToldInv'
<1> USE DEF loop, hist
<1>1. /\ at[c] = "rid" /\ at'[c] = "gen" /\ seen'[c] = Resume(gen[c]) - 1
      /\ \A d \in Requests : d # c => at'[d] = at[d] /\ seen'[d] = seen[d]
      /\ UNCHANGED <<co, queue, frames, answer, result, pend, gen, shape>>
  BY StreamFunctions DEF Posts
<1>2. /\ End(c) \in 1..Bound(c) /\ Resume(gen[c]) \in 1..End(c)
      /\ shape[c] # None
  BY <1>1, EndTypes DEF GenInv
<1>3. End(c)' = End(c) /\ Bound(c)' = Bound(c) /\ Total(c)' = Total(c)
  BY <1>1 DEF End, Bound, Total
<1>4. seen'[c] \in (Resume(gen[c]) - 1)..End(c)
  BY <1>1, <1>2
<1>5. ~(Total(c) < seen'[c])
  BY <1>1, <1>2, CountTypes
<1>6. Heard(c)' = Heard(c)
  BY <1>1, <1>3, <1>5 DEF Heard
<1>7. Told(c)
  BY DEF ToldInv
<1>8. Sound(c)' <=> Sound(c)
  BY <1>1, <1>3, <1>6, <1>7 DEF Sound
<1>9. Told(c)'
  BY <1>1, <1>3, <1>4, <1>7, <1>8 DEF Told
<1> QED BY <1>1, <1>9, ToldOthers

\* An event brings the next token of the stream, or the overlap.
LEMMA ToldEvent ==
    ASSUME PerEvent = 1, TypeOK, GenInv, EndInv, ToldInv, NEW c \in Requests,
           Event(c)
    PROVE  ToldInv'
<1>1. /\ at[c] = "gen" /\ shape[c].stream /\ seen[c] < End(c)
      /\ shape[c] # None
  BY DEF Event, GenInv
<1>2. CASE flag[c]
  <2>1. Unwinds(c, "cancelled", queue[c]) /\ UNCHANGED <<call, hist>>
    BY <1>2 DEF Event
  <2>2. at[c] # "over" /\ Settle(c, "cancelled", queue[c])
        /\ UNCHANGED <<co, frames, answer, seen, gen, shape>>
    BY <1>1, <2>1 DEF Unwinds, call
  <2> QED BY <2>2, ToldStops
<1>3. CASE ~flag[c]
  <2>1. PICK last \in (seen[c] + 1)..Least(seen[c] + PerEvent, End(c)) :
            /\ seen' = [seen EXCEPT ![c] = last]
            /\ \E k \in 0..Len(pend[c] \o NewText(c, last)) :
                  /\ queue' = [queue EXCEPT ![c] =
                                   Handed(c, pend[c] \o NewText(c, last), k)]
                  /\ pend' = [pend EXCEPT ![c] =
                                   KeptBack(pend[c] \o NewText(c, last), k)]
    BY <1>3 DEF Event
  <2>2. UNCHANGED <<co, frames, answer, at, gen, result, shape>>
    BY <1>3 DEF Event
  <2>3. /\ End(c) \in 1..Bound(c) /\ Resume(gen[c]) \in 1..End(c)
        /\ seen[c] \in (Resume(gen[c]) - 1)..End(c) /\ seen[c] \in Nat
        /\ Bound(c) \in Nat
    BY <1>1, EndTypes, CountTypes, RequestType DEF ToldInv, Told
  <2>4. last = seen[c] + 1 /\ last \in 1..End(c)
    BY <1>1, <2>1, <2>3 DEF Least
  <2> DEFINE new == NewText(c, last)
             text == pend[c] \o new
             m == IF Total(c) < last THEN last ELSE Total(c)
  <2>5. PICK k \in 0..Len(text) :
            /\ queue' = [queue EXCEPT ![c] = Handed(c, text, k)]
            /\ pend' = [pend EXCEPT ![c] = KeptBack(text, k)]
    BY <2>1
  <2>6. text \in Seq(Nat)
    BY <2>3, <2>4, NewTextType, RequestType
  <2>7. seen'[c] = last /\ \A d \in Requests : d # c => seen'[d] = seen[d]
    BY <2>1, StreamFunctions
  <2>8. Heard(c)' = m /\ End(c)' = End(c)
    BY <1>1, <2>2, <2>7 DEF Heard, Total, End
  <2>9. m \in 0..Bound(c)
    BY <1>1, <2>3, <2>4, CountTypes
  <2>10. ASSUME co[c] # "over"
         PROVE  InOrder(frames[c], queue[c], text, m)
    <3>1. InOrder(frames[c], queue[c], pend[c], Heard(c))
      BY <1>1, <2>10, ToldStream
    <3>2. queue[c] \in Seq(Seq(Nat)) /\ pend[c] \in Seq(Nat)
      BY RequestType
    <3>3. CASE gen[c].oids # << >> /\ seen[c] < Resume(gen[c])
      <4>1. new = << >>
        BY <3>3 DEF NewText
      <4>2. Heard(c) = Total(c) /\ m = Total(c)
        <5>1. Resume(gen[c]) = Total(c)
          BY <1>1, <3>3, CountTypes
        <5>2. Total(c) \in Nat
          BY <1>1, CountTypes
        <5> QED BY <1>1, <2>3, <2>4, <3>3, <5>1, <5>2 DEF Heard
      <4>3. text = pend[c]
        BY <3>2, <4>1, ConcatEmptySeq
      <4> QED BY <3>1, <4>2, <4>3
    <3>4. CASE ~(gen[c].oids # << >> /\ seen[c] < Resume(gen[c]))
      <4>1. new = Positions(seen[c] + 1, last)
        BY <3>4 DEF NewText
      <4>2. Total(c) <= seen[c] /\ Total(c) \in Nat
        BY <1>1, <2>3, <3>4, CountTypes
      <4>3. Heard(c) = seen[c] /\ m = last
        BY <1>1, <2>3, <2>4, <4>2 DEF Heard
      <4>4. seen[c] <= last /\ last \in Nat
        BY <2>3, <2>4
      <4>5. InOrder(frames[c], queue[c], pend[c], seen[c])
        BY <3>1, <4>3
      <4>6. InOrder(frames[c], queue[c],
                    pend[c] \o Positions(seen[c] + 1, last), last)
        BY <2>3, <3>2, <4>4, <4>5, InOrderHear
      <4> QED BY <4>1, <4>3, <4>6
    <3> QED BY <3>3, <3>4
  <2>11. at'[c] = "gen" /\ gen'[c] = gen[c]
         /\ seen'[c] \in (Resume(gen'[c]) - 1)..End(c)'
    BY <1>1, <2>2, <2>3, <2>4, <2>7, <2>8
  <2> HIDE DEF text, m
  <2>12. Heard(c)' \in 0..Bound(c)
         /\ (co[c] # "over" /\ shape[c] # None =>
                 InOrder(frames[c], queue[c], text, Heard(c)'))
    BY <2>8, <2>9, <2>10
  <2>13. at[c] # "over" /\ at'[c] # "over" /\ at'[c] # "prove"
    BY <1>1, <2>11
  <2> QED BY <2>2, <2>5, <2>6, <2>7, <2>11, <2>12, <2>13, ToldHands
<1> QED BY <1>2, <1>3

\* What is left of a call's text goes to the queue, or waits.
LEMMA ToldReturns ==
    ASSUME TypeOK, GenInv, EndInv, ToldInv, NEW c \in Requests, Returns(c)
    PROVE  ToldInv'
<1>1. at[c] = "gen" /\ shape[c] # None /\ pend[c] \in Seq(Nat)
      /\ UNCHANGED <<call, hist>>
  BY RequestType DEF Returns, GenInv
<1>2. CASE at'[c] = "over"
  <2>1. at'[c] # "top"
    BY <1>2
  <2>2. PICK k \in 0..Len(pend[c]), how \in {"error", "cancelled"} :
            Unwinds(c, how, Handed(c, pend[c], k))
    BY <2>1, StreamFunctions DEF Returns
  <2> DEFINE deltas == Handed(c, pend[c], k)
  <2>3. Settle(c, how, deltas)
        /\ UNCHANGED <<co, frames, answer, seen, gen, shape>>
    BY <1>1, <2>2 DEF Unwinds, call
  <2>4. deltas \in Seq(Seq(Nat)) /\ KeptBack(pend[c], k) \in Seq(Nat)
    BY <1>1, HandedType
  <2>5. IsText(deltas)
    BY <1>1, HandedIsText DEF EndInv
  <2>6. ASSUME co[c] # "over"
        PROVE  InOrder(frames[c], deltas, KeptBack(pend[c], k), Heard(c))
               /\ Heard(c) \in 0..Bound(c) /\ (~shape[c].stream => Heard(c) = 0)
    BY <1>1, <2>6, ToldStream, HandedInOrder
  <2> HIDE DEF deltas
  <2>7. (co[c] # "over" /\ shape[c] # None) =>
            \E p \in Seq(Nat), n \in 0..Bound(c) :
                /\ InOrder(frames[c], deltas, p, n)
                /\ ~shape[c].stream => n = 0
                /\ how = "ok" => p = pend[c] /\ n = Heard(c)
    BY <2>4, <2>6
  <2> QED BY <1>1, <2>3, <2>4, <2>5, <2>7, ToldSettles
<1>3. CASE at'[c] # "over"
  <2>1. /\ ~flag[c] /\ at' = [at EXCEPT ![c] = "top"]
        /\ gen' = [gen EXCEPT ![c] = gen'[c]]
        /\ Len(gen'[c].extra) + Len(gen'[c].oids) = End(c)
        /\ \E k \in 0..Len(pend[c]) :
              /\ queue' = [queue EXCEPT ![c] = Handed(c, pend[c], k)]
              /\ pend' = [pend EXCEPT ![c] = KeptBack(pend[c], k)]
        /\ UNCHANGED <<co, frames, answer, result, shape, seen>>
    BY <1>3, ReturnsExtends DEF call
  <2>2. PICK k \in 0..Len(pend[c]) :
            /\ queue' = [queue EXCEPT ![c] = Handed(c, pend[c], k)]
            /\ pend' = [pend EXCEPT ![c] = KeptBack(pend[c], k)]
    BY <2>1
  <2>3. at'[c] = "top" /\ \A d \in Requests : d # c => at'[d] = at[d]
    BY <2>1, StreamFunctions
  <2>4. \A d \in Requests : d # c => gen'[d] = gen[d]
    BY <2>1, StreamFunctions
  <2>5. shape[c].stream => seen[c] = End(c)
    BY <2>1 DEF Returns, GenInv
  <2>6. Heard(c)' = Heard(c)
    <3>1. Total(c)' = End(c)
      BY <2>1 DEF Total
    <3>2. Total(c) \in 0..End(c) /\ End(c) \in Nat
      BY <1>1, EndTypes
    <3>3. Heard(c)' = IF ~shape[c].stream THEN 0 ELSE End(c)
      BY <2>1, <2>3, <3>1 DEF Heard
    <3>4. Heard(c) = IF ~shape[c].stream THEN 0 ELSE End(c)
      BY <1>1, <2>5, <3>2 DEF Heard
    <3> QED BY <3>3, <3>4
  <2>7. Heard(c) \in 0..Bound(c)
    BY <1>1, HeardType DEF ToldInv
  <2>8. (co[c] # "over" /\ shape[c] # None) =>
            InOrder(frames[c], queue[c], pend[c], Heard(c)')
    BY <1>1, <2>6, ToldStream
  <2> QED BY <1>1, <2>1, <2>2, <2>3, <2>4, <2>6, <2>7, <2>8, ToldHands
<1> QED BY <1>2, <1>3

\* The loop ends: all that was heard is in the queue or sent.
LEMMA ToldLoopEnds ==
    ASSUME TypeOK, GenInv, ToldInv, NEW c \in Requests, LoopEnds(c)
    PROVE  ToldInv'
<1> DEFINE k == Len(pend[c])
<1>1. /\ at[c] = "top" /\ at'[c] = "prove"
      /\ queue' = [queue EXCEPT ![c] = Handed(c, pend[c], k)]
      /\ pend' = [pend EXCEPT ![c] = << >>]
      /\ UNCHANGED <<co, frames, answer, gen, result, shape, seen>>
      /\ \A d \in Requests : d # c => at'[d] = at[d]
  BY StreamFunctions DEF LoopEnds, call
<1>2. pend[c] \in Seq(Nat) /\ k \in 0..Len(pend[c]) /\ shape[c] # None
  BY <1>1, RequestType DEF GenInv
<1>3. KeptBack(pend[c], k) = << >>
  BY <1>2, AllHanded
<1>4. Heard(c)' = Heard(c) /\ Heard(c) \in 0..Bound(c)
  BY <1>1, <1>2, HeardType DEF ToldInv, Heard, Total
<1>5. (co[c] # "over" /\ shape[c] # None) =>
          InOrder(frames[c], queue[c], pend[c], Heard(c)')
  BY <1>1, <1>4, ToldStream
<1>6. \A d \in Requests : d # c =>
          at'[d] = at[d] /\ seen'[d] = seen[d] /\ gen'[d] = gen[d]
  BY <1>1
<1> QED BY <1>1, <1>2, <1>3, <1>4, <1>5, <1>6, ToldHands

\* The proof is built, or is not.
LEMMA ToldProves ==
    ASSUME TypeOK, GenInv, EndInv, ToldInv, NEW c \in Requests, Proves(c)
    PROVE  ToldInv'
<1>1. at[c] = "prove" /\ UNCHANGED <<co, frames, answer, seen, gen, shape>>
  BY DEF Proves, call
<1>2. PICK how \in {"ok", "error"} : Settle(c, how, queue[c])
  BY DEF Proves
<1>3. queue[c] \in Seq(Seq(Nat)) /\ IsText(queue[c])
      /\ Ended(gen[c], shape[c].max)
  BY <1>1, RequestType DEF EndInv, GenInv
<1>4. (co[c] # "over" /\ shape[c] # None) =>
          \E p \in Seq(Nat), n \in 0..Bound(c) :
              /\ InOrder(frames[c], queue[c], p, n)
              /\ ~shape[c].stream => n = 0
              /\ how = "ok" => p = pend[c] /\ n = Heard(c)
  BY <1>1, ToldStream
<1> QED BY <1>1, <1>2, <1>3, <1>4, ToldSettles

\* Every step keeps what is told.
LEMMA ToldStep ==
    ASSUME PerEvent = 1, TypeOK, GenInv, EndInv, ToldInv, [Next]_vars
    PROVE  ToldInv'
<1> USE DEF loop, work, call, hist
<1>1. ASSUME NEW c \in Requests, ReadsServe(c) PROVE ToldInv'
  BY <1>1, StreamFunctions, ToldStays DEF ReadsServe
<1>2. ASSUME NEW c \in Requests, Starts(c) PROVE ToldInv'
  <2>1. at[c] = "none"
    BY <1>2 DEF Starts, GenInv
  <2> QED BY <1>2, <2>1, StreamFunctions, ToldStays DEF Starts, Quiet
<1>3. ASSUME NEW c \in Requests, ReadsCancel(c) PROVE ToldInv'
  BY <1>3, ToldStays DEF ReadsCancel
<1>4. ASSUME NEW c \in Requests, ThreadStarts(c) PROVE ToldInv'
  BY <1>4, StreamFunctions, ToldStays DEF ThreadStarts, Quiet
<1>5. ASSUME NEW c \in Requests, Picks(c) PROVE ToldInv'
  BY <1>5, StreamFunctions, ToldStays DEF Picks, Quiet
<1>6. ASSUME NEW c \in Requests, Registers(c) PROVE ToldInv'
  BY <1>6, StreamFunctions, ToldStays DEF Registers, Quiet
<1>7. ASSUME NEW c \in Requests, AbortStarts(c) PROVE ToldInv'
  BY <1>7, ToldStays DEF AbortStarts
<1>8. ASSUME NEW c \in Requests, AbortLands(c) PROVE ToldInv'
  BY <1>8, ToldStays DEF AbortLands
<1>9. ASSUME NEW c \in Requests, AbortFails(c) PROVE ToldInv'
  BY <1>9, ToldStays DEF AbortFails
<1>10. ASSUME SocketEnds PROVE ToldInv'
  BY <1>10, ToldStays DEF SocketEnds
<1>11. ASSUME UNCHANGED vars PROVE ToldInv'
  BY <1>11, ToldStays DEF vars
<1>12. ASSUME NEW c \in Requests, SendsChunk(c) PROVE ToldInv'
  BY <1>12, ToldSends
<1>13. ASSUME NEW c \in Requests, Answers(c) PROVE ToldInv'
  BY <1>13, ToldAnswers
<1>14. ASSUME NEW c \in Requests, PrepFails(c) PROVE ToldInv'
  <2>1. at[c] # "over" /\ Settle(c, "error", queue[c])
        /\ UNCHANGED <<co, frames, answer, seen, gen, shape>>
    BY <1>14 DEF PrepFails
  <2> QED BY <2>1, ToldStops
<1>15. ASSUME NEW c \in Requests, ChecksTop(c) PROVE ToldInv'
  <2>1. CASE Unwinds(c, "cancelled", queue[c])
    <3>1. at[c] # "over" /\ Settle(c, "cancelled", queue[c])
          /\ UNCHANGED <<co, frames, answer, seen, gen, shape>>
      BY <1>15, <2>1 DEF ChecksTop, Unwinds
    <3> QED BY <3>1, ToldStops
  <2>2. CASE ~Unwinds(c, "cancelled", queue[c])
    BY <1>15, <2>2, StreamFunctions, ToldStays DEF ChecksTop, Quiet
  <2> QED BY <2>1, <2>2
<1>16. ASSUME NEW c \in Requests, Posts(c) PROVE ToldInv'
  BY <1>16, ToldPosts
<1>17. ASSUME NEW c \in Requests, Event(c) PROVE ToldInv'
  BY <1>17, ToldEvent
<1>18. ASSUME NEW c \in Requests, Returns(c) PROVE ToldInv'
  BY <1>18, ToldReturns
<1>19. ASSUME NEW c \in Requests, CallFails(c) PROVE ToldInv'
  <2>1. PICK how \in {"error", "cancelled"} : Unwinds(c, how, queue[c])
    BY <1>19 DEF CallFails
  <2>2. at[c] # "over" /\ UNCHANGED <<call, hist>>
    BY <1>19 DEF CallFails, Registered
  <2>3. Settle(c, how, queue[c])
        /\ UNCHANGED <<co, frames, answer, seen, gen, shape>>
    BY <2>1, <2>2 DEF Unwinds
  <2> QED BY <2>2, <2>3, ToldStops
<1>20. ASSUME NEW c \in Requests, LoopEnds(c) PROVE ToldInv'
  BY <1>20, ToldLoopEnds
<1>21. ASSUME NEW c \in Requests, Proves(c) PROVE ToldInv'
  BY <1>21, ToldProves
<1> QED
  BY <1>1, <1>2, <1>3, <1>4, <1>5, <1>6, <1>7, <1>8, <1>9, <1>10, <1>11,
     <1>12, <1>13, <1>14, <1>15, <1>16, <1>17, <1>18, <1>19, <1>20, <1>21
     DEF Next, Coroutine, Thread, Reply, Abort, Idle

\* It holds at first.
LEMMA ToldInit == Init => ToldInv
<1> SUFFICES ASSUME Init, NEW c \in Requests PROVE Told(c)
  BY DEF ToldInv
<1>1. TypeOK /\ GenInv
  BY GenInit
<1>2. /\ co[c] = "none" /\ at[c] = "none" /\ queue[c] = << >>
      /\ frames[c] = << >> /\ answer[c] = "none" /\ result[c] = "none"
      /\ pend[c] = << >> /\ gen[c] = NoTokens
  BY DEF Init
<1>3. ASSUME shape[c] # None PROVE Sound(c)
  <2>1. Heard(c) = 0
    <3>1. gen[c].oids = << >>
      BY <1>2 DEF NoTokens
    <3>2. Total(c) = 0
      BY <1>1, <1>3, <3>1, CountTypes
    <3> QED BY <1>2, <3>2 DEF Heard
  <2>2. << >> \in Seq(Nat) /\ 0 \in 0..Bound(c)
    BY <1>1, <1>3, CountTypes
  <2>3. InOrder(<< >>, << >>, << >>, 0)
    BY InOrderNothing
  <2> QED BY <1>2, <2>1, <2>2, <2>3 DEF Sound
<1> QED BY <1>2, <1>3 DEF Told

-----------------------------------------------------------------------------
(* The miner keeps its promise to the buyer.                               *)

\* Buyer's words for EngyJob's.
Left == {c \in Requests : caught[c] \in Stoppable}
Folded == {c \in Requests : gen[c].extra # << >>}

\* Where no answer has been sent.
LEMMA Unanswered ==
    ASSUME NEW c \in Requests, answer[c] = "none"
    PROVE  BuyerReply[c] = B!NoReply
BY DEF BuyerReply, B!NoReply

\* One answer is sent.
LEMMA Answering ==
    ASSUME NEW c \in Requests, UNCHANGED gen,
           \A d \in Requests : d # c => answer'[d] = answer[d]
    PROVE  BuyerReply' =
               [BuyerReply EXCEPT ![c] =
                   [how |-> answer'[c],
                    tokens |-> IF answer'[c] = "response" THEN gen[c].oids
                               ELSE << >>]]
BY DEF BuyerReply

\* A step the buyer does not see.
LEMMA Unseen ==
    ASSUME UNCHANGED <<shape, frames, answer>>,
           \A c \in Requests :
               /\ answer[c] = "response" => gen'[c].oids = gen[c].oids
               /\ gen'[c].extra # << >> <=> gen[c].extra # << >>
               /\ caught'[c] \in Stoppable <=> caught[c] \in Stoppable
    PROVE  UNCHANGED B!buyerVars
<1>1. BuyerReply' = BuyerReply
  BY DEF BuyerReply
<1>2. Left' = Left /\ Folded' = Folded
  BY DEF Left, Folded
<1> QED BY <1>1, <1>2 DEF B!buyerVars, Left, Folded

\* A chunk that is sent tells the buyer more of the answer.
LEMMA SendsIsTell ==
    ASSUME TypeOK, GenInv, ToldInv, ToldInv', NEW c \in Requests,
           SendsChunk(c)
    PROVE  B!Tell(c) \/ UNCHANGED B!buyerVars
<1> DEFINE h == Head(queue[c])
<1>1. /\ co[c] = "run" /\ queue[c] # << >> /\ h # << >>
      /\ UNCHANGED <<answer, gen, shape, caught>>
  BY DEF SendsChunk, work, hist
<1>2. CASE c \in gone
  <2>1. UNCHANGED frames
    BY <1>2 DEF SendsChunk
  <2> QED BY <1>1, <2>1, Unseen
<1>3. CASE c \notin gone
  <2>1. frames' = [frames EXCEPT ![c] = @ \o h] /\ UNCHANGED co
    BY <1>3 DEF SendsChunk
  <2>2. frames[c] \in Seq(Nat) /\ h \in Seq(Nat)
    <3>1. queue[c] \in Seq(Seq(Nat))
      BY RequestType
    <3> QED BY <1>1, <3>1, RequestType
  <2>3. Len(h) \in Nat \ {0}
    <3> HIDE DEF h
    <3> QED BY <1>1, <2>2, EmptySeq
  <2>4. frames'[c] = frames[c] \o h
    BY <2>1, StreamFunctions
  <2>5. Len(frames'[c]) = Len(frames[c]) + Len(h) /\ Len(frames[c]) \in Nat
    <3> HIDE DEF h
    <3> QED BY <2>2, <2>4, ConcatProperties
  <2>6. shape[c] # None
    BY <1>1 DEF GenInv
  <2>7. PICK n \in 0..Bound(c)', q \in Seq(Seq(Nat)), p \in Seq(Nat) :
            /\ InOrder(frames'[c], q, p, n)
            /\ ~shape[c].stream => n = 0
    <3>1. Sound(c)'
      BY <1>1, <2>1, <2>6 DEF ToldInv, Told
    <3>2. queue'[c] \in Seq(Seq(Nat))
      BY <1>1, StreamFunctions DEF SendsChunk
    <3> QED BY <1>1, <3>1, <3>2 DEF Sound
  <2>8. n \in Nat /\ Bound(c)' = Bound(c) /\ Bound(c) \in Nat
    BY <1>1, <2>6, <2>7, CountTypes DEF Bound
  <2>9. PICK k \in 0..n : frames'[c] = Positions(1, k) /\ Len(frames'[c]) = k
    <3>1. InOrder(frames'[c], q, p, n) /\ Len(q) \in Nat
      BY <2>7
    <3> QED BY <2>8, <3>1, InOrderSent
  <2> HIDE DEF h
  <2>10. shape[c].stream /\ k \in Len(frames[c])..Bound(c)
    BY <2>3, <2>5, <2>7, <2>8, <2>9
  <2>11. frames' = [frames EXCEPT ![c] = B!Tokens(1, k)]
    BY <2>1, <2>4, <2>9 DEF B!Tokens, Positions
  <2>12. B!Whole(c) = Bound(c)
    BY DEF B!Whole, Bound, Least
  <2>13. BuyerReply[c] = B!NoReply
    BY <1>1, Unanswered DEF ToldInv, Told
  <2>14. BuyerReply' = BuyerReply
    BY <1>1 DEF BuyerReply
  <2> QED BY <1>1, <2>6, <2>10, <2>11, <2>12, <2>13, <2>14 DEF B!Tell
<1> QED BY <1>2, <1>3

\* What an answer says, and what was told before it.
LEMMA WholeAnswer ==
    ASSUME TypeOK, GenInv, ToldInv, NEW c \in Requests, co[c] = "run",
           result[c] = "ok", queue[c] # << >>, Head(queue[c]) = << >>
    PROVE  /\ Total(c) \in 0..Bound(c)
           /\ IF c \in Folded THEN Total(c) >= 1 ELSE Total(c) = Bound(c)
           /\ shape[c].stream => frames[c] = Positions(1, Total(c))
           /\ gen[c].oids =
                  Positions(IF c \in Folded THEN 2 ELSE 1, Total(c))
<1> DEFINE max == shape[c].max
           eos == shape[c].eos
           g == gen[c]
<1>1. /\ at[c] = "over" /\ Ended(g, max) /\ pend[c] = << >>
      /\ \A i \in 1..(Len(queue[c]) - 1) : queue[c][i] # << >>
      /\ shape[c] # None /\ Sound(c)
  BY DEF ToldInv, Told, GenInv
<1>2. max \in Nat /\ eos \in Nat \ {0} /\ ChunkInv(g, max, eos)
  BY <1>1, ShapeType
<1>3. Total(c) \in 0..Bound(c) /\ Bound(c) \in Nat
      /\ Bound(c) = Least(max, eos)
  BY <1>1, CountTypes DEF Bound
<1>4. /\ g.oids \in Seq(Nat) /\ g.extra \in Seq(Nat)
      /\ Len(g.oids) \in Nat /\ Len(g.extra) \in Nat
      /\ Len(g.extra) <= 1
      /\ g.oids = Positions(Len(g.extra) + 1, Total(c))
      /\ Total(c) = Len(g.extra) + Len(g.oids)
  <2>1. Total(c) = Len(g.extra) + Len(g.oids)
    BY DEF Total
  <2> HIDE DEF g, max, eos
  <2>2. /\ g \in GenType /\ Len(g.extra) <= 1
        /\ g.oids = Positions(Len(g.extra) + 1, Len(g.extra) + Len(g.oids))
    BY <1>2 DEF ChunkInv
  <2>3. g.oids \in Seq(Nat) /\ g.extra \in Seq(Nat)
    BY <2>2 DEF GenType
  <2>4. Len(g.oids) \in Nat /\ Len(g.extra) \in Nat
    BY <2>3
  <2> QED BY <2>1, <2>2, <2>3, <2>4
<1>5. c \in Folded <=> g.extra # << >>
  BY DEF Folded
<1>6. g.extra = << >> <=> Len(g.extra) = 0
  BY <1>4, EmptySeq
<1>7. g.extra = << >> => Len(g.oids) = Least(max, eos)
  BY <1>1, <1>2, ChunksDone
<1> HIDE DEF g, max, eos
<1>8. c \notin Folded => Total(c) = Bound(c)
  <2> SUFFICES ASSUME c \notin Folded PROVE Total(c) = Bound(c)
    OBVIOUS
  <2>1. Len(g.extra) = 0 /\ Len(g.oids) = Bound(c)
    BY <1>3, <1>5, <1>6, <1>7
  <2> QED BY <1>4, <2>1
<1>9. c \in Folded => Total(c) >= 1
  <2> SUFFICES ASSUME c \in Folded PROVE Total(c) >= 1
    OBVIOUS
  <2>1. Len(g.extra) # 0
    BY <1>5, <1>6
  <2> DEFINE x == Len(g.extra)
             y == Len(g.oids)
  <2>2. Total(c) = x + y /\ x \in Nat /\ y \in Nat /\ x # 0
    BY <1>4, <2>1
  <2> HIDE DEF x, y
  <2> QED BY <2>2
<1>10. g.oids = Positions(IF c \in Folded THEN 2 ELSE 1, Total(c))
  <2>1. Len(g.extra) + 1 = IF c \in Folded THEN 2 ELSE 1
    BY <1>4, <1>5, <1>6
  <2> QED BY <1>4, <2>1
<1>11. ASSUME shape[c].stream PROVE frames[c] = Positions(1, Total(c))
  <2>1. Heard(c) = Total(c)
    BY <1>1, <1>11 DEF Heard
  <2>2. InOrder(frames[c], queue[c], << >>, Total(c))
    BY <1>1, <2>1 DEF Sound
  <2>3. queue[c] \in Seq(Seq(Nat)) /\ Len(queue[c]) \in Nat \ {0}
        /\ queue[c][1] = << >>
    <3>1. queue[c] \in Seq(Seq(Nat))
      BY RequestType
    <3> QED BY <3>1, EmptySeq
  <2>4. Len(queue[c]) = 1
    <3> DEFINE l == Len(queue[c])
    <3>1. l \in Nat \ {0} /\ \A i \in 1..(l - 1) : queue[c][i] # << >>
      BY <1>1, <2>3
    <3>2. 1 \notin 1..(l - 1)
      BY <2>3, <3>1
    <3> HIDE DEF l
    <3>3. l = 1
      BY <3>1, <3>2
    <3> QED BY <3>3 DEF l
  <2>5. Total(c) \in Nat
    BY <1>3
  <2> QED BY <2>2, <2>3, <2>4, <2>5, InOrderAll
<1> QED BY <1>3, <1>8, <1>9, <1>10, <1>11 DEF g

\* The terminal frame is the buyer's answer or error, if there is one.
LEMMA AnswersIsReply ==
    ASSUME TypeOK, GenInv, CancelInv, ToldInv, NEW c \in Requests, Answers(c)
    PROVE  B!Respond(c) \/ B!Fail(c) \/ UNCHANGED B!buyerVars
<1>1. /\ co[c] = "run" /\ queue[c] # << >> /\ Head(queue[c]) = << >>
      /\ UNCHANGED <<frames, result, gen, shape, caught>>
      /\ \A d \in Requests : d # c => answer'[d] = answer[d]
      /\ answer'[c] \in {"none", "response", "error"}
      /\ answer'[c] = "response" => result[c] = "ok"
  BY StreamFunctions DEF Answers, work, hist
<1>2. shape[c] # None /\ answer[c] = "none"
  BY <1>1 DEF GenInv, ToldInv, Told
<1>3. BuyerReply[c] = B!NoReply
  BY <1>2, Unanswered
<1>4. BuyerReply' =
          [BuyerReply EXCEPT ![c] =
              [how |-> answer'[c],
               tokens |-> IF answer'[c] = "response" THEN gen[c].oids
                          ELSE << >>]]
  BY <1>1, Answering
<1>5. CASE answer'[c] = "none"
  <2>1. answer' \in [Requests -> {"none", "response", "error"}]
    BY StreamFunctions DEF Answers
  <2>2. UNCHANGED answer
    BY <1>1, <1>2, <1>5, <2>1, StreamFunctions
  <2> QED BY <1>1, <2>2, Unseen
<1>6. CASE answer'[c] = "error"
  BY <1>1, <1>3, <1>4, <1>6 DEF B!Fail
<1>7. CASE answer'[c] = "response"
  <2> DEFINE n == Total(c)
  <2>1. /\ n \in 0..Bound(c)
        /\ IF c \in Folded THEN n >= 1 ELSE n = Bound(c)
        /\ shape[c].stream => frames[c] = Positions(1, n)
        /\ gen[c].oids = Positions(IF c \in Folded THEN 2 ELSE 1, n)
    BY <1>1, <1>7, WholeAnswer
  <2> HIDE DEF n
  <2>2. B!Whole(c) = Bound(c)
    BY DEF B!Whole, Bound, Least
  <2>3. \A a, b : B!Tokens(a, b) = Positions(a, b)
    BY DEF B!Tokens, Positions
  <2>4. c \notin Left
    <3>1. at[c] = "over" /\ result[c] = "ok"
      BY <1>1, <1>7 DEF ToldInv, Told
    <3> QED BY <3>1 DEF CancelInv, Left, Stoppable, Generating
  <2>5. BuyerReply' =
            [BuyerReply EXCEPT ![c] =
                [how |-> "response",
                 tokens |-> B!Tokens(IF c \in Folded THEN 2 ELSE 1, n)]]
    BY <1>4, <1>7, <2>1, <2>3
  <2> QED BY <1>1, <1>2, <1>3, <2>1, <2>2, <2>3, <2>4, <2>5
          DEF B!Respond, Left, Folded
<1> QED BY <1>1, <1>5, <1>6, <1>7

\* A CANCEL that comes before the generation is complete is the buyer leaving.
LEMMA CancelIsLeave ==
    ASSUME TypeOK, CancelInv, EndInv, NEW c \in Requests, ReadsCancel(c)
    PROVE  B!Leave(c) \/ UNCHANGED B!buyerVars
<1>1. /\ UNCHANGED <<frames, answer, gen, shape>> /\ caught[c] = "none"
      /\ caught'[c] \in {at[c], "prove"}
      /\ \A d \in Requests : d # c => caught'[d] = caught[d]
  BY MoreFunctions DEF ReadsCancel, CancelInv, loop, work
<1>2. /\ "none" \notin Stoppable /\ "over" \notin Stoppable
      /\ "prove" \notin Stoppable
  BY DEF Stoppable, Generating
<1>3. BuyerReply' = BuyerReply /\ Folded' = Folded
  BY <1>1 DEF BuyerReply, Folded
<1>4. CASE caught'[c] \in Stoppable
  <2>1. at[c] # "over"
    BY <1>1, <1>2, <1>4
  <2>2. BuyerReply[c] = B!NoReply
    BY <2>1, Unanswered DEF EndInv
  <2>3. Left' = Left \cup {c}
    BY <1>1, <1>4 DEF Left
  <2> QED BY <1>1, <1>3, <2>2, <2>3 DEF B!Leave, Left, Folded
<1>5. CASE caught'[c] \notin Stoppable
  BY <1>1, <1>2, <1>5, Unseen
<1> QED BY <1>4, <1>5

\* A call that returns can fold the answer's first token into the prompt.
LEMMA ReturnsIsFold ==
    ASSUME TypeOK, GenInv, EndInv, NEW c \in Requests, Returns(c)
    PROVE  B!Fold(c) \/ UNCHANGED B!buyerVars
<1>1. at[c] = "gen" /\ answer[c] = "none" /\ UNCHANGED caught
  BY DEF Returns, EndInv, hist
<1>2. CASE at'[c] = "over"
  <2>1. at'[c] # "top"
    BY <1>2
  <2>2. UNCHANGED <<frames, answer, gen, shape>>
    BY <2>1, StreamFunctions DEF Returns, Unwinds
  <2> QED BY <1>1, <2>2, Unseen
<1>3. CASE at'[c] # "over"
  <2>1. /\ gen' = [gen EXCEPT ![c] = gen'[c]]
        /\ UNCHANGED <<frames, answer, shape>>
    BY <1>3, ReturnsExtends
  <2>2. \A d \in Requests : d # c => gen'[d] = gen[d]
    BY <2>1, StreamFunctions
  <2>3. CASE gen'[c].extra # << >>
    <3>1. BuyerReply[c] = B!NoReply
      BY <1>1, Unanswered
    <3>2. BuyerReply' = BuyerReply
      BY <1>1, <2>1, <2>2 DEF BuyerReply
    <3>3. Folded' = Folded \cup {c} /\ Left' = Left
      BY <1>1, <2>2, <2>3 DEF Folded, Left
    <3> QED BY <2>1, <3>1, <3>2, <3>3 DEF B!Fold, Left, Folded
  <2>4. CASE gen'[c].extra = << >>
    <3>1. gen[c].extra = << >>
      BY <1>1, CallShape, CallBounds
    <3> QED BY <1>1, <2>1, <2>2, <2>4, <3>1, Unseen
  <2> QED BY <2>3, <2>4
<1> QED BY <1>2, <1>3

\* Every step of the miner is one of its promise, or not seen by the buyer.
LEMMA StepIsKept ==
    ASSUME TypeOK, GenInv, CancelInv, EndInv, ToldInv, ToldInv', [Next]_vars
    PROVE  [B!BuyerNext]_(B!buyerVars)
<1> USE DEF loop, work, call, hist
<1> DEFINE Kept == B!BuyerNext \/ UNCHANGED B!buyerVars
<1> SUFFICES Kept
  OBVIOUS
<1>1. ASSUME UNCHANGED <<shape, frames, answer, gen, caught>> PROVE Kept
  BY <1>1, Unseen
<1> HIDE DEF Kept
<1>2. ASSUME NEW c \in Requests, SendsChunk(c) PROVE Kept
  BY <1>2, SendsIsTell DEF Kept, B!BuyerNext
<1>3. ASSUME NEW c \in Requests, Answers(c) PROVE Kept
  BY <1>3, AnswersIsReply DEF Kept, B!BuyerNext
<1>4. ASSUME NEW c \in Requests, ReadsCancel(c) PROVE Kept
  BY <1>4, CancelIsLeave DEF Kept, B!BuyerNext
<1>5. ASSUME NEW c \in Requests, Returns(c) PROVE Kept
  BY <1>5, ReturnsIsFold DEF Kept, B!BuyerNext
<1>6. ASSUME NEW c \in Requests, ReadsServe(c) \/ Starts(c) PROVE Kept
  BY <1>1, <1>6 DEF ReadsServe, Starts
<1>7. ASSUME NEW c \in Requests, Thread(c) PROVE Kept
  BY <1>1, <1>7 DEF Thread, ThreadStarts, PrepFails, Picks, ChecksTop,
                    Registers, Posts, LoopEnds, Proves, Unwinds
<1>8. ASSUME NEW c \in Requests, Event(c) \/ CallFails(c) PROVE Kept
  BY <1>1, <1>8 DEF Event, CallFails, Unwinds
<1>9. ASSUME NEW c \in Requests, Abort(c) PROVE Kept
  BY <1>1, <1>9 DEF Abort, AbortStarts, AbortLands, AbortFails
<1>10. ASSUME SocketEnds \/ UNCHANGED vars PROVE Kept
  BY <1>1, <1>10 DEF SocketEnds, vars
<1> QED
  BY <1>2, <1>3, <1>4, <1>5, <1>6, <1>7, <1>8, <1>9, <1>10
     DEF Next, Coroutine, Reply, Idle

\* The miner implements what it promises the buyer, for any number of
\* requests, serves and threads and answers of any length, if an event brings
\* one token.
THEOREM Refinement ==
    ASSUME PerEvent = 1
    PROVE  Spec => ImplementsBuyer
<1> DEFINE I == TypeOK /\ GenInv /\ CancelInv /\ EndInv /\ ToldInv
<1>1. Init => I /\ B!BuyerInit
  <2> SUFFICES ASSUME Init PROVE I /\ B!BuyerInit
    OBVIOUS
  <2>1. I
    BY GenInit, CancelInit, ToldInit
  <2>2. BuyerReply = [c \in Requests |-> B!NoReply]
    BY DEF Init, BuyerReply, B!NoReply
  <2>3. Left = {} /\ Folded = {}
    BY DEF Init, Left, Folded, Stoppable, Generating, NoTokens
  <2> QED BY <2>1, <2>2, <2>3 DEF Init, B!BuyerInit, Left, Folded
<1>2. I /\ [Next]_vars => I'
  BY TypeStep, GenStep, CancelStep, EndStep, ToldStep
<1>3. I /\ I' /\ [Next]_vars => [B!BuyerNext]_(B!buyerVars)
  BY StepIsKept
<1> QED BY <1>1, <1>2, <1>3, PTL DEF Spec, ImplementsBuyer, B!BuyerSpec

=============================================================================
