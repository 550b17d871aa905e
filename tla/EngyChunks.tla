----------------------------- MODULE EngyChunks -----------------------------
(***************************************************************************)
(* The reference miner generates an answer in several serve calls          *)
(* (_generate_chunked, _gen_once and _fin_rows of miner/engy_miner.py).    *)
(*                                                                         *)
(* Decoding is greedy, so a token is named by its position in the one      *)
(* answer the model has for the prompt; eos is the position of its last.   *)
(* The hidden row that belongs to a token has the token's name: whether    *)
(* rows and tokens go together is whether two sequences are equal.         *)
(***************************************************************************)
EXTENDS Integers, Sequences

CONSTANT GenChunk   \* GEN_CHUNK

ASSUME ChunksAssumption == GenChunk \in Nat \ {0}

Least(a, b) == IF a <= b THEN a ELSE b

\* The tokens first..last.
Positions(first, last) == [i \in 1..(last - first + 1) |-> first + i - 1]

\* What a generation has collected: all_oids, rows_list, prompt_extra, stopped.
NoTokens == [oids |-> << >>, rows |-> << >>, extra |-> << >>, stopped |-> FALSE]

-----------------------------------------------------------------------------
(* What the serve answers.                                                 *)

\* Where a call goes on: a continuation drops its last token, which the serve
\* then generates again.
Resume(g) == IF g.oids = << >> THEN 1 ELSE Len(g.extra) + Len(g.oids)

Want(g, max) == Least(GenChunk, max - Len(g.oids))

\* How many tokens a call asks for: a continuation one more, the overlap.
Asks(g, max) == Want(g, max) + (IF g.oids = << >> THEN 0 ELSE 1)

\* The last token of a call that runs to its end.
LastOf(g, max, eos) == Least(Resume(g) + Asks(g, max) - 1, eos)

\* An answer with the tokens up to last.  A prompt that is cached as a whole
\* comes back with an empty prefill block, and so without its first row.
Answer(g, last, cached, ftype) ==
    [oids |-> Positions(Resume(g), last),
     rows |-> Positions(Resume(g) + (IF cached THEN 1 ELSE 0), last),
     offset |-> IF cached THEN 1 ELSE 0,
     ftype |-> ftype]

\* Ending exactly at the limit may be reported as either.
FinishTypes(g, max, eos) ==
    IF eos < Resume(g) + Asks(g, max) - 1 THEN {"stop"}
    ELSE IF eos = Resume(g) + Asks(g, max) - 1 THEN {"stop", "length"}
    ELSE {"length"}

-----------------------------------------------------------------------------
(* What the miner makes of it.                                             *)

\* The first chunk: tokens without a row are folded into the prompt.
KeptOfFirst(a) ==
    LET oids == SubSeq(a.oids, a.offset + 1, Len(a.oids))
        nkeep == Least(Len(a.rows), Len(oids))
    IN  [oids |-> SubSeq(oids, 1, nkeep), rows |-> SubSeq(a.rows, 1, nkeep),
         extra |-> SubSeq(a.oids, 1, a.offset)]

\* Mutant: the row of the overlap is taken for that of the next token.
KeptOfNextUnshifted(a) ==
    LET avail == Len(a.rows)
    IN  [oids |-> SubSeq(a.oids, 2, Least(1 + avail, Len(a.oids))),
         rows |-> SubSeq(a.rows, 1, Least(avail, Len(a.oids) - 1)),
         extra |-> << >>]

\* A continuation: the overlap is dropped, and its row if it has one.
KeptOfNext(a) ==
    LET start == IF a.offset = 0 THEN 1 ELSE 0
        avail == Len(a.rows) - start
    IN  [oids |-> SubSeq(a.oids, 2, 1 + avail),
         rows |-> SubSeq(a.rows, start + 1, start + avail), extra |-> << >>]

\* Mutant: a chunk that brings what was wanted, and no more, is the last.
ExtendOnce(g, max, a) ==
    LET kept == IF g.oids = << >> THEN KeptOfFirst(a) ELSE KeptOfNext(a)
    IN  [oids |-> g.oids \o kept.oids, rows |-> g.rows \o kept.rows,
         extra |-> g.extra \o kept.extra,
         stopped |-> a.ftype # "length" \/ Len(kept.oids) <= Want(g, max)]

\* One more chunk.  A full chunk says nothing of the model: its length was
\* the miner's choice.
Extend(g, max, a) ==
    LET kept == IF g.oids = << >> THEN KeptOfFirst(a) ELSE KeptOfNext(a)
    IN  [oids |-> g.oids \o kept.oids, rows |-> g.rows \o kept.rows,
         extra |-> g.extra \o kept.extra,
         stopped |-> a.ftype # "length" \/ Len(kept.oids) < Want(g, max)]

\* The loop is over: the budget is used, or the model has stopped.
Ended(g, max) == g.stopped \/ Len(g.oids) >= max

=============================================================================
