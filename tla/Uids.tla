-------------------------------- MODULE Uids --------------------------------
(***************************************************************************)
(* What a vector of weights becomes on chain (validator/chain.py,          *)
(* resolve_uids): rows of hotkeys that are not registered are dropped, the *)
(* weights of the others are scaled to U16 and rounded down, and what is   *)
(* then missing goes to the largest share.                                 *)
(*                                                                         *)
(* A vector is the payload's list of rows <<hotkey, weight>>.  Nothing in  *)
(* well_formed_weights keeps a hotkey from having two of them.  The lists  *)
(* the code returns are in the order of the uids; here a share is named by *)
(* the row it comes from, and the uids only settle a tie.                  *)
(***************************************************************************)
EXTENDS Integers, FiniteSets, Sequences, Functions

CONSTANTS
    U16,      \* the whole: 65535
    Hotkeys,  \* every hotkey the model knows
    Uid       \* hotkey -> its uid while it is registered

ASSUME UidsAssumption ==
    /\ U16 \in Nat \ {0}
    /\ Uid \in [Hotkeys -> Nat]

\* What well_formed_weights lets through.
WeightVectors == Seq(Hotkeys \X (0..U16))

Total(ws) == FoldFunction(+, 0, ws)

\* The weights of the rows whose hotkey is on chain.
Present(rows, onChain) ==
    [i \in {k \in DOMAIN rows : rows[k][1] \in onChain} |-> rows[i][2]]

Scaled(given) ==
    [i \in DOMAIN given |-> (given[i] * U16) \div Total(given)]

\* The row with the largest share; of several, the one with the lowest uid.
Top(rows, scaled) ==
    CHOOSE i \in DOMAIN scaled : \A j \in DOMAIN scaled :
        \/ scaled[j] < scaled[i]
        \/ scaled[j] = scaled[i] /\ Uid[rows[i][1]] <= Uid[rows[j][1]]

\* Mutant: what rounding takes is lost.
resolve_uids_short(rows, onChain) ==
    LET given == Present(rows, onChain)
    IN  IF Total(given) = 0 THEN [i \in DOMAIN given |-> 0] ELSE Scaled(given)

\* The shares that set_weights is given.
resolve_uids(rows, onChain) ==
    LET given  == Present(rows, onChain)
        scaled == Scaled(given)
        gap    == U16 - Total(scaled)
    IN  IF Total(given) = 0
        THEN [i \in DOMAIN given |-> 0]
        ELSE [scaled EXCEPT ![Top(rows, scaled)] = @ + gap]

-----------------------------------------------------------------------------
(* What resolve_uids promises of any vector and any metagraph.             *)

\* The shares make up the whole exactly, or are all zero if no registered
\* hotkey has any weight: rounding loses nothing, and "lands" is "pays
\* somebody who is registered".
SharesAddUp(rows, onChain) ==
    LET shares == resolve_uids(rows, onChain)
        paid   == \E i \in DOMAIN rows : rows[i][1] \in onChain /\ rows[i][2] > 0
    IN  Total(shares) = IF paid THEN U16 ELSE 0

\* Rounding takes less than one unit from a share, and what it takes goes to one
\* of them, which gains less than a unit per row.  But for that one, who has no
\* more weight than another has no greater share; and it has the largest.
SharesAreFair(rows, onChain) ==
    LET given  == Present(rows, onChain)
        shares == resolve_uids(rows, onChain)
        all    == Total(given)
    IN  all > 0 =>
          \E top \in DOMAIN given : \A i \in DOMAIN given :
              /\ shares[i] \in 0..U16
              /\ given[i] * U16 < (shares[i] + 1) * all
              /\ i # top => shares[i] * all <= given[i] * U16
              /\ i = top => shares[i] * all
                              < given[i] * U16 + Cardinality(DOMAIN given) * all
              /\ shares[i] <= shares[top]
              /\ i # top => \A j \in DOMAIN given :
                              given[i] <= given[j] => shares[i] <= shares[j]

\* A vector that is whole and all of whose hotkeys are registered is put on
\* chain as it was signed.
WholeIsKept(rows, onChain) ==
    Total(Present(rows, onChain)) = U16 =>
        resolve_uids(rows, onChain) = Present(rows, onChain)
=============================================================================
