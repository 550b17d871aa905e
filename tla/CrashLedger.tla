---------------------------- MODULE CrashLedger ----------------------------
(***************************************************************************)
(* The Ledger with a file it is kept in and faults that lose work.  What a *)
(* submission adds to the record is lost in a fault until it is saved, and *)
(* nothing else is: every fault costs one submission, or one field of the  *)
(* file, or nothing.                                                       *)
(***************************************************************************)
EXTENDS Ledger

CONSTANT Budget

VARIABLES
    file,  \* the record as a restart would find it
    left   \* faults left

crashVars == <<ledgerVars, file, left>>

CrashInit == LedgerInit /\ file = record /\ left = Budget

\* Nothing is submitted while the last submission has not been saved.
SubmitSaved ==
    /\ file = record
    /\ Submit(record')
    /\ UNCHANGED <<file, left>>

Save ==
    /\ file' = record
    /\ UNCHANGED <<ledgerVars, left>>

Fault == left > 0 /\ left' = left - 1

\* A crash or a failed write: back to the file.
Forget ==
    /\ Fault
    /\ record' = file
    /\ UNCHANGED <<signed, onchain, file>>

\* A submission lands and nobody hears of it.
SubmitUnheard ==
    /\ Fault
    /\ file = record
    /\ \E e \in 1..signed : \E w \in (1..signed) \cup {record.cache} :
          Submit([applied |-> e, cache |-> w])
    /\ UNCHANGED <<record, file>>

\* A field of the file is lost.
LoseField ==
    /\ Fault
    /\ file = record
    /\ \E f \in {"applied", "cache"} : file' = [file EXCEPT ![f] = None]
    /\ record' = file'
    /\ UNCHANGED <<signed, onchain>>

CrashNext ==
    \/ Sign /\ UNCHANGED <<file, left>>
    \/ SubmitSaved
    \/ Save
    \/ Forget
    \/ SubmitUnheard
    \/ LoseField

CrashSpec == CrashInit /\ [][CrashNext]_crashVars

=============================================================================
