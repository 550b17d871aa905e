------------------------------- MODULE Ledger -------------------------------
(***************************************************************************)
(* What the validator promises, with the tick, the connection and the      *)
(* clock left out: submitting a vector and recording it are one step.  The *)
(* record is the epoch applied and the scored vector kept for an outage.   *)
(***************************************************************************)
EXTENDS Integers

CONSTANTS None, Burn, MaxEpoch

VARIABLES
    signed,   \* latest epoch the master has signed
    onchain,  \* [epoch, what]: the weights on chain
    record    \* [applied, cache]

ledgerVars == <<signed, onchain, record>>

LedgerInit ==
    /\ signed = 0
    /\ onchain = [epoch |-> None, what |-> None]
    /\ record = [applied |-> None, cache |-> None]

Sign ==
    /\ signed < MaxEpoch
    /\ signed' = signed + 1
    /\ UNCHANGED <<onchain, record>>

\* Nothing older than what has been applied is ever submitted.
NotOlder(e) == record.applied # None => e >= record.applied

\* A scored result the master signed is put on chain; r is the record of it.
Apply(r) ==
    \E e \in 1..signed :
        /\ NotOlder(e)
        /\ onchain' = [epoch |-> e, what |-> e]
        /\ r = [applied |-> e, cache |-> e]

\* The kept vector once more, during an outage.
Reapply(r) ==
    /\ record.applied # None
    /\ record.cache # None
    /\ onchain' = [epoch |-> record.applied, what |-> record.cache]
    /\ r = record

\* An epoch whose result lands nothing: the kept vector or a burn stands in,
\* the epoch counts as applied and the kept vector stays.
Standby(r) ==
    \E e \in 1..signed : \E w \in {record.cache, Burn} \ {None} :
        /\ NotOlder(e)
        /\ onchain' = [epoch |-> e, what |-> w]
        /\ r = [record EXCEPT !.applied = e]

Submit(r) == (Apply(r) \/ Reapply(r) \/ Standby(r)) /\ UNCHANGED signed

LedgerNext == Sign \/ Submit(record')

LedgerSpec == LedgerInit /\ [][LedgerNext]_ledgerVars

=============================================================================
