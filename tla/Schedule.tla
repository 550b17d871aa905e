------------------------------ MODULE Schedule ------------------------------
(***************************************************************************)
(* The pure decisions of validator/schedule.py: when the weight vector is  *)
(* put on chain again.  The block number is authoritative; the wall clock  *)
(* only saves a connection (PregateSkip) or stands in when the block RPC   *)
(* gives nothing (ClockSaysDue).  Blocks and seconds are integers; None is *)
(* Python's None.                                                          *)
(***************************************************************************)
EXTENDS Integers

CONSTANTS
    None,           \* an absent field, a failed block read
    IntervalBlocks, \* interval_blocks, RESUBMIT_BLOCKS unless configured
    BlockS,         \* nominal seconds per block
    PregateNum,     \* PREGATE_FRACTION as a fraction PregateNum / PregateDen
    PregateDen

ASSUME ScheduleAssumption ==
    /\ None \notin Int
    /\ IntervalBlocks \in Nat \ {0}
    /\ BlockS \in Nat \ {0}
    /\ PregateNum \in Nat
    /\ PregateDen \in Nat \ {0}
    /\ PregateNum <= PregateDen     \* 0.8 in the code

\* The wall-clock fallback.  A negative elapsed time is a clock that jumped
\* back and counts as due.
ClockSaysDue(now, lastTs) ==
    \/ lastTs = None
    \/ now - lastTs < 0
    \/ now - lastTs >= IntervalBlocks * BlockS

\* Mutant: an older epoch's result is submitted again.
ShouldSubmitAnyEpoch(epoch, applied, block, lastBlock, now, lastTs) ==
    \/ epoch # applied
    \/ IF block = None \/ lastBlock = None
       THEN ClockSaysDue(now, lastTs)
       ELSE block - lastBlock >= IntervalBlocks

\* Mutant: the interval is one block short.
ShouldSubmitEarly(epoch, applied, block, lastBlock, now, lastTs) ==
    \/ applied = None
    \/ /\ applied # None
       /\ epoch > applied
    \/ /\ epoch = applied
       /\ IF block = None \/ lastBlock = None
          THEN ClockSaysDue(now, lastTs)
          ELSE block - lastBlock >= IntervalBlocks - 1

\* Mutant: an epoch is submitted once.
ShouldSubmitOnce(epoch, applied, block, lastBlock, now, lastTs) ==
    applied # None => epoch > applied

\* A new epoch at once, an older one never, the current one every interval.
ShouldSubmit(epoch, applied, block, lastBlock, now, lastTs) ==
    \/ applied = None
    \/ /\ applied # None
       /\ epoch > applied
    \/ /\ epoch = applied
       /\ IF block = None \/ lastBlock = None
          THEN ClockSaysDue(now, lastTs)
          ELSE block - lastBlock >= IntervalBlocks

\* Clearly too early to open a chain connection.
PregateSkip(now, lastTs) ==
    /\ lastTs # None
    /\ 0 <= now - lastTs
    /\ (now - lastTs) * PregateDen < IntervalBlocks * BlockS * PregateNum

=============================================================================
