-------------------------- MODULE ValidatorProofs --------------------------
(***************************************************************************)
(* Theorems about Schedule and Validator, for every value of the           *)
(* constants: any number of hotkeys, epochs, blocks and faults, any pace.  *)
(***************************************************************************)
EXTENDS Validator, FiniteSetTheorems, TLAPS

-----------------------------------------------------------------------------
(* The scheduling decisions.                                               *)

\* The pregate threshold is a fraction of the interval, so whatever it skips
\* the wall-clock fallback would refuse as well (schedule.py, pregate_skip).
LEMMA PregateIsConservative ==
    ASSUME NEW now \in Int, NEW lastTs \in Int \cup {None},
           PregateSkip(now, lastTs)
    PROVE  ~ClockSaysDue(now, lastTs)
<1> USE ScheduleAssumption
<1> DEFINE elapsed == now - lastTs
           full == IntervalBlocks * BlockS
<1>1. lastTs \in Int /\ elapsed \in Int /\ full \in Nat /\ 0 <= elapsed
  BY DEF PregateSkip
<1>2. elapsed * PregateDen < full * PregateNum
  BY DEF PregateSkip
<1>3. full * PregateNum <= full * PregateDen
  <2> HIDE DEF full
  <2>1. \A a, m, n \in Nat : m <= n => a * m <= a * n
    BY Z3
  <2> QED BY <1>1, <2>1
<1>4. elapsed < full
  <2> HIDE DEF full, elapsed
  <2>1. SUFFICES ASSUME full <= elapsed PROVE FALSE
    BY <1>1
  <2>2. \A a, b, n \in Nat : a <= b => a * n <= b * n
    BY Z3
  <2>3. full * PregateDen <= elapsed * PregateDen
    BY <1>1, <2>1, <2>2
  <2>4. elapsed * PregateDen \in Int /\ full * PregateNum \in Int /\ full * PregateDen \in Int
    BY <1>1
  <2> QED BY <2>3, <2>4, <1>2, <1>3
<1> QED BY <1>1, <1>4 DEF ClockSaysDue

\* The monotonic guard: a submission is never for an epoch older than the
\* one applied (schedule.py, should_submit).
LEMMA NeverSubmitsOlder ==
    ASSUME NEW epoch \in Int, NEW applied \in Int, NEW b, NEW lb, NEW now,
           NEW ts, ShouldSubmit(epoch, applied, b, lb, now, ts)
    PROVE  epoch >= applied
BY ScheduleAssumption DEF ShouldSubmit

\* With both block numbers known the interval alone decides a resubmission.
LEMMA BlocksDecide ==
    ASSUME NEW epoch \in Int, NEW b \in Int, NEW lb \in Int, NEW now, NEW ts,
           ShouldSubmit(epoch, epoch, b, lb, now, ts)
    PROVE  b - lb >= IntervalBlocks
BY ScheduleAssumption DEF ShouldSubmit

-----------------------------------------------------------------------------
(* Type correctness.                                                       *)

\* A finished, or dead, process holds no tick.
LEMMA NoJobType == NoJob \in Jobs
BY DEF NoJob, Jobs, Opt

\* What a tick has decided by the time it gets to each step.
TickShape ==
    /\ pc \in {"open", "submit", "write"} =>
          job.epoch \in Epochs /\ job.what \in Epochs
    /\ pc \in {"submit", "write"} => job.sent \in Vectors
    /\ pc \in {"fetch", "open", "submit", "write"} => job.now # None

TypeInv == TypeOK /\ TickShape

\* Initial states are well typed.
LEMMA TypeInit == Init => TypeInv
<1> USE ScheduleAssumption, ValidatorAssumption
<1> SUFFICES ASSUME Init PROVE TypeInv
  OBVIOUS
<1>1. disk \in Disks
  BY DEF Init, Disks, DiskFields, Opt
<1>2. onchain \in Weights
  BY DEF Init, Weights, Opt
<1>3. job \in Jobs
  BY NoJobType DEF Init
<1>4. registered \subseteq Hotkeys
  BY DEF Init
<1>5. landed \subseteq Epochs \X Vectors
  BY DEF Init
<1>6. finalized \in 0..MaxEpoch /\ clock \in 0..MaxClock /\ block \in Blocks
      /\ budget \in 0..Budget /\ lag \in Nat
  BY DEF Init, Blocks
<1>7. lastUpdate \in Opt(Blocks) /\ claim \in Opt(Epochs \X Epochs)
      /\ behind \in BOOLEAN /\ pc = "idle"
  BY DEF Init, Opt
<1> QED
  BY <1>1, <1>2, <1>3, <1>4, <1>5, <1>6, <1>7 DEF TypeOK, TickShape, TypeInv

\* Every step keeps the types, and the shape of the tick in progress.
LEMMA TypeStep == TypeInv /\ [Next]_vars => TypeInv'
<1> USE ScheduleAssumption, ValidatorAssumption
<1> SUFFICES ASSUME TypeInv, [Next]_vars PROVE TypeInv'
  OBVIOUS
<1> USE DEF TypeInv, TypeOK, TickShape, env, time, chain
<1>1. CASE Finalize BY <1>1 DEF Finalize
<1>2. CASE Churn BY <1>2 DEF Churn
<1>3. CASE Advance
  <2>1. block' \in Blocks /\ clock' \in 0..MaxClock
    BY <1>3 DEF Advance
  <2>2. lag' \in Nat
    BY <1>3 DEF Advance
  <2> QED BY <1>3, <2>1, <2>2 DEF Advance
<1>4. CASE Crash BY <1>4, NoJobType DEF Crash, Suffer
<1>5. CASE Restart BY <1>5 DEF Restart
<1>6. CASE LoseField
  <2>1. PICK f \in DiskFields : disk' = [disk EXCEPT ![f] = None]
    BY <1>6 DEF LoseField
  <2>2. disk' \in Disks
    <3> USE DEF Disks, Opt
    <3>1. CASE f = "applied" BY <2>1, <3>1
    <3>2. CASE f = "block" BY <2>1, <3>2
    <3>3. CASE f = "ts" BY <2>1, <3>3
    <3>4. CASE f = "cache" BY <2>1, <3>4
    <3>5. CASE f = "digest" BY <2>1, <3>5
    <3> QED BY <3>1, <3>2, <3>3, <3>4, <3>5 DEF DiskFields
  <2> QED BY <1>6, <2>2 DEF LoseField, Suffer
<1>7. CASE TickStart
  <2>1. clock # None
    OBVIOUS
  <2>2. /\ job' = [now |-> clock, epoch |-> None, what |-> None,
                   digest |-> None, cached |-> FALSE, block |-> None,
                   sent |-> None]
    BY <1>7 DEF TickStart, NoJob
  <2>3. job' \in Jobs /\ job'.now # None
    BY <2>1, <2>2 DEF Jobs, Opt
  <2> QED BY <1>7, <2>3 DEF TickStart
<1>8. CASE ResolveFresh
  <2>1. PICK e \in 1..finalized :
           /\ job' = [job EXCEPT !.epoch = e, !.what = e, !.digest = e]
           /\ pc' = Gate(e)
    BY <1>8 DEF ResolveFresh
  <2>2. e \in Epochs
    BY DEF Epochs
  <2>3. /\ job' \in Jobs
        /\ job'.epoch = e /\ job'.what = e /\ job'.now = job.now
    BY <2>1, <2>2 DEF Jobs, Opt
  <2> QED BY <1>8, <2>1, <2>2, <2>3 DEF ResolveFresh, Gate
<1>9. CASE ResolveCached
  <2>1. disk.applied \in Epochs /\ disk.cache \in Epochs /\ disk.digest \in Opt(Epochs)
    BY <1>9 DEF ResolveCached, Disks, Opt
  <2>2. /\ job' \in Jobs
        /\ job'.epoch = disk.applied /\ job'.what = disk.cache
        /\ job'.now = job.now
    BY <1>9, <2>1 DEF ResolveCached, Jobs, Opt
  <2> QED BY <1>9, <2>1, <2>2 DEF ResolveCached, Gate
<1>10. CASE ResolveNothing BY <1>10 DEF ResolveNothing
<1>11. CASE OpenFails BY <1>11 DEF OpenFails
<1>12. CASE OpenChain
  <2>1. Target \in Opt(Vectors)
    BY <1>12 DEF OpenChain, ReadBlock, Target, StandbyVector, Lands, Opt, Vectors, Jobs, Disks
  <2>2. CASE pc' = "submit"
    <3>1. PICK b \in Opt(Blocks) :
             /\ job' = [job EXCEPT !.block = b, !.sent = Target]
             /\ Target # None
      BY <1>12, <2>2 DEF OpenChain, ReadBlock, Opt
    <3>2. /\ job' \in Jobs
          /\ job'.epoch = job.epoch /\ job'.what = job.what
          /\ job'.now = job.now /\ job'.sent \in Vectors
      BY <2>1, <3>1 DEF Jobs, Opt
    <3> QED BY <1>12, <2>2, <3>2 DEF OpenChain, ReadBlock
  <2>3. CASE pc' # "submit"
    BY <1>12, <2>3 DEF OpenChain, ReadBlock
  <2> QED BY <2>2, <2>3
<1>13. CASE SubmitAccepted
  <2>1. onchain' \in Weights
    BY <1>13 DEF SubmitAccepted, Land, Weights, Opt
  <2>2. landed' \subseteq Epochs \X Vectors
    BY <1>13 DEF SubmitAccepted, Land
  <2> QED BY <1>13, <2>1, <2>2 DEF SubmitAccepted, Land, Opt
<1>14. CASE SubmitRefused BY <1>14 DEF SubmitRefused
<1>15. CASE SubmitUnseen
  <2>1. onchain' \in Weights
    BY <1>15 DEF SubmitUnseen, Land, Weights, Opt
  <2>2. landed' \subseteq Epochs \X Vectors
    BY <1>15 DEF SubmitUnseen, Land
  <2> QED BY <1>15, <2>1, <2>2 DEF SubmitUnseen, Land, Suffer, Opt
<1>16. CASE WriteState
  <2>1. disk' \in Disks
    BY <1>16 DEF WriteState, Disks, Jobs, Opt
  <2> QED BY <1>16, <2>1 DEF WriteState
<1>17. CASE WriteFails BY <1>17 DEF WriteFails, Suffer
<1>18. CASE Emit
  <2>1. claim' \in Opt(Epochs \X Epochs)
    BY <1>18 DEF Emit, ConsensusPair, Disks, Opt
  <2> QED BY <1>18, <2>1, NoJobType DEF Emit, ConsensusPair
<1>19. CASE UNCHANGED vars BY <1>19 DEF vars
<1> QED
  BY <1>1, <1>2, <1>3, <1>4, <1>5, <1>6, <1>7, <1>8, <1>9, <1>10, <1>11,
     <1>12, <1>13, <1>14, <1>15, <1>16, <1>17, <1>18, <1>19
     DEF Next, Environment, Tick, Resolve, Submit

\* Every variable keeps its type in every reachable state.
THEOREM TypeCorrect == Spec => []TypeOK
<1>1. TypeInv => TypeOK
  BY DEF TypeInv
<1> QED BY <1>1, TypeInit, TypeStep, PTL DEF Spec

-----------------------------------------------------------------------------
(* Safety.  The invariants the runs check are not inductive: between the   *)
(* snapshot and the write the promise lives in the tick's locals.          *)

\* The epoch being submitted is not older than the one recorded, and a
\* resubmission decided on blocks is at least an interval after its anchor.
DecisionHolds ==
    /\ pc \in {"submit", "write"} =>
          (disk.applied # None => job.epoch >= disk.applied)
    /\ pc = "submit" =>
          /\ job.block # None => job.block <= block
          /\ (/\ job.epoch = disk.applied
              /\ job.block # None
              /\ disk.block # None) => job.block - disk.block >= IntervalBlocks

\* Between landing and recording, the chain holds what the tick sent.
LandingPending ==
    pc = "write" =>
        /\ onchain.epoch = job.epoch /\ onchain.what = job.sent
        /\ <<job.epoch, job.sent>> \in landed

\* Where the tick's vector and digest come from.
ChoiceHolds ==
    /\ pc = "fetch" => ~job.cached
    /\ pc \in {"open", "submit", "write"} =>
          /\ job.cached => /\ job.epoch = disk.applied
                           /\ job.what = disk.cache
                           /\ job.digest = disk.digest
          /\ ~job.cached => job.digest = job.what /\ job.what = job.epoch
    /\ pc \in {"submit", "write"} =>
          job.sent \in {job.what, disk.cache, Burn}

\* What the file names did land.
RecordWasLanded ==
    /\ disk.applied # None => \E w \in Vectors : <<disk.applied, w>> \in landed
    /\ disk.digest # None => \E e \in Epochs : <<e, disk.digest>> \in landed

\* Only epochs the master has signed are submitted or recorded.
SignedOnly ==
    /\ pc \in {"open", "submit", "write"} => job.epoch <= finalized
    /\ disk.applied # None => disk.applied <= finalized

\* The two halves of RecordMatchesChain.
EpochIsRecorded ==
    (~behind /\ pc # "write") => disk.applied = onchain.epoch

CacheIsOnChain ==
    (~behind /\ pc # "write" /\ disk.cache # None) =>
        onchain.what \in {disk.cache, Burn}

IInv ==
    /\ TypeInv
    /\ SignedOnly
    /\ EpochIsRecorded
    /\ CacheWasLanded
    /\ CacheIsOnChain
    /\ ClaimWasLanded
    /\ DecisionHolds
    /\ LandingPending
    /\ ChoiceHolds
    /\ RecordWasLanded

\* Initial states satisfy the strengthened invariant.
LEMMA SafeInit == Init => IInv
<1> SUFFICES ASSUME Init PROVE IInv
  OBVIOUS
<1>1. /\ disk.applied = None /\ disk.cache = None /\ disk.digest = None
      /\ onchain.epoch = None /\ pc = "idle" /\ claim = None
  BY DEF Init, DiskFields
<1> QED
  BY <1>1, TypeInit DEF IInv, EpochIsRecorded, CacheWasLanded,
     CacheIsOnChain, ClaimWasLanded, DecisionHolds, LandingPending,
     ChoiceHolds, RecordWasLanded, SignedOnly

\* No step signs an epoch back, and what a tick takes up is signed.
LEMMA SignedStep == IInv /\ [Next]_vars => SignedOnly'
<1> USE ScheduleAssumption, ValidatorAssumption
<1> SUFFICES ASSUME IInv, [Next]_vars PROVE SignedOnly'
  OBVIOUS
<1>0. TypeOK /\ TickShape /\ TypeOK' /\ SignedOnly
  BY TypeStep DEF IInv, TypeInv
<1> USE DEF env, time, chain, SignedOnly
<1>1. finalized \in Int /\ finalized' \in Int /\ finalized' >= finalized
  <2>1. Finalize \/ finalized' = finalized
    BY DEF Next, Environment, Tick, Resolve, Submit, Churn, Advance, Crash,
       Restart, LoseField, TickStart, ResolveFresh, ResolveCached,
       ResolveNothing, OpenFails, OpenChain, ReadBlock, SubmitAccepted, SubmitRefused,
       SubmitUnseen, WriteState, WriteFails, Emit, vars
  <2>2. finalized \in Int /\ finalized' \in Int
    BY <1>0 DEF TypeOK
  <2>3. Finalize => finalized' = finalized + 1
    BY DEF Finalize
  <2> QED BY <2>1, <2>2, <2>3
<1>2. disk.applied \in Int \cup {None} /\ (pc \in {"open", "submit", "write"} => job.epoch \in Int)
  BY <1>0 DEF TypeOK, TickShape, Disks, Opt, Epochs
<1>3. disk'.applied # None => disk'.applied <= finalized'
  <2>1. CASE WriteState
    <3>1. disk'.applied = job.epoch /\ pc = "write"
      BY <2>1 DEF WriteState
    <3> QED BY <3>1, <1>0, <1>1, <1>2
  <2>2. CASE LoseField
    <3>1. disk'.applied \in {disk.applied, None}
      BY <2>2, <1>0 DEF LoseField, TypeOK, Disks
    <3> QED BY <3>1, <1>0, <1>1, <1>2
  <2>3. CASE disk' = disk
    BY <2>3, <1>0, <1>1, <1>2
  <2> QED
    BY <2>1, <2>2, <2>3 DEF Next, Environment, Tick, Resolve, Submit, Finalize,
       Churn, Advance, Crash, Restart, TickStart, ResolveFresh,
       ResolveCached, ResolveNothing, OpenFails, OpenChain, ReadBlock, SubmitAccepted,
       SubmitRefused, SubmitUnseen, WriteFails, Emit, vars
<1>4. pc' \in {"open", "submit", "write"} => job'.epoch <= finalized'
  <2> SUFFICES ASSUME pc' \in {"open", "submit", "write"}
               PROVE  job'.epoch <= finalized'
    OBVIOUS
  <2>1. CASE ResolveFresh
    <3>1. PICK e \in 1..finalized :
             job' = [job EXCEPT !.epoch = e, !.what = e, !.digest = e]
      BY <2>1 DEF ResolveFresh
    <3>2. job'.epoch = e
      BY <3>1, <1>0 DEF TypeOK, Jobs
    <3> QED BY <3>2, <1>1
  <2>2. CASE ResolveCached
    <3>1. job'.epoch = disk.applied /\ disk.applied # None
      BY <2>2, <1>0 DEF ResolveCached, TypeOK, Jobs
    <3> QED BY <3>1, <1>0, <1>1, <1>2
  <2>3. CASE OpenChain
    <3>1. job'.epoch = job.epoch /\ pc = "open"
      BY <2>3, <1>0 DEF OpenChain, ReadBlock, TypeOK, Jobs
    <3> QED BY <3>1, <1>0, <1>1, <1>2
  <2>4. CASE job' = job /\ pc \in {"open", "submit", "write"}
    BY <2>4, <1>0, <1>1, <1>2
  <2> QED
    BY <2>1, <2>2, <2>3, <2>4 DEF Next, Environment, Tick, Resolve, Submit,
       Finalize, Churn, Advance, Crash, Restart, LoseField, TickStart,
       ResolveNothing, OpenFails, SubmitAccepted, SubmitRefused, SubmitUnseen,
       WriteState, WriteFails, Emit, vars
<1> QED BY <1>3, <1>4

\* Every step keeps it.
LEMMA SafeStep == IInv /\ [Next]_vars => IInv'
<1> USE ScheduleAssumption, ValidatorAssumption
<1> SUFFICES ASSUME IInv, [Next]_vars PROVE IInv'
  OBVIOUS
<1>0. TypeInv /\ TypeInv' /\ TypeOK /\ TickShape /\ TypeOK'
  BY TypeStep DEF IInv, TypeInv
<1> SUFFICES /\ EpochIsRecorded' /\ CacheWasLanded' /\ CacheIsOnChain'
             /\ ClaimWasLanded' /\ DecisionHolds' /\ LandingPending'
             /\ ChoiceHolds' /\ RecordWasLanded'
  BY <1>0, SignedStep DEF IInv
<1> USE DEF env, time, chain
<1> DEFINE Goal == /\ EpochIsRecorded' /\ CacheWasLanded' /\ CacheIsOnChain'
                   /\ ClaimWasLanded' /\ DecisionHolds' /\ LandingPending'
                   /\ ChoiceHolds' /\ RecordWasLanded'
<1>a. ASSUME UNCHANGED <<onchain, disk, claim, landed>>, pc' = pc, job' = job,
             behind' = behind, block' >= block
      PROVE Goal
  <2>1. EpochIsRecorded' /\ CacheIsOnChain' /\ LandingPending' /\ ChoiceHolds'
    BY <1>a DEF IInv, EpochIsRecorded, CacheIsOnChain, LandingPending,
       ChoiceHolds
  <2>2. CacheWasLanded' /\ ClaimWasLanded' /\ RecordWasLanded'
    BY <1>a DEF IInv, CacheWasLanded, ClaimWasLanded, RecordWasLanded
  <2>3. DecisionHolds'
    <3>1. job.block \in Opt(Blocks) /\ block \in Int /\ block' \in Int
      BY <1>0 DEF TypeOK, Jobs, Blocks
    <3> QED BY <1>a, <3>1 DEF IInv, DecisionHolds, Opt, Blocks
  <2> QED BY <2>1, <2>2, <2>3
<1>b. ASSUME UNCHANGED <<onchain, disk, claim, landed>>,
             pc' \in {"down", "idle", "done"}, pc # "write",
             behind' = behind
      PROVE Goal
  BY <1>b DEF IInv, EpochIsRecorded, CacheWasLanded, CacheIsOnChain,
     ClaimWasLanded, DecisionHolds, LandingPending, ChoiceHolds,
     RecordWasLanded
<1>c. ASSUME UNCHANGED <<onchain, disk, claim, landed>>,
             pc' \in {"down", "done"}, behind' = TRUE
      PROVE Goal
  BY <1>c DEF IInv, EpochIsRecorded, CacheWasLanded, CacheIsOnChain,
     ClaimWasLanded, DecisionHolds, LandingPending, ChoiceHolds,
     RecordWasLanded
<1>1. CASE Finalize BY <1>1, <1>a, <1>0 DEF Finalize, TypeOK, Blocks
<1>2. CASE Churn BY <1>2, <1>a, <1>0 DEF Churn, TypeOK, Blocks
<1>3. CASE Advance
  <2>1. block' >= block
    BY <1>3, <1>0 DEF Advance, TypeOK, Blocks
  <2> QED BY <1>3, <2>1, <1>a DEF Advance
<1>4. CASE Crash
  <2>1. behind' \in BOOLEAN /\ behind \in BOOLEAN
    BY <1>0 DEF TypeOK
  <2> QED BY <1>4, <2>1, <1>b, <1>c DEF Crash
<1>5. CASE Restart BY <1>5, <1>b DEF Restart
<1>6. CASE LoseField
  <2>1. PICK f \in DiskFields : disk' = [disk EXCEPT ![f] = None]
                               /\ behind' = (behind \/ f = "applied")
    BY <1>6 DEF LoseField
  <2>2. /\ disk'.applied = IF f = "applied" THEN None ELSE disk.applied
        /\ disk'.cache = IF f = "cache" THEN None ELSE disk.cache
        /\ disk'.digest = IF f = "digest" THEN None ELSE disk.digest
    BY <2>1, <1>0 DEF TypeOK, Disks
  <2>3. /\ pc \in {"idle", "down"}
        /\ UNCHANGED <<onchain, landed, pc, job, claim>>
    BY <1>6 DEF LoseField
  <2>4. behind' \in BOOLEAN /\ behind \in BOOLEAN
    BY <1>0 DEF TypeOK
  <2>5. EpochIsRecorded' /\ CacheIsOnChain'
    BY <2>1, <2>2, <2>3, <2>4 DEF IInv, EpochIsRecorded, CacheIsOnChain
  <2>6. CacheWasLanded' /\ ClaimWasLanded' /\ RecordWasLanded'
    BY <2>2, <2>3 DEF IInv, CacheWasLanded, ClaimWasLanded, RecordWasLanded
  <2>7. DecisionHolds' /\ LandingPending' /\ ChoiceHolds'
    BY <2>3 DEF DecisionHolds, LandingPending, ChoiceHolds
  <2> QED BY <2>5, <2>6, <2>7
<1>7. CASE TickStart
  <2>1. job' = [now |-> clock, epoch |-> None, what |-> None, digest |-> None,
                cached |-> FALSE, block |-> None, sent |-> None]
    BY <1>7 DEF TickStart, NoJob
  <2>2. ~job'.cached
    BY <2>1
  <2> QED
    BY <1>7, <2>2 DEF TickStart, IInv, EpochIsRecorded, CacheWasLanded,
       CacheIsOnChain, ClaimWasLanded, DecisionHolds, LandingPending,
       ChoiceHolds, RecordWasLanded
<1>d. ASSUME UNCHANGED <<onchain, disk, claim, landed, behind>>,
             pc = "fetch", pc' \in {"open", "done"},
             job'.cached => /\ job'.epoch = disk.applied
                            /\ job'.what = disk.cache
                            /\ job'.digest = disk.digest,
             ~job'.cached => job'.digest = job'.what /\ job'.what = job'.epoch
      PROVE Goal
  BY <1>d DEF IInv, EpochIsRecorded, CacheWasLanded, CacheIsOnChain,
     ClaimWasLanded, DecisionHolds, LandingPending, ChoiceHolds,
     RecordWasLanded
<1>8. CASE ResolveFresh
  <2>1. PICK e \in 1..finalized :
           /\ job' = [job EXCEPT !.epoch = e, !.what = e, !.digest = e]
           /\ pc' = Gate(e)
    BY <1>8 DEF ResolveFresh
  <2>2. /\ job'.digest = job'.what /\ job'.what = job'.epoch
        /\ job'.cached = job.cached
    BY <2>1, <1>0 DEF TypeOK, Jobs
  <2>3. ~job.cached
    BY <1>8 DEF ResolveFresh, IInv, ChoiceHolds
  <2> QED BY <1>8, <2>1, <2>2, <2>3, <1>d DEF ResolveFresh, Gate
<1>9. CASE ResolveCached
  <2>1. /\ job'.epoch = disk.applied /\ job'.what = disk.cache
        /\ job'.digest = disk.digest /\ job'.cached
    BY <1>9, <1>0 DEF ResolveCached, TypeOK, Jobs
  <2> QED BY <1>9, <2>1, <1>d DEF ResolveCached, Gate
<1>10. CASE ResolveNothing BY <1>10, <1>b DEF ResolveNothing
<1>11. CASE OpenFails BY <1>11, <1>b DEF OpenFails
<1>12. CASE OpenChain
  <2>1. CASE pc' = "done"
    BY <1>12, <2>1, <1>b DEF OpenChain, ReadBlock
  <2>2. CASE pc' = "submit"
    <3>1. PICK b \in {block, None} :
             /\ ShouldSubmit(job.epoch, disk.applied, b, disk.block, job.now,
                             disk.ts)
             /\ Target # None
             /\ job' = [job EXCEPT !.block = b, !.sent = Target]
      BY <1>12, <2>2 DEF OpenChain, ReadBlock
    <3>2. /\ job'.epoch = job.epoch /\ job'.what = job.what
          /\ job'.digest = job.digest /\ job'.cached = job.cached
          /\ job'.block = b /\ job'.sent = Target
      BY <3>1, <1>0 DEF TypeOK, Jobs
    <3>3. UNCHANGED <<onchain, disk, claim, landed, behind, block>> /\ pc = "open"
      BY <1>12 DEF OpenChain, ReadBlock
    <3>4. job.epoch \in Int /\ disk.applied \in Int \cup {None}
          /\ disk.block \in Int \cup {None} /\ block \in Int
      BY <3>3, <1>0 DEF TickShape, TypeOK, Disks, Opt, Epochs, Blocks
    <3>5. disk.applied # None => job.epoch >= disk.applied
      BY <3>1, <3>4, NeverSubmitsOlder
    <3>6. ( /\ job.epoch = disk.applied
            /\ b # None
            /\ disk.block # None ) => b - disk.block >= IntervalBlocks
      BY <3>1, <3>4, BlocksDecide
    <3>7. DecisionHolds'
      BY <2>2, <3>2, <3>3, <3>4, <3>5, <3>6 DEF DecisionHolds
    <3>8. Target \in {job.what, disk.cache, Burn}
      BY <3>1 DEF Target, StandbyVector
    <3>9. ChoiceHolds'
      BY <2>2, <3>2, <3>3, <3>8 DEF IInv, ChoiceHolds
    <3>10. EpochIsRecorded' /\ CacheIsOnChain' /\ LandingPending'
      BY <2>2, <3>3 DEF IInv, EpochIsRecorded, CacheIsOnChain, LandingPending
    <3>11. CacheWasLanded' /\ ClaimWasLanded' /\ RecordWasLanded'
      BY <3>3 DEF IInv, CacheWasLanded, ClaimWasLanded, RecordWasLanded
    <3> QED BY <3>7, <3>9, <3>10, <3>11
  <2> QED BY <1>12, <2>1, <2>2 DEF OpenChain, ReadBlock
<1>e. ASSUME landed \subseteq landed', UNCHANGED <<disk, claim>>
      PROVE  CacheWasLanded' /\ ClaimWasLanded' /\ RecordWasLanded'
  BY <1>e DEF IInv, CacheWasLanded, ClaimWasLanded, RecordWasLanded
<1>13. CASE SubmitAccepted
  <2>1. /\ pc = "submit" /\ pc' = "write"
        /\ onchain' = [epoch |-> job.epoch, what |-> job.sent]
        /\ landed' = landed \cup {<<job.epoch, job.sent>>}
        /\ UNCHANGED <<disk, claim, job, behind>>
    BY <1>13 DEF SubmitAccepted, Land
  <2>2. EpochIsRecorded' /\ CacheIsOnChain' /\ LandingPending'
    BY <2>1 DEF EpochIsRecorded, CacheIsOnChain, LandingPending
  <2>3. DecisionHolds' /\ ChoiceHolds'
    BY <2>1 DEF IInv, DecisionHolds, ChoiceHolds
  <2> QED BY <2>1, <2>2, <2>3, <1>e
<1>14. CASE SubmitRefused BY <1>14, <1>b DEF SubmitRefused
<1>15. CASE SubmitUnseen
  <2>1. /\ pc' = "done" /\ behind' = TRUE
        /\ landed \subseteq landed' /\ UNCHANGED <<disk, claim>>
    BY <1>15 DEF SubmitUnseen, Land
  <2>2. /\ EpochIsRecorded' /\ CacheIsOnChain' /\ LandingPending'
        /\ DecisionHolds' /\ ChoiceHolds'
    BY <2>1 DEF EpochIsRecorded, CacheIsOnChain, LandingPending,
       DecisionHolds, ChoiceHolds
  <2> QED BY <2>1, <2>2, <1>e
<1>16. CASE WriteState
  <2>1. /\ pc = "write" /\ pc' = "done" /\ UNCHANGED <<onchain, claim, landed>>
        /\ disk'.applied = job.epoch
        /\ disk'.cache = IF job.sent # job.what THEN disk.cache ELSE job.what
        /\ disk'.digest = IF job.sent # job.what THEN disk.digest ELSE job.digest
    BY <1>16 DEF WriteState
  <2>2. /\ onchain.epoch = job.epoch /\ onchain.what = job.sent
        /\ <<job.epoch, job.sent>> \in landed
    BY <2>1 DEF IInv, LandingPending
  <2>3. /\ job.epoch \in Epochs /\ job.what \in Epochs /\ job.sent \in Vectors
        /\ job.sent \in {job.what, disk.cache, Burn}
        /\ job.cached => job.what = disk.cache /\ job.digest = disk.digest
        /\ ~job.cached => job.digest = job.what
    BY <2>1, <1>0 DEF TickShape, IInv, ChoiceHolds
  <2>4. EpochIsRecorded' /\ CacheIsOnChain' /\ LandingPending'
        /\ DecisionHolds' /\ ChoiceHolds'
    BY <2>1, <2>2, <2>3 DEF EpochIsRecorded, CacheIsOnChain,
       LandingPending, DecisionHolds, ChoiceHolds
  <2>5. job.sent = job.what => <<job.epoch, job.what>> \in landed
    BY <2>2
  <2>6. CacheWasLanded'
    BY <2>1, <2>3, <2>5 DEF IInv, CacheWasLanded
  <2>7. RecordWasLanded'
    BY <2>1, <2>2, <2>3, <2>5 DEF IInv, RecordWasLanded
  <2>8. ClaimWasLanded'
    BY <2>1 DEF IInv, ClaimWasLanded
  <2> QED BY <2>4, <2>6, <2>7, <2>8
<1>17. CASE WriteFails BY <1>17, <1>c DEF WriteFails
<1>18. CASE Emit
  <2>1. /\ pc = "done" /\ pc' = "idle"
        /\ UNCHANGED <<onchain, disk, landed, behind>>
    BY <1>18 DEF Emit, ConsensusPair
  <2>2. ClaimWasLanded'
    <3>1. CASE claim' = None
      BY <3>1 DEF ClaimWasLanded
    <3>2. CASE claim' # None
      <4>1. /\ disk.applied # None /\ disk.digest # None
            /\ claim' = <<disk.applied, disk.digest>>
        BY <1>18, <3>2 DEF Emit, ConsensusPair
      <4> QED BY <2>1, <4>1 DEF IInv, RecordWasLanded, ClaimWasLanded
    <3> QED BY <3>1, <3>2
  <2>3. /\ EpochIsRecorded' /\ CacheWasLanded' /\ CacheIsOnChain'
        /\ DecisionHolds' /\ LandingPending' /\ ChoiceHolds'
        /\ RecordWasLanded'
    BY <2>1 DEF IInv, EpochIsRecorded, CacheWasLanded, CacheIsOnChain,
       DecisionHolds, LandingPending, ChoiceHolds, RecordWasLanded
  <2> QED BY <2>2, <2>3
<1>19. CASE UNCHANGED vars
  BY <1>19, <1>a, <1>0 DEF vars, TypeOK, Blocks
<1> QED
  BY <1>1, <1>2, <1>3, <1>4, <1>5, <1>6, <1>7, <1>8, <1>9, <1>10, <1>11,
     <1>12, <1>13, <1>14, <1>15, <1>16, <1>17, <1>18, <1>19
     DEF Next, Environment, Tick, Resolve, Submit

\* The strengthened invariant holds in every reachable state.
LEMMA Safe == Spec => []IInv
BY SafeInit, SafeStep, PTL DEF Spec

\* Outside the window between landing and write_state, and unless a fault hit
\* that window, last_applied is the epoch of the weights on chain, and the
\* vector an outage falls back to is there too, or was until a burn stood in.
THEOREM RecordMatches == Spec => []RecordMatchesChain
<1>1. IInv => RecordMatchesChain
  BY DEF IInv, EpochIsRecorded, CacheIsOnChain, RecordMatchesChain
<1> QED BY <1>1, Safe, PTL

\* Whatever crashes, lost replies and lost fields there were, the cache is a
\* result that was on chain, with the digest of that result or none.
THEOREM CacheLanded == Spec => []CacheWasLanded
<1>1. IInv => CacheWasLanded
  BY DEF IInv
<1> QED BY <1>1, Safe, PTL

\* A heartbeat's digest is of a result that landed.
THEOREM ClaimLanded == Spec => []ClaimWasLanded
<1>1. IInv => ClaimWasLanded
  BY DEF IInv
<1> QED BY <1>1, Safe, PTL

\* What is kept to fall back on, and what the provider is told, did land.
THEOREM KeptLanded == Spec => []KeptAndClaimedLanded
<1>1. CacheWasLanded /\ ClaimWasLanded => KeptAndClaimedLanded
  BY DEF KeptAndClaimedLanded
<1> QED BY <1>1, CacheLanded, ClaimLanded, PTL

\* With blocks known on both sides, a resubmission meets the chain's rate
\* limit whenever the last inclusion lag left room for it - for every
\* interval, limit and lag, not the shipped 120 and 100 alone.
THEOREM ResubmitInTime == Spec => []ResubmitClearsRateLimit
<1> USE ScheduleAssumption, ValidatorAssumption
<1>1. IInv => ResubmitClearsRateLimit
  <2> SUFFICES ASSUME IInv, pc = "submit", job.epoch = disk.applied,
                      job.block # None, disk.block # None, lastUpdate # None,
                      lastUpdate - disk.block <= IntervalBlocks - RateLimit
               PROVE  block - lastUpdate >= RateLimit
    BY DEF ResubmitClearsRateLimit, RateOK
  <2>1. job.block <= block /\ job.block - disk.block >= IntervalBlocks
    BY DEF IInv, DecisionHolds
  <2>2. /\ job.block \in Int /\ disk.block \in Int /\ block \in Int
        /\ lastUpdate \in Int
    BY DEF IInv, TypeInv, TypeOK, Jobs, Disks, Opt, Blocks
  <2> QED BY <2>1, <2>2
<1> QED BY <1>1, Safe, PTL

\* The weights on chain never go back to an older epoch while the record is
\* intact: the replay guard, end to end.
THEOREM EpochsAdvance == Spec => NeverOlder
<1> USE ScheduleAssumption, ValidatorAssumption
<1>1. IInv /\ [Next]_vars =>
        [(onchain' # onchain /\ ~behind /\ onchain.epoch # None)
            => onchain'.epoch >= onchain.epoch]_vars
  <2> SUFFICES ASSUME IInv, [Next]_vars, onchain' # onchain, ~behind,
                      onchain.epoch # None
               PROVE  onchain'.epoch >= onchain.epoch
    OBVIOUS
  <2>1. SubmitAccepted \/ SubmitUnseen
    BY DEF Next, Environment, Tick, Resolve, Submit, Finalize, Churn, Advance,
       Crash, Restart, LoseField, TickStart, ResolveFresh, ResolveCached,
       ResolveNothing, OpenFails, OpenChain, ReadBlock, SubmitRefused, WriteState,
       WriteFails, Emit, vars, chain
  <2>2. pc = "submit" /\ onchain'.epoch = job.epoch
    BY <2>1 DEF SubmitAccepted, SubmitUnseen, Land
  <2>3. disk.applied = onchain.epoch
    BY <2>2 DEF IInv, EpochIsRecorded
  <2> QED BY <2>2, <2>3 DEF IInv, DecisionHolds
<1> QED BY <1>1, Safe, PTL DEF Spec, NeverOlder

\* A submission from the cache changes nothing on chain, unless a burn had
\* stood in for the cached vector or a landing was never recorded.
THEOREM FallbackReplacesBurns == Spec => FallbackReplacesOnlyBurns
<1> USE ScheduleAssumption, ValidatorAssumption
<1>1. IInv /\ [Next]_vars =>
        [(onchain' # onchain /\ job.cached /\ ~behind)
            => onchain'.what = Burn \/ onchain.what \in {onchain'.what, Burn}]_vars
  <2> SUFFICES ASSUME IInv, [Next]_vars, onchain' # onchain, job.cached, ~behind,
                      onchain'.what # Burn
               PROVE  onchain.what \in {onchain'.what, Burn}
    OBVIOUS
  <2>1. SubmitAccepted \/ SubmitUnseen
    BY DEF Next, Environment, Tick, Resolve, Submit, Finalize, Churn, Advance,
       Crash, Restart, LoseField, TickStart, ResolveFresh, ResolveCached,
       ResolveNothing, OpenFails, OpenChain, ReadBlock, SubmitRefused, WriteState,
       WriteFails, Emit, vars, chain
  <2>2. pc = "submit" /\ onchain'.what = job.sent
    BY <2>1 DEF SubmitAccepted, SubmitUnseen, Land
  <2>3. job.what = disk.cache /\ job.what \in Epochs /\ job.sent = disk.cache
    BY <2>2 DEF IInv, ChoiceHolds, TypeInv, TickShape
  <2>4. disk.cache # None
    BY <2>3 DEF Epochs
  <2> QED BY <2>2, <2>3, <2>4 DEF IInv, CacheIsOnChain
<1> QED BY <1>1, Safe, PTL DEF Spec, FallbackReplacesOnlyBurns

-----------------------------------------------------------------------------
(* Sums.  FoldFunction is a choice of a function on all the subsets of a   *)
(* domain; that there is one, and what it sums to, goes by induction on    *)
(* their size, as an argument about the least size that fails.             *)

\* A set of naturals that is not empty has a least element.
LEMMA LeastNatural ==
    ASSUME NEW B \in SUBSET Nat, B # {}
    PROVE  \E n \in B : \A k \in B : n <= k
<1>1. \E n \in B : \A k \in B : <<k, n>> \notin OpToRel(<, Nat)
  BY NatLessThanWellFounded, WFMin
<1>2. \A k, n \in Nat : k < n => <<k, n>> \in OpToRel(<, Nat)
  BY DEF OpToRel
<1>3. \A k, n \in Nat : ~(k < n) => n <= k
  OBVIOUS
<1> QED BY <1>1, <1>2, <1>3

First(s) == CHOOSE x \in s : TRUE

Rest(s) == s \ {First(s)}

\* The subsets of S with at most n elements.
Small(n, S) == {s \in SUBSET S : Cardinality(s) <= n}

\* h is the sum of fun, on the sets of D.
SumsOn(fun, h, D) ==
    h = [s \in D |-> IF s = {} THEN 0 ELSE fun[First(s)] + h[Rest(s)]]

\* A set that is not empty is its first element and a smaller rest.
LEMMA RestSmaller ==
    ASSUME NEW S, IsFiniteSet(S), NEW s \in SUBSET S, s # {}
    PROVE  /\ First(s) \in S
           /\ Rest(s) \in SUBSET S
           /\ Cardinality(s) \in Nat
           /\ Cardinality(Rest(s)) \in Nat
           /\ Cardinality(s) = Cardinality(Rest(s)) + 1
<1>1. First(s) \in s
  BY DEF First
<1>2. IsFiniteSet(s)
  BY FS_Subset
<1>3. IsFiniteSet(Rest(s)) /\ Cardinality(Rest(s)) = Cardinality(s) - 1
  BY <1>1, <1>2, FS_RemoveElement DEF Rest
<1>4. Cardinality(s) \in Nat /\ Cardinality(Rest(s)) \in Nat
  BY <1>2, <1>3, FS_CardinalityType
<1> QED BY <1>1, <1>3, <1>4 DEF Rest

\* There is a sum on the subsets of every size.
LEMMA SumsExist ==
    ASSUME NEW fun, NEW S, IsFiniteSet(S), NEW n \in Nat
    PROVE  \E h : SumsOn(fun, h, Small(n, S))
<1> DEFINE Missing == {k \in Nat : ~ \E h : SumsOn(fun, h, Small(k, S))}
<1>1. SUFFICES Missing = {}
  OBVIOUS
<1>2. SUFFICES ASSUME Missing # {} PROVE FALSE
  OBVIOUS
<1>3. PICK k \in Missing : \A j \in Missing : k <= j
  <2> HIDE DEF Missing
  <2>1. Missing \in SUBSET Nat
    BY DEF Missing
  <2> QED BY <1>2, <2>1, LeastNatural
<1>4. CASE k = 0
  <2> DEFINE h == [s \in Small(0, S) |-> 0]
  <2>1. \A s \in Small(0, S) : s = {}
    <3> TAKE s \in Small(0, S)
    <3>1. IsFiniteSet(s) /\ Cardinality(s) <= 0 /\ Cardinality(s) \in Nat
      BY FS_Subset, FS_CardinalityType DEF Small
    <3> QED BY <3>1, FS_EmptySet
  <2>2. SumsOn(fun, h, Small(0, S))
    BY <2>1 DEF SumsOn
  <2> QED BY <1>4, <2>2
<1>5. CASE k # 0
  <2>1. k - 1 \in Nat /\ k - 1 \notin Missing
    BY <1>3, <1>5
  <2>2. PICK g : SumsOn(fun, g, Small(k - 1, S))
    BY <2>1
  <2> DEFINE h == [s \in Small(k, S) |->
                     IF s = {} THEN 0
                     ELSE fun[First(s)] + g[Rest(s)]]
  <2>3. \A s \in Small(k - 1, S) : h[s] = g[s]
    <3> TAKE s \in Small(k - 1, S)
    <3>1. s \in SUBSET S /\ Cardinality(s) <= k - 1 /\ Cardinality(s) \in Nat
      BY FS_Subset, FS_CardinalityType DEF Small
    <3>2. s \in Small(k, S)
      BY <3>1, <2>1 DEF Small
    <3>3. h[s] = IF s = {} THEN 0 ELSE fun[First(s)] + g[Rest(s)]
      BY <3>2
    <3>4. g[s] = IF s = {} THEN 0 ELSE fun[First(s)] + g[Rest(s)]
      BY <2>2 DEF SumsOn
    <3> QED BY <3>3, <3>4
  <2>4. \A s \in Small(k, S) : s # {} => h[Rest(s)] = g[Rest(s)]
    <3> SUFFICES ASSUME NEW s \in Small(k, S), s # {}
                 PROVE  Rest(s) \in Small(k - 1, S)
      BY <2>3
    <3> QED BY <2>1, RestSmaller DEF Small
  <2>5. SumsOn(fun, h, Small(k, S))
    <3> DEFINE e == [s \in Small(k, S) |-> IF s = {} THEN 0
                                           ELSE fun[First(s)] + h[Rest(s)]]
    <3>1. \A s \in Small(k, S) : h[s] = e[s]
      BY <2>4
    <3>2. h = e
      BY <3>1
    <3> QED BY <3>2 DEF SumsOn
  <2> QED BY <2>5
<1> QED BY <1>4, <1>5

\* Induction on the subsets of a finite set: what holds of the empty one, and of
\* any other if it does of its rest, holds of all.
LEMMA BySubsets ==
    ASSUME NEW S, IsFiniteSet(S), NEW G \in SUBSET (SUBSET S),
           {} \in G,
           \A s \in SUBSET S : s # {} /\ Rest(s) \in G => s \in G
    PROVE  \A s \in SUBSET S : s \in G
<1> DEFINE Bad == {n \in Nat : \E s \in SUBSET S : Cardinality(s) = n /\ s \notin G}
<1>1. SUFFICES ASSUME Bad # {} PROVE FALSE
  BY FS_Subset, FS_CardinalityType
<1>2. PICK n \in Bad : \A k \in Bad : n <= k
  <2> HIDE DEF Bad
  <2>1. Bad \in SUBSET Nat
    BY DEF Bad
  <2> QED BY <1>1, <2>1, LeastNatural
<1>3. PICK s \in SUBSET S : Cardinality(s) = n /\ s \notin G
  OBVIOUS
<1>4. /\ Rest(s) \in SUBSET S
      /\ Cardinality(Rest(s)) \in Nat
      /\ n = Cardinality(Rest(s)) + 1
  BY <1>3, RestSmaller
<1>5. Cardinality(Rest(s)) \notin Bad
  BY <1>2, <1>4
<1>6. Rest(s) \in G
  BY <1>4, <1>5
<1> QED BY <1>3, <1>6

\* Total is the value of such a sum at the whole domain.
LEMMA TotalIsSum ==
    ASSUME NEW f, IsFiniteSet(DOMAIN f)
    PROVE  \E h : SumsOn(f, h, SUBSET (DOMAIN f)) /\ Total(f) = h[DOMAIN f]
<1> DEFINE S == DOMAIN f
           h == CHOOSE g : SumsOn(f, g, SUBSET S)
<1>1. Total(f) = h[S]
  BY DEF Total, FoldFunction, FoldFunctionOnSet, MapThenFoldSet, SumsOn, First, Rest
<1>2. Small(Cardinality(S), S) = SUBSET S
  BY FS_Subset DEF Small
<1>3. \E g : SumsOn(f, g, SUBSET S)
  <2>1. Cardinality(S) \in Nat
    BY FS_CardinalityType
  <2>2. \E g : SumsOn(f, g, Small(Cardinality(S), S))
    BY <2>1, SumsExist
  <2> QED BY <1>2, <2>2
<1>4. SumsOn(f, h, SUBSET S)
  BY <1>3
<1> HIDE DEF h
<1> QED BY <1>1, <1>4

\* How a sum goes on from a set's rest to the set.
LEMMA SumStep ==
    ASSUME NEW S, IsFiniteSet(S), NEW f, NEW h, SumsOn(f, h, SUBSET S)
    PROVE  /\ h[{}] = 0
           /\ \A s \in SUBSET S : s # {} =>
                 /\ First(s) \in s /\ First(s) \in S
                 /\ Rest(s) \in SUBSET S
                 /\ Cardinality(Rest(s)) \in Nat
                 /\ Cardinality(s) = Cardinality(Rest(s)) + 1
                 /\ h[s] = f[First(s)] + h[Rest(s)]
<1>1. h[{}] = 0
  BY DEF SumsOn
<1>2. ASSUME NEW s \in SUBSET S, s # {}
      PROVE  /\ First(s) \in s /\ First(s) \in S
             /\ Rest(s) \in SUBSET S
             /\ Cardinality(Rest(s)) \in Nat
             /\ Cardinality(s) = Cardinality(Rest(s)) + 1
             /\ h[s] = f[First(s)] + h[Rest(s)]
  <2>1. First(s) \in s
    BY <1>2 DEF First
  <2>2. h[s] = f[First(s)] + h[Rest(s)]
    BY <1>2 DEF SumsOn
  <2> QED BY <1>2, <2>1, <2>2, RestSmaller
<1> QED BY <1>1, <1>2

\* Sums of naturals are naturals, at least as large as each of the summands.
LEMMA SumOfNaturals ==
    ASSUME NEW S, IsFiniteSet(S), NEW f, \A x \in S : f[x] \in Nat,
           NEW h, SumsOn(f, h, SUBSET S)
    PROVE  \A s \in SUBSET S : h[s] \in Nat /\ \A x \in s : f[x] <= h[s]
<1> DEFINE Good(s) == h[s] \in Nat /\ \A x \in s : f[x] <= h[s]
           G == {s \in SUBSET S : Good(s)}
<1>1. {} \in G
  BY SumStep
<1>2. ASSUME NEW s \in SUBSET S, s # {}, Rest(s) \in G
      PROVE  s \in G
  <2>1. /\ First(s) \in S
        /\ h[s] = f[First(s)] + h[Rest(s)]
    BY <1>2, SumStep
  <2>2. h[Rest(s)] \in Nat /\ \A x \in Rest(s) : f[x] <= h[Rest(s)]
    BY <1>2
  <2>3. f[First(s)] \in Nat
    BY <2>1
  <2>4. h[s] \in Nat /\ f[First(s)] <= h[s] /\ h[Rest(s)] <= h[s]
    BY <2>1, <2>2, <2>3
  <2>5. ASSUME NEW x \in s PROVE f[x] <= h[s]
    <3>1. CASE x = First(s) BY <2>4, <3>1
    <3>2. CASE x \in Rest(s)
      <4>1. f[x] \in Nat /\ f[x] <= h[Rest(s)]
        BY <2>2, <3>2
      <4> QED BY <2>2, <2>4, <4>1
    <3> QED BY <3>1, <3>2 DEF Rest
  <2> QED BY <2>4, <2>5
<1>3. G \in SUBSET (SUBSET S)
  OBVIOUS
<1> HIDE DEF G
<1>4. \A s \in SUBSET S : s \in G
  BY <1>1, <1>2, <1>3, BySubsets
<1> QED BY <1>4 DEF G

\* Two sums, of which a times the one is at most b times the other for every
\* summand, and at most c less: so it is for the sums, with c for every element.
LEMMA SumsCompare ==
    ASSUME NEW S, IsFiniteSet(S), NEW f, NEW g,
           \A x \in S : f[x] \in Nat /\ g[x] \in Nat,
           NEW a \in Nat, NEW b \in Nat, NEW c \in Nat,
           \A x \in S : a * f[x] <= b * g[x] /\ b * g[x] <= a * f[x] + c,
           NEW hf, SumsOn(f, hf, SUBSET S),
           NEW hg, SumsOn(g, hg, SUBSET S)
    PROVE  \A s \in SUBSET S :
               /\ a * hf[s] <= b * hg[s]
               /\ b * hg[s] <= a * hf[s] + Cardinality(s) * c
<1> DEFINE Good(s) == /\ a * hf[s] <= b * hg[s]
                      /\ b * hg[s] <= a * hf[s] + Cardinality(s) * c
           G == {s \in SUBSET S : Good(s)}
<1>1. {} \in G
  <2>1. hf[{}] = 0 /\ hg[{}] = 0 /\ Cardinality({}) = 0
    BY SumStep, FS_EmptySet
  <2> QED BY <2>1
<1>2. ASSUME NEW s \in SUBSET S, s # {}, Rest(s) \in G
      PROVE  s \in G
  <2> DEFINE x == First(s)
             r == Rest(s)
             n == Cardinality(r)
  <2>1. /\ x \in S /\ r \in SUBSET S /\ n \in Nat
        /\ Cardinality(s) = n + 1
        /\ hf[s] = f[x] + hf[r]
        /\ hg[s] = g[x] + hg[r]
    <3>1. /\ First(s) \in S /\ Rest(s) \in SUBSET S
          /\ Cardinality(Rest(s)) \in Nat
          /\ Cardinality(s) = Cardinality(Rest(s)) + 1
          /\ hf[s] = f[First(s)] + hf[Rest(s)]
      BY ONLY <1>2, IsFiniteSet(S), SumsOn(f, hf, SUBSET S), SumStep
    <3>2. hg[s] = g[First(s)] + hg[Rest(s)]
      BY ONLY <1>2, IsFiniteSet(S), SumsOn(g, hg, SUBSET S), SumStep
    <3> QED BY ONLY <3>1, <3>2
  <2>2. hf[r] \in Nat /\ hg[r] \in Nat
    BY <2>1, SumOfNaturals
  <2>3. f[x] \in Nat /\ g[x] \in Nat /\ a * f[x] <= b * g[x] /\ b * g[x] <= a * f[x] + c
    BY <2>1
  <2>4. a * hf[r] <= b * hg[r] /\ b * hg[r] <= a * hf[r] + n * c
    BY <1>2
  <2> HIDE DEF x, r, n
  <2>5. a * hf[s] = a * f[x] + a * hf[r] /\ b * hg[s] = b * g[x] + b * hg[r]
    BY <2>1, <2>2, <2>3
  <2>6. Cardinality(s) * c = n * c + c
    BY <2>1
  <2>7. /\ a * f[x] \in Nat /\ a * hf[r] \in Nat
        /\ b * g[x] \in Nat /\ b * hg[r] \in Nat
        /\ n * c \in Nat
    BY <2>1, <2>2, <2>3
  <2>8. Good(s)
    <3> HIDE DEF G
    <3> QED BY <2>3, <2>4, <2>5, <2>6, <2>7
  <2> QED BY <2>8
<1>3. G \in SUBSET (SUBSET S)
  OBVIOUS
<1> HIDE DEF G
<1>4. \A s \in SUBSET S : s \in G
  BY <1>1, <1>2, <1>3, BySubsets
<1> QED BY <1>4 DEF G

\* A summand that grows makes the sum grow by as much.
LEMMA SumWithMore ==
    ASSUME NEW S, IsFiniteSet(S), NEW f, NEW g, NEW top \in S, NEW more \in Nat,
           \A x \in S : f[x] \in Nat,
           \A x \in S : g[x] = IF x = top THEN f[x] + more ELSE f[x],
           NEW hf, SumsOn(f, hf, SUBSET S),
           NEW hg, SumsOn(g, hg, SUBSET S)
    PROVE  hg[S] = hf[S] + more
<1> DEFINE G == {s \in SUBSET S : hg[s] = IF top \in s THEN hf[s] + more ELSE hf[s]}
<1>1. {} \in G
  BY SumStep
<1>2. ASSUME NEW s \in SUBSET S, s # {}, Rest(s) \in G
      PROVE  s \in G
  <2> DEFINE x == First(s)
             r == Rest(s)
  <2>1. /\ x \in s /\ x \in S /\ r \in SUBSET S
        /\ hf[s] = f[x] + hf[r]
        /\ hg[s] = g[x] + hg[r]
    <3>1. /\ First(s) \in s /\ First(s) \in S /\ Rest(s) \in SUBSET S
          /\ hf[s] = f[First(s)] + hf[Rest(s)]
      BY ONLY <1>2, IsFiniteSet(S), SumsOn(f, hf, SUBSET S), SumStep
    <3>2. hg[s] = g[First(s)] + hg[Rest(s)]
      BY ONLY <1>2, IsFiniteSet(S), SumsOn(g, hg, SUBSET S), SumStep
    <3> QED BY ONLY <3>1, <3>2
  <2>2. hf[r] \in Nat /\ f[x] \in Nat
    BY <2>1, SumOfNaturals
  <2>3. hg[r] = IF top \in r THEN hf[r] + more ELSE hf[r]
    BY <1>2
  <2>4. g[x] = IF x = top THEN f[x] + more ELSE f[x]
    BY <2>1
  <2>5. (top \in s <=> top \in r \/ top = x) /\ x \notin r
    BY <2>1 DEF Rest
  <2> HIDE DEF x, r
  <2>6. hg[s] = IF top \in s THEN hf[s] + more ELSE hf[s]
    BY <2>1, <2>2, <2>3, <2>4, <2>5
  <2> QED BY <2>6
<1>3. G \in SUBSET (SUBSET S)
  OBVIOUS
<1> HIDE DEF G
<1>4. S \in G
  BY <1>1, <1>2, <1>3, BySubsets
<1> QED BY <1>4 DEF G

-----------------------------------------------------------------------------
(* What a vector becomes on chain.                                         *)

\* The rows that are present are finitely many, each with a weight of the
\* payload.
LEMMA PresentFacts ==
    ASSUME NEW rows \in WeightVectors, NEW onChain
    PROVE  LET given == Present(rows, onChain)
           IN  /\ IsFiniteSet(DOMAIN given)
               /\ DOMAIN given = {k \in DOMAIN rows : rows[k][1] \in onChain}
               /\ \A i \in DOMAIN given : /\ given[i] = rows[i][2]
                                          /\ given[i] \in Nat
                                          /\ rows[i][1] \in Hotkeys
<1>1. Len(rows) \in Nat /\ DOMAIN rows = 1..Len(rows)
  BY DEF WeightVectors
<1>2. \A i \in DOMAIN rows : rows[i] \in Hotkeys \X (0..U16)
  BY DEF WeightVectors
<1>3. IsFiniteSet(DOMAIN rows)
  BY <1>1, FS_Interval
<1>4. IsFiniteSet({k \in DOMAIN rows : rows[k][1] \in onChain})
  BY <1>3, FS_Subset
<1> QED BY <1>2, <1>4, UidsAssumption DEF Present

\* The total of what is given is a natural, 0 only if every weight is.
LEMMA TotalFacts ==
    ASSUME NEW f, IsFiniteSet(DOMAIN f), \A x \in DOMAIN f : f[x] \in Nat
    PROVE  /\ Total(f) \in Nat
           /\ \A x \in DOMAIN f : f[x] <= Total(f)
           /\ (\A x \in DOMAIN f : f[x] = 0) => Total(f) = 0
<1> DEFINE S == DOMAIN f
<1>1. PICK h : SumsOn(f, h, SUBSET S) /\ Total(f) = h[S]
  BY TotalIsSum
<1>2. h[S] \in Nat /\ \A x \in S : f[x] <= h[S]
  BY <1>1, SumOfNaturals
<1>3. ASSUME \A x \in S : f[x] = 0 PROVE h[S] = 0
  <2>1. \A x \in S : 1 * f[x] <= 0 * f[x] /\ 0 * f[x] <= 1 * f[x] + 0
    BY <1>3
  <2>2. 1 * h[S] <= 0 * h[S]
    <3> HIDE DEF S
    <3> QED BY <1>1, <2>1, SumsCompare, 0 \in Nat, 1 \in Nat DEF S
  <2> QED BY <1>2, <2>2
<1> QED BY <1>1, <1>2, <1>3

\* There is a row with the largest share and, among those, the lowest uid.
LEMMA TopIsLargest ==
    ASSUME NEW rows, NEW scaled, DOMAIN scaled # {}, NEW m \in Nat,
           \A i \in DOMAIN scaled : /\ scaled[i] \in Nat /\ scaled[i] <= m
                                    /\ rows[i][1] \in Hotkeys
    PROVE  /\ Top(rows, scaled) \in DOMAIN scaled
           /\ \A i \in DOMAIN scaled : scaled[i] <= scaled[Top(rows, scaled)]
<1> DEFINE Short == {m - scaled[i] : i \in DOMAIN scaled}
<1>1. Short \in SUBSET Nat /\ Short # {}
  OBVIOUS
<1>2. PICK s \in Short : \A k \in Short : s <= k
  <2> HIDE DEF Short
  <2> QED BY <1>1, LeastNatural
<1>3. PICK largest \in DOMAIN scaled : \A j \in DOMAIN scaled : scaled[j] <= scaled[largest]
  <2>1. PICK i \in DOMAIN scaled : s = m - scaled[i]
    OBVIOUS
  <2>2. ASSUME NEW j \in DOMAIN scaled PROVE scaled[j] <= scaled[i]
    <3>1. s <= m - scaled[j]
      BY <1>2
    <3> QED BY <2>1, <3>1
  <2> QED BY <2>2
<1> HIDE DEF Short
<1> DEFINE Ties == {i \in DOMAIN scaled : scaled[i] = scaled[largest]}
           Slots == {Uid[rows[i][1]] : i \in Ties}
<1>4. Slots \in SUBSET Nat /\ Slots # {}
  BY <1>3, UidsAssumption
<1>5. PICK u \in Slots : \A k \in Slots : u <= k
  <2> HIDE DEF Slots
  <2> QED BY <1>4, LeastNatural
<1>6. PICK i \in Ties : u = Uid[rows[i][1]]
  BY <1>5
<1>7. \A j \in DOMAIN scaled :
        \/ scaled[j] < scaled[i]
        \/ scaled[j] = scaled[i] /\ Uid[rows[i][1]] <= Uid[rows[j][1]]
  <2> TAKE j \in DOMAIN scaled
  <2>1. scaled[j] <= scaled[i] /\ scaled[j] \in Nat /\ scaled[i] \in Nat
    BY <1>3, <1>6
  <2>2. CASE scaled[j] < scaled[i] BY <2>2
  <2>3. CASE scaled[j] = scaled[i]
    <3>1. Uid[rows[j][1]] \in Slots
      BY <1>6, <2>3
    <3> QED BY <1>5, <1>6, <2>3, <3>1
  <2> QED BY <2>1, <2>2, <2>3
<1>8. i \in DOMAIN scaled
  BY <1>6
<1> HIDE DEF Ties, Slots
<1> DEFINE top == Top(rows, scaled)
<1>9. top \in DOMAIN scaled /\ \A j \in DOMAIN scaled :
        \/ scaled[j] < scaled[top]
        \/ scaled[j] = scaled[top] /\ Uid[rows[top][1]] <= Uid[rows[j][1]]
  BY <1>7, <1>8 DEF Top
<1> HIDE DEF top
<1> QED BY <1>9 DEF top

\* Natural division.
LEMMA DivFacts ==
    ASSUME NEW a \in Nat, NEW n \in Nat \ {0}
    PROVE  /\ a \div n \in Nat
           /\ (a \div n) * n <= a
           /\ a < (a \div n) * n + n
OBVIOUS

\* Rounding down leaves no more than the whole, and a gap smaller than the
\* number of rows.
LEMMA ScaledFacts ==
    ASSUME NEW given, IsFiniteSet(DOMAIN given),
           \A i \in DOMAIN given : given[i] \in Nat,
           Total(given) # 0
    PROVE  LET scaled == Scaled(given)
               all    == Total(given)
           IN  /\ DOMAIN scaled = DOMAIN given
               /\ \A i \in DOMAIN given :
                    /\ scaled[i] \in Nat
                    /\ scaled[i] * all <= given[i] * U16
                    /\ given[i] * U16 < scaled[i] * all + all
                    /\ scaled[i] <= Total(scaled)
               /\ Total(scaled) \in Nat
               /\ Total(scaled) <= U16
               /\ U16 - Total(scaled) < Cardinality(DOMAIN given)
<1> DEFINE S == DOMAIN given
           scaled == Scaled(given)
           all == Total(given)
           n == Cardinality(S)
<1>0. all \in Nat /\ all > 0 /\ U16 \in Nat /\ n \in Nat
  BY TotalFacts, FS_CardinalityType, UidsAssumption
<1>1. DOMAIN scaled = S
  BY DEF Scaled
<1>2. ASSUME NEW i \in S
      PROVE  /\ scaled[i] \in Nat
             /\ scaled[i] * all <= given[i] * U16
             /\ given[i] * U16 < scaled[i] * all + all
             /\ given[i] \in Nat
  <2>1. given[i] \in Nat /\ given[i] * U16 \in Nat
    BY <1>0
  <2>2. scaled[i] = (given[i] * U16) \div all
    BY DEF Scaled
  <2> HIDE DEF scaled, all
  <2>3. all \in Nat \ {0}
    BY <1>0
  <2> QED BY <2>1, <2>2, <2>3, DivFacts
<1>3. PICK hg : SumsOn(given, hg, SUBSET S) /\ all = hg[S]
  BY TotalIsSum
<1>4. PICK hs : SumsOn(scaled, hs, SUBSET S) /\ Total(scaled) = hs[S]
  BY <1>1, TotalIsSum
<1>5. Total(scaled) \in Nat /\ \A i \in S : scaled[i] <= Total(scaled)
  BY <1>1, <1>2, TotalFacts
<1> HIDE DEF S, scaled, all, n
<1>6. \A i \in S : /\ scaled[i] \in Nat /\ given[i] \in Nat
                   /\ all * scaled[i] <= U16 * given[i]
                   /\ U16 * given[i] <= all * scaled[i] + (all - 1)
  <2> TAKE i \in S
  <2> DEFINE p == scaled[i] * all
             q == given[i] * U16
  <2>1. p \in Nat /\ q \in Nat /\ p <= q /\ q < p + all
    BY <1>0, <1>2
  <2>2. p = all * scaled[i] /\ q = U16 * given[i]
    BY <1>0, <1>2
  <2> HIDE DEF p, q
  <2>3. q <= p + (all - 1)
    BY <1>0, <2>1
  <2> QED BY <1>2, <2>1, <2>2, <2>3
<1>7. all * hs[S] <= U16 * hg[S] /\ U16 * hg[S] <= all * hs[S] + n * (all - 1)
  <2>1. all - 1 \in Nat /\ IsFiniteSet(S)
    BY <1>0 DEF S
  <2>2. \A s \in SUBSET S : /\ all * hs[s] <= U16 * hg[s]
                            /\ U16 * hg[s] <= all * hs[s] + Cardinality(s) * (all - 1)
    BY <1>0, <1>3, <1>4, <1>6, <2>1, SumsCompare
  <2> QED BY <2>2 DEF n
<1> DEFINE t == Total(scaled)
<1>8. all * t <= U16 * all /\ U16 * all <= all * t + n * (all - 1)
  BY <1>3, <1>4, <1>7
<1>9. t \in Nat
  BY <1>5
<1> HIDE DEF t
<1>10. t <= U16
  <2> SUFFICES ASSUME U16 + 1 <= t PROVE FALSE
    BY <1>0, <1>9
  <2>1. (U16 + 1) * all <= t * all
    BY <1>0, <1>9
  <2>2. (U16 + 1) * all = U16 * all + all /\ t * all = all * t
    BY <1>0, <1>9
  <2>3. U16 * all \in Nat /\ all * t \in Nat
    BY <1>0, <1>9
  <2> QED BY <1>0, <1>8, <2>1, <2>2, <2>3
<1>11. n # 0
  <2> SUFFICES ASSUME n = 0 PROVE FALSE
    OBVIOUS
  <2>1. S = {}
    BY FS_EmptySet DEF S, n
  <2>2. hg[S] = 0
    BY <1>3, <2>1 DEF SumsOn
  <2> QED BY <1>0, <1>3, <2>2
<1>12. U16 - t < n
  <2> DEFINE gap == U16 - t
  <2>1. gap \in Nat /\ U16 = t + gap
    BY <1>0, <1>9, <1>10
  <2> HIDE DEF gap
  <2> SUFFICES ASSUME n <= gap PROVE FALSE
    BY <1>0, <2>1 DEF gap
  <2>2. U16 * all = all * t + gap * all
    BY <1>0, <1>9, <2>1
  <2>3. n * all <= gap * all
    BY <1>0, <2>1
  <2>4. n * (all - 1) = n * all - n
    BY <1>0
  <2>5. all * t \in Nat /\ gap * all \in Nat /\ n * all \in Nat
    BY <1>0, <1>9, <2>1
  <2> QED BY <1>0, <1>8, <1>11, <2>2, <2>3, <2>4, <2>5
<1>13. DOMAIN scaled = DOMAIN given
  BY <1>1 DEF S
<1> QED BY <1>2, <1>5, <1>9, <1>10, <1>12, <1>13 DEF S, scaled, all, n, t

\* What resolve_uids gives when there is anything to give: the shares rounded
\* down, with the gap on top of one that is the largest.
LEMMA ResolvedFacts ==
    ASSUME NEW rows \in WeightVectors, NEW onChain,
           Total(Present(rows, onChain)) # 0
    PROVE  LET given  == Present(rows, onChain)
               scaled == Scaled(given)
               top    == Top(rows, scaled)
               gap    == U16 - Total(scaled)
               shares == resolve_uids(rows, onChain)
           IN  /\ top \in DOMAIN given
               /\ gap \in Nat /\ gap < Cardinality(DOMAIN given)
               /\ \A i \in DOMAIN given : scaled[i] \in Nat /\ scaled[i] <= scaled[top]
               /\ DOMAIN shares = DOMAIN given
               /\ \A i \in DOMAIN given :
                    shares[i] = IF i = top THEN scaled[i] + gap ELSE scaled[i]
<1> DEFINE given == Present(rows, onChain)
           scaled == Scaled(given)
           top == Top(rows, scaled)
           gap == U16 - Total(scaled)
           shares == resolve_uids(rows, onChain)
<1>1. /\ IsFiniteSet(DOMAIN given)
      /\ \A i \in DOMAIN given : given[i] \in Nat /\ rows[i][1] \in Hotkeys
  BY PresentFacts
<1>2. /\ DOMAIN scaled = DOMAIN given
      /\ \A i \in DOMAIN given : scaled[i] \in Nat /\ scaled[i] <= Total(scaled)
      /\ Total(scaled) \in Nat
      /\ Total(scaled) <= U16
      /\ U16 - Total(scaled) < Cardinality(DOMAIN given)
  <2> HIDE DEF given
  <2> QED BY <1>1, ScaledFacts DEF given
<1>3. shares = [scaled EXCEPT ![top] = scaled[top] + gap]
  BY DEF resolve_uids
<1> HIDE DEF given, scaled, shares
<1>4. gap \in Nat /\ gap < Cardinality(DOMAIN given)
  BY <1>2, UidsAssumption
<1>5. DOMAIN scaled # {}
  <2> SUFFICES ASSUME DOMAIN scaled = {} PROVE FALSE
    OBVIOUS
  <2>1. Cardinality(DOMAIN given) = 0
    BY <1>2, FS_EmptySet
  <2> QED BY <1>4, <2>1
<1>6. top \in DOMAIN scaled /\ \A i \in DOMAIN scaled : scaled[i] <= scaled[top]
  BY <1>1, <1>2, <1>5, TopIsLargest
<1> HIDE DEF top, gap
<1>7. \A i \in DOMAIN given :
        shares[i] = IF i = top THEN scaled[i] + gap ELSE scaled[i]
  BY <1>2, <1>3
<1>8. DOMAIN shares = DOMAIN given
  BY <1>2, <1>3
<1> QED BY <1>2, <1>4, <1>6, <1>7, <1>8 DEF given, scaled, shares, top, gap

\* The shares put on chain are the whole exactly, unless nobody registered has
\* any weight, and then they are zero (chain.py, resolve_uids): `not uids or
\* sum(ws) == 0` is "pays nobody", whatever is rounded.
THEOREM VectorAddsUp ==
    ASSUME NEW rows \in WeightVectors, NEW onChain
    PROVE  SharesAddUp(rows, onChain)
<1> DEFINE given == Present(rows, onChain)
           scaled == Scaled(given)
           shares == resolve_uids(rows, onChain)
           paid == \E i \in DOMAIN rows : rows[i][1] \in onChain /\ rows[i][2] > 0
<1>1. /\ IsFiniteSet(DOMAIN given)
      /\ DOMAIN given = {k \in DOMAIN rows : rows[k][1] \in onChain}
      /\ \A i \in DOMAIN given : given[i] = rows[i][2] /\ given[i] \in Nat
  BY PresentFacts
<1>2. /\ Total(given) \in Nat
      /\ \A i \in DOMAIN given : given[i] <= Total(given)
      /\ (\A i \in DOMAIN given : given[i] = 0) => Total(given) = 0
  <2> HIDE DEF given
  <2> QED BY <1>1, TotalFacts
<1>3. paid <=> Total(given) # 0
  <2>1. paid <=> \E i \in DOMAIN given : given[i] > 0
    BY <1>1
  <2> HIDE DEF given, paid
  <2>2. ASSUME NEW i \in DOMAIN given, given[i] > 0 PROVE Total(given) # 0
    BY <1>1, <1>2, <2>2
  <2>3. ASSUME Total(given) # 0 PROVE \E i \in DOMAIN given : given[i] > 0
    BY <1>1, <1>2, <2>3
  <2> QED BY <2>1, <2>2, <2>3
<1>4. CASE Total(given) = 0
  <2>1. shares = [i \in DOMAIN given |-> 0]
    BY <1>4 DEF resolve_uids
  <2>2. IsFiniteSet(DOMAIN shares) /\ \A i \in DOMAIN shares : shares[i] = 0
    BY <1>1, <2>1
  <2> HIDE DEF shares
  <2>3. Total(shares) = 0
    BY <2>2, TotalFacts
  <2> QED BY <1>3, <1>4, <2>3 DEF SharesAddUp, shares
<1>5. CASE Total(given) # 0
  <2> DEFINE top == Top(rows, scaled)
             gap == U16 - Total(scaled)
  <2>1. /\ top \in DOMAIN given
        /\ gap \in Nat
        /\ \A i \in DOMAIN given : scaled[i] \in Nat
        /\ DOMAIN shares = DOMAIN given
        /\ \A i \in DOMAIN given :
             shares[i] = IF i = top THEN scaled[i] + gap ELSE scaled[i]
    BY <1>5, ResolvedFacts
  <2>2. DOMAIN scaled = DOMAIN given
    BY DEF Scaled
  <2> HIDE DEF given, scaled, shares
  <2>3. Total(scaled) \in Nat
    BY <1>1, <2>1, <2>2, TotalFacts
  <2>4. PICK hf : SumsOn(scaled, hf, SUBSET (DOMAIN given)) /\ Total(scaled) = hf[DOMAIN given]
    BY <1>1, <2>2, TotalIsSum
  <2>5. PICK hg : SumsOn(shares, hg, SUBSET (DOMAIN given)) /\ Total(shares) = hg[DOMAIN given]
    BY <1>1, <2>1, TotalIsSum
  <2> HIDE DEF top, gap
  <2>6. hg[DOMAIN given] = hf[DOMAIN given] + gap
    <3> DEFINE D == DOMAIN given
    <3>1. /\ IsFiniteSet(D) /\ top \in D /\ gap \in Nat
          /\ \A i \in D : scaled[i] \in Nat
          /\ \A i \in D : shares[i] = IF i = top THEN scaled[i] + gap ELSE scaled[i]
          /\ SumsOn(scaled, hf, SUBSET D) /\ SumsOn(shares, hg, SUBSET D)
      BY <1>1, <2>1, <2>4, <2>5
    <3> HIDE DEF D
    <3>2. hg[D] = hf[D] + gap
      BY ONLY <3>1, SumWithMore
    <3> QED BY <3>2 DEF D
  <2>7. Total(shares) = U16
    BY <2>3, <2>4, <2>5, <2>6, UidsAssumption DEF gap
  <2> QED BY <1>3, <1>5, <2>7 DEF SharesAddUp, shares
<1> QED BY <1>4, <1>5

\* Each hotkey gets what the payload gives it but for the rounding, and only one
\* gets what rounding takes from the others (chain.py, resolve_uids).
THEOREM VectorIsFair ==
    ASSUME NEW rows \in WeightVectors, NEW onChain
    PROVE  SharesAreFair(rows, onChain)
<1> DEFINE given == Present(rows, onChain)
           scaled == Scaled(given)
           shares == resolve_uids(rows, onChain)
           all == Total(given)
           top == Top(rows, scaled)
           gap == U16 - Total(scaled)
           n == Cardinality(DOMAIN given)
<1> SUFFICES ASSUME all > 0
             PROVE  \A i \in DOMAIN given :
                      /\ shares[i] \in 0..U16
                      /\ given[i] * U16 < (shares[i] + 1) * all
                      /\ i # top => shares[i] * all <= given[i] * U16
                      /\ i = top => shares[i] * all < given[i] * U16 + n * all
                      /\ shares[i] <= shares[top]
                      /\ i # top => \A j \in DOMAIN given :
                                      given[i] <= given[j] => shares[i] <= shares[j]
  <2>1. ASSUME all > 0 PROVE top \in DOMAIN given
    BY <2>1, ResolvedFacts
  <2> QED BY <2>1 DEF SharesAreFair
<1>1. /\ IsFiniteSet(DOMAIN given)
      /\ \A i \in DOMAIN given : given[i] \in Nat
  BY PresentFacts
<1>2. all \in Nat /\ all # 0
  <2> HIDE DEF given
  <2> QED BY <1>1, TotalFacts
<1>3. /\ top \in DOMAIN given
      /\ gap \in Nat /\ gap < n
      /\ \A i \in DOMAIN given : scaled[i] \in Nat /\ scaled[i] <= scaled[top]
      /\ \A i \in DOMAIN given :
           shares[i] = IF i = top THEN scaled[i] + gap ELSE scaled[i]
  BY <1>2, ResolvedFacts
<1>4. /\ \A i \in DOMAIN given :
           /\ scaled[i] * all <= given[i] * U16
           /\ given[i] * U16 < scaled[i] * all + all
           /\ scaled[i] <= Total(scaled)
      /\ Total(scaled) \in Nat
      /\ Total(scaled) <= U16
  <2> HIDE DEF given
  <2> QED BY <1>1, <1>2, ScaledFacts
<1>5. \A i, j \in DOMAIN given : given[i] <= given[j] => scaled[i] <= scaled[j]
  <2> SUFFICES ASSUME NEW i \in DOMAIN given, NEW j \in DOMAIN given,
                      given[i] <= given[j], scaled[j] + 1 <= scaled[i]
               PROVE  FALSE
    BY <1>3
  <2> HIDE DEF given, scaled, all
  <2>1. given[i] * U16 <= given[j] * U16
    BY <1>1, UidsAssumption
  <2>2. (scaled[j] + 1) * all <= scaled[i] * all
    BY <1>2, <1>3
  <2>3. (scaled[j] + 1) * all = scaled[j] * all + all
    BY <1>2, <1>3
  <2>4. /\ given[i] * U16 \in Nat /\ given[j] * U16 \in Nat
        /\ scaled[i] * all \in Nat /\ scaled[j] * all \in Nat
    BY <1>1, <1>2, <1>3, UidsAssumption
  <2> QED BY <1>2, <1>4, <2>1, <2>2, <2>3, <2>4
<1>6. n \in Nat
  BY <1>1, FS_CardinalityType
<1>7. U16 \in Nat /\ gap = U16 - Total(scaled)
  BY UidsAssumption
<1> HIDE DEF given, scaled, shares, all, top, gap, n
<1> TAKE i \in DOMAIN given
<1> DEFINE s == scaled[i]
           g == given[i] * U16
           t == Total(scaled)
<1>8. /\ s \in Nat /\ g \in Nat /\ t \in Nat
      /\ s * all <= g /\ g < s * all + all /\ s <= t /\ t <= U16 /\ gap = U16 - t
  BY <1>1, <1>3, <1>4, <1>7
<1>9. shares[i] = IF i = top THEN s + gap ELSE s
  BY <1>3
<1>10. shares[top] = scaled[top] + gap /\ s <= scaled[top] /\ scaled[top] \in Nat
  BY <1>3
<1>11. i # top => \A j \in DOMAIN given : given[i] <= given[j] => shares[i] <= shares[j]
  BY <1>3, <1>5, <1>9
<1> HIDE DEF s, g, t
<1>12. shares[i] \in 0..U16
  BY <1>3, <1>7, <1>8, <1>9
<1>13. shares[i] <= shares[top]
  BY <1>3, <1>8, <1>9, <1>10
<1>14. s * all \in Nat /\ gap * all \in Nat /\ n * all \in Nat
  BY <1>2, <1>3, <1>6, <1>8
<1>15. (s + gap) * all = s * all + gap * all /\ gap * all < n * all
  <2>1. (s + gap) * all = s * all + gap * all
    BY <1>2, <1>3, <1>8
  <2>2. (gap + 1) * all <= n * all
    BY <1>2, <1>3, <1>6
  <2>3. (gap + 1) * all = gap * all + all
    BY <1>2, <1>3
  <2> QED BY <1>2, <1>14, <2>1, <2>2, <2>3
<1>16. (s + 1) * all = s * all + all /\ (s + gap + 1) * all = s * all + gap * all + all
  BY <1>2, <1>3, <1>8
<1>17. g < (shares[i] + 1) * all
  BY <1>2, <1>3, <1>8, <1>9, <1>14, <1>16
<1>18. i # top => shares[i] * all <= g
  BY <1>8, <1>9
<1>19. i = top => shares[i] * all < g + n * all
  BY <1>8, <1>9, <1>14, <1>15
<1> QED BY <1>11, <1>12, <1>13, <1>17, <1>18, <1>19 DEF g

\* A vector that is whole, with every hotkey that has weight registered, reaches
\* the chain as it was signed (chain.py, resolve_uids).
THEOREM VectorIsKept ==
    ASSUME NEW rows \in WeightVectors, NEW onChain
    PROVE  WholeIsKept(rows, onChain)
<1> DEFINE given == Present(rows, onChain)
           scaled == Scaled(given)
<1> SUFFICES ASSUME Total(given) = U16
             PROVE  resolve_uids(rows, onChain) = given
  BY DEF WholeIsKept
<1>0. U16 \in Nat \ {0}
  BY UidsAssumption
<1>1. /\ DOMAIN given = {k \in DOMAIN rows : rows[k][1] \in onChain}
      /\ \A i \in DOMAIN given : given[i] \in Nat
  BY PresentFacts
<1>2. given = [i \in DOMAIN given |-> given[i]]
  BY DEF Present
<1>3. \A i \in DOMAIN given : (given[i] * U16) \div U16 = given[i]
  <2> TAKE i \in DOMAIN given
  <2> DEFINE w == given[i]
             q == (w * U16) \div U16
  <2>1. w \in Nat
    BY <1>1
  <2> HIDE DEF w
  <2>2. w * U16 \in Nat
    BY <1>0, <2>1
  <2>3. q \in Nat /\ q * U16 <= w * U16 /\ w * U16 < q * U16 + U16
    BY <1>0, <2>2, DivFacts
  <2> HIDE DEF q
  <2>4. q <= w
    <3> SUFFICES ASSUME w + 1 <= q PROVE FALSE
      BY <2>1, <2>3
    <3>1. (w + 1) * U16 <= q * U16 /\ (w + 1) * U16 = w * U16 + U16
      BY <1>0, <2>1, <2>3
    <3> QED BY <1>0, <2>2, <2>3, <3>1
  <2>5. w <= q
    <3> SUFFICES ASSUME q + 1 <= w PROVE FALSE
      BY <2>1, <2>3
    <3>1. (q + 1) * U16 <= w * U16 /\ (q + 1) * U16 = q * U16 + U16
      BY <1>0, <2>1, <2>3
    <3> QED BY <1>0, <2>2, <2>3, <3>1
  <2> QED BY <2>1, <2>3, <2>4, <2>5 DEF w, q
<1>4. scaled = given
  BY <1>2, <1>3 DEF Scaled
<1> DEFINE top == Top(rows, scaled)
           shares == resolve_uids(rows, onChain)
<1>5. /\ DOMAIN shares = DOMAIN given
      /\ \A i \in DOMAIN given :
           shares[i] = IF i = top THEN scaled[i] + (U16 - Total(scaled)) ELSE scaled[i]
  BY <1>0, ResolvedFacts
<1>6. \A i \in DOMAIN given : shares[i] = given[i]
  BY <1>0, <1>1, <1>4, <1>5
<1>7. shares = [i \in DOMAIN given |-> shares[i]]
  <2>1. shares = [scaled EXCEPT ![top] = scaled[top] + (U16 - Total(scaled))]
    BY <1>0 DEF resolve_uids
  <2> QED BY <1>5, <2>1 DEF Scaled
<1> QED BY <1>2, <1>6, <1>7

-----------------------------------------------------------------------------
(* What is submitted.                                                      *)

\* A vector lands if a registered hotkey has weight in it, and then as a whole
\* (validator.py, _lands).
LEMMA LandsIfPaid ==
    ASSUME NEW w \in Epochs
    PROVE  /\ Lands(w) <=> \E i \in DOMAIN Rows[w] : /\ Rows[w][i][1] \in registered
                                                     /\ Rows[w][i][2] > 0
           /\ Lands(w) => Total(resolve_uids(Rows[w], registered)) = U16
<1>1. Rows[w] \in WeightVectors /\ w # None /\ U16 > 0
  BY ValidatorAssumption, ScheduleAssumption, UidsAssumption DEF Epochs
<1>2. SharesAddUp(Rows[w], registered)
  BY <1>1, VectorAddsUp
<1> DEFINE t == Total(resolve_uids(Rows[w], registered))
           paid == \E i \in DOMAIN Rows[w] : /\ Rows[w][i][1] \in registered
                                             /\ Rows[w][i][2] > 0
<1>3. t = IF paid THEN U16 ELSE 0
  BY <1>2 DEF SharesAddUp
<1>4. Lands(w) <=> t > 0
  BY <1>1 DEF Lands
<1> HIDE DEF t, paid
<1>5. (t > 0 <=> paid) /\ (paid => t = U16)
  BY <1>1, <1>3, UidsAssumption
<1> QED BY <1>4, <1>5 DEF t, paid

\* A burn pays the owner everything.
LEMMA BurnLands ==
    ASSUME Owner \in registered
    PROVE  Total(resolve_uids(RowsOf(Burn), registered)) = U16
<1> DEFINE rows == <<<<Owner, U16>>>>
<1>1. RowsOf(Burn) = rows
  BY DEF RowsOf
<1>2. Owner \in Hotkeys /\ U16 \in Nat \ {0}
  BY ValidatorAssumption, UidsAssumption
<1>3. rows \in WeightVectors
  BY <1>2 DEF WeightVectors
<1>4. 1 \in DOMAIN rows /\ rows[1][1] = Owner /\ rows[1][2] = U16
  OBVIOUS
<1> HIDE DEF rows
<1>5. SharesAddUp(rows, registered)
  BY <1>3, VectorAddsUp
<1> QED BY <1>1, <1>2, <1>4, <1>5 DEF SharesAddUp

\* Whatever the tick chose, the payload's vector, the cache or a burn, and
\* whoever is registered, the extrinsic gives away the whole of the weight.
THEOREM WholeSubmitted == Spec => SubmitsWhole
<1> USE ScheduleAssumption, ValidatorAssumption
<1>1. TypeInv /\ [Next]_vars =>
        [(pc = "open" /\ pc' = "submit")
            => Total(resolve_uids(RowsOf(job'.sent), registered)) = U16]_vars
  <2> SUFFICES ASSUME TypeInv, [Next]_vars, pc = "open", pc' = "submit"
               PROVE  Total(resolve_uids(RowsOf(job'.sent), registered)) = U16
    OBVIOUS
  <2>1. OpenChain
    BY DEF Next, Environment, Tick, Resolve, Submit, Finalize, Churn, Advance,
       Crash, Suffer, Restart, LoseField, TickStart, ResolveFresh, ResolveCached,
       ResolveNothing, OpenFails, OpenChain, SubmitAccepted, SubmitUnseen,
       SubmitRefused, WriteState, WriteFails, Emit, vars, chain
  <2>2. Target # None /\ job'.sent = Target
    BY <2>1 DEF OpenChain, TypeInv, TypeOK, Jobs
  <2>3. job.what \in Epochs /\ disk.cache \in Opt(Epochs)
    BY DEF TypeInv, TypeOK, TickShape, Disks
  <2>4. Burn \notin Epochs
    BY DEF Epochs
  <2>5. CASE Lands(job.what)
    <3>1. Target = job.what
      BY <2>5 DEF Target
    <3> QED BY <2>2, <2>3, <2>4, <2>5, <3>1, LandsIfPaid DEF RowsOf
  <2>6. CASE ~Lands(job.what) /\ ~job.cached /\ Lands(disk.cache)
    <3>1. Target = disk.cache
      BY <2>6 DEF Target, StandbyVector
    <3>2. disk.cache \in Epochs
      BY <2>2, <2>3, <3>1 DEF Opt
    <3> QED BY <2>2, <2>4, <2>6, <3>1, <3>2, LandsIfPaid DEF RowsOf
  <2>7. CASE ~Lands(job.what) /\ ~(~job.cached /\ Lands(disk.cache))
    <3>1. Owner \in registered /\ Target = Burn
      BY <2>2, <2>7 DEF Target, StandbyVector
    <3> QED BY <2>2, <3>1, BurnLands
  <2> QED BY <2>5, <2>6, <2>7
<1> QED BY <1>1, TypeInit, TypeStep, PTL DEF Spec, SubmitsWhole

-----------------------------------------------------------------------------
(* Refinement, with no faults to the Ledger and with any to CrashLedger.   *)

\* What the file keeps of the record.
Kept == [applied |-> disk.applied, cache |-> disk.cache]

\* What a landing adds to it.
Gained ==
    [applied |-> job.epoch,
     cache |-> IF job.sent # job.what THEN disk.cache ELSE job.what]

\* Nothing is pending outside the window between landing and recording.
LEMMA RecordIsKept ==
    /\ pc # "write" => LedgerRecord = Kept
    /\ pc = "write" => LedgerRecord = Gained
BY DEF LedgerRecord, Kept, Gained

\* The same of the next state.
LEMMA RecordIsKeptNext ==
    /\ pc' # "write" => LedgerRecord' = Kept'
    /\ pc' = "write" => LedgerRecord' = Gained'
BY DEF LedgerRecord, Kept, Gained

\* A step that neither lands, records nor signs leaves the record alone.
LEMMA LedgerStutter ==
    ASSUME UNCHANGED <<disk, pc, job>>
           \/ (UNCHANGED disk /\ pc # "write" /\ pc' # "write")
    PROVE  UNCHANGED <<LedgerRecord, Kept>>
BY DEF LedgerRecord, Kept

\* A landing, heard of or not, is one of the ledger's three submissions.
LEMMA LandingIsLedgerStep ==
    ASSUME IInv, pc = "submit", Land, UNCHANGED finalized
    PROVE  L!Submit(Gained)
<1> USE ScheduleAssumption, ValidatorAssumption
<1>1. onchain' = [epoch |-> job.epoch, what |-> job.sent]
  BY DEF Land
<1>2. /\ job.epoch \in 1..finalized
      /\ job.what \in Epochs /\ job.sent \in Vectors
      /\ disk.applied # None => job.epoch >= disk.applied
      /\ job.sent \in {job.what, disk.cache, Burn}
  BY DEF IInv, TypeInv, TypeOK, TickShape, DecisionHolds, ChoiceHolds,
     SignedOnly, Epochs
<1>3. LedgerRecord = [applied |-> disk.applied, cache |-> disk.cache]
  BY DEF LedgerRecord
<1>4. L!NotOlder(job.epoch)
  BY <1>2, <1>3 DEF L!NotOlder
<1>5. CASE job.sent = job.what /\ ~job.cached
  <2>1. job.what = job.epoch
    BY <1>5 DEF IInv, ChoiceHolds
  <2>2. L!Apply(Gained)
    BY <1>1, <1>2, <1>4, <1>5, <2>1 DEF L!Apply, Gained
  <2> QED BY <2>2 DEF L!Submit
<1>6. CASE job.sent = job.what /\ job.cached
  <2>1. job.epoch = disk.applied /\ job.what = disk.cache
    BY <1>6 DEF IInv, ChoiceHolds
  <2>2. disk.applied # None /\ disk.cache # None
    BY <1>2, <2>1 DEF Epochs
  <2>3. L!Reapply(Gained)
    BY <1>1, <1>3, <1>6, <2>1, <2>2 DEF L!Reapply, Gained
  <2> QED BY <2>3 DEF L!Submit
<1>7. CASE job.sent # job.what
  <2>1. job.sent \in {disk.cache, Burn} \ {None}
    BY <1>2, <1>7 DEF Vectors, Epochs
  <2>2. Gained = [LedgerRecord EXCEPT !.applied = job.epoch]
    BY <1>3, <1>7 DEF Gained
  <2>3. L!Standby(Gained)
    BY <1>1, <1>2, <1>3, <1>4, <2>1, <2>2 DEF L!Standby
  <2> QED BY <2>3 DEF L!Submit
<1> QED BY <1>5, <1>6, <1>7

\* What a tick does between polling and submitting, and what time, miners and
\* a restart do, the ledger does not see.
Quiet ==
    \/ Churn \/ Advance \/ Restart \/ TickStart \/ Resolve \/ OpenFails
    \/ OpenChain \/ SubmitRefused \/ Emit

\* The ledger stands still in such a step.
LEMMA QuietIsStutter ==
    ASSUME Quiet \/ UNCHANGED vars
    PROVE  UNCHANGED <<finalized, onchain, LedgerRecord, Kept, budget>>
<1> USE DEF env, time, chain
<1>1. UNCHANGED <<finalized, onchain, budget>>
  BY DEF Quiet, Churn, Advance, Restart, TickStart, Resolve, ResolveFresh,
     ResolveCached, ResolveNothing, OpenFails, OpenChain, SubmitRefused, Emit,
     vars
<1>2. CASE Churn \/ Advance \/ UNCHANGED vars
  <2>1. UNCHANGED <<disk, pc, job>>
    BY <1>2 DEF Churn, Advance, vars
  <2> QED BY <2>1, <1>1, LedgerStutter
<1>3. CASE \/ Restart \/ TickStart \/ Resolve \/ OpenFails \/ OpenChain
           \/ SubmitRefused \/ Emit
  <2>1. UNCHANGED disk /\ pc # "write" /\ pc' # "write"
    BY <1>3 DEF Restart, TickStart, Resolve, ResolveFresh, ResolveCached,
       ResolveNothing, OpenFails, OpenChain, SubmitRefused, Emit, Gate
  <2> QED BY <2>1, <1>1, LedgerStutter
<1> QED BY <1>2, <1>3 DEF Quiet

\* The first state of the loop is the ledger's.
LEMMA LedgerStart == Init => L!CrashInit
<1> SUFFICES ASSUME Init PROVE L!CrashInit
  OBVIOUS
<1>1. LedgerRecord = [applied |-> None, cache |-> None] /\ LedgerRecord = Kept
  BY DEF Init, LedgerRecord, Kept, DiskFields
<1> QED BY <1>1 DEF Init, L!CrashInit, L!LedgerInit, Kept

\* Whatever crashes, whatever reply is lost, write fails or field is lost, and
\* whenever: what the loop forgets is one submission a fault, and what it then
\* does from the file is what the ledger would do from it.
LEMMA CrashLedgerStep == IInv /\ [Next]_vars => [L!CrashNext]_(L!crashVars)
<1> USE ScheduleAssumption, ValidatorAssumption
<1> SUFFICES ASSUME IInv, [Next]_vars
             PROVE  L!CrashNext \/ UNCHANGED L!crashVars
  OBVIOUS
<1>0. TypeOK
  BY DEF IInv, TypeInv
<1>1. CASE Finalize
  <2>1. UNCHANGED <<onchain, disk, LedgerRecord, budget>>
    BY <1>1 DEF Finalize, chain, LedgerRecord
  <2>2. L!Sign
    BY <1>1, <2>1 DEF Finalize, L!Sign
  <2> QED BY <2>1, <2>2 DEF L!CrashNext
<1>2. CASE SubmitAccepted
  <2>1. /\ pc = "submit" /\ pc' = "write" /\ Land
        /\ UNCHANGED <<finalized, disk, job, budget>>
    BY <1>2 DEF SubmitAccepted, env
  <2>2. LedgerRecord = Kept /\ LedgerRecord' = Gained
    BY <2>1, RecordIsKept DEF LedgerRecord, Gained
  <2>3. L!Submit(LedgerRecord')
    BY <2>1, <2>2, LandingIsLedgerStep
  <2>4. L!SubmitSaved
    BY <2>1, <2>2, <2>3 DEF L!SubmitSaved, Kept
  <2> QED BY <2>4 DEF L!CrashNext
<1>3. CASE SubmitUnseen
  <2>1. /\ pc = "submit" /\ pc' = "done" /\ Land
        /\ UNCHANGED <<finalized, disk, job>>
        /\ L!Fault
    BY <1>3 DEF SubmitUnseen, Suffer, L!Fault, env
  <2>2. LedgerRecord = Kept /\ UNCHANGED <<LedgerRecord, Kept>>
    BY <2>1, RecordIsKept, LedgerStutter
  <2>3. L!Submit(Gained)
    BY <2>1, LandingIsLedgerStep
  <2>4. /\ Gained.cache \in (1..finalized) \cup {LedgerRecord.cache}
        /\ job.epoch \in 1..finalized
    <3>1. /\ job.epoch \in Epochs /\ job.epoch <= finalized
          /\ finalized \in Int
          /\ ~job.cached => job.what = job.epoch
          /\ job.cached => job.what = disk.cache
      BY <2>1, <1>0 DEF IInv, TypeInv, TickShape, SignedOnly, ChoiceHolds, TypeOK
    <3> QED BY <2>2, <3>1 DEF Gained, Kept, Epochs
  <2>5. \E e \in 1..finalized :
          \E w \in (1..finalized) \cup {LedgerRecord.cache} :
             L!Submit([applied |-> e, cache |-> w])
    BY <2>3, <2>4 DEF Gained
  <2>6. L!SubmitUnheard
    BY <2>1, <2>2, <2>5 DEF L!SubmitUnheard, Kept
  <2> QED BY <2>6 DEF L!CrashNext
<1>4. CASE WriteState
  <2>1. /\ pc = "write" /\ pc' = "done"
        /\ UNCHANGED <<finalized, onchain, budget>>
        /\ Kept' = Gained
    BY <1>4 DEF WriteState, env, chain, Kept, Gained
  <2>2. LedgerRecord = Gained /\ LedgerRecord' = Gained
    BY <2>1, RecordIsKept, RecordIsKeptNext
  <2>3. L!Save
    BY <2>1, <2>2 DEF L!Save, L!ledgerVars, Kept
  <2> QED BY <2>3 DEF L!CrashNext
<1>5. CASE Crash \/ WriteFails
  <2>1. /\ pc' # "write" /\ L!Fault
        /\ UNCHANGED <<finalized, onchain, disk>>
    BY <1>5 DEF Crash, WriteFails, Suffer, L!Fault, env, chain
  <2>2. LedgerRecord' = Kept'
    BY <2>1, RecordIsKeptNext
  <2>3. L!Forget
    BY <2>1, <2>2 DEF L!Forget, Kept
  <2> QED BY <2>3 DEF L!CrashNext
<1>6. CASE LoseField
  <2>1. /\ pc \in {"idle", "down"} /\ pc' = pc /\ L!Fault
        /\ UNCHANGED <<finalized, onchain>>
    BY <1>6 DEF LoseField, Suffer, L!Fault, env, chain
  <2>2. LedgerRecord = Kept /\ LedgerRecord' = Kept'
    BY <2>1, RecordIsKept, RecordIsKeptNext
  <2>3. PICK f \in DiskFields : disk' = [disk EXCEPT ![f] = None]
    BY <1>6 DEF LoseField
  <2>4. CASE f \in {"applied", "cache"}
    <3>1. Kept' = [Kept EXCEPT ![f] = None]
      BY <1>0, <2>3, <2>4 DEF Kept, TypeOK, Disks
    <3>2. L!LoseField
      BY <2>1, <2>2, <2>4, <3>1 DEF L!LoseField, Kept
    <3> QED BY <3>2 DEF L!CrashNext
  <2>5. CASE f \notin {"applied", "cache"}
    <3>1. Kept' = Kept
      BY <1>0, <2>3, <2>5 DEF Kept, TypeOK, Disks
    <3>2. L!Forget
      BY <2>1, <2>2, <3>1 DEF L!Forget, Kept
    <3> QED BY <3>2 DEF L!CrashNext
  <2> QED BY <2>4, <2>5
<1>7. CASE Quiet \/ UNCHANGED vars
  BY <1>7, QuietIsStutter DEF L!crashVars, L!ledgerVars, Kept
<1> QED
  BY <1>1, <1>2, <1>3, <1>4, <1>5, <1>6, <1>7
     DEF Next, Environment, Tick, Submit, Quiet

\* The loop and its file, under every fault and any number of them, implement
\* the ledger that is submitted to and recorded in one step, kept in a file
\* that a fault leaves one submission behind or one field short.
THEOREM CrashRefinement == Spec => ImplementsCrashLedger
BY LedgerStart, CrashLedgerStep, Safe, PTL
   DEF Spec, ImplementsCrashLedger, L!CrashSpec

\* When no fault may come between landing and recording, the tick with all
\* its steps implements the ledger's atomic submit-and-record.
THEOREM Refinement == ASSUME Budget = 0 PROVE Spec => ImplementsLedger
<1>1. Init => L!LedgerInit
  BY LedgerStart DEF L!CrashInit
<1>2. IInv /\ [Next]_vars => [L!LedgerNext]_(L!ledgerVars)
  <2> SUFFICES ASSUME IInv, [Next]_vars
               PROVE  L!LedgerNext \/ UNCHANGED L!ledgerVars
    OBVIOUS
  <2>1. budget = 0
    BY DEF IInv, TypeInv, TypeOK
  <2>2. L!CrashNext \/ UNCHANGED L!crashVars
    BY CrashLedgerStep
  <2>3. ~L!Fault
    BY <2>1 DEF L!Fault
  <2> QED
    BY <2>2, <2>3 DEF L!CrashNext, L!SubmitSaved, L!Save, L!Forget,
       L!SubmitUnheard, L!LoseField, L!LedgerNext, L!crashVars
<1> QED BY <1>1, <1>2, Safe, PTL DEF Spec, ImplementsLedger, L!LedgerSpec

-----------------------------------------------------------------------------
(* How long the chain may go without an extrinsic.  k is the number of     *)
(* blocks a time step may bring.                                           *)

\* What the bound asks of the environment: ticks and sleeps are bounded, no
\* step brings more than k blocks nor less time than they take, the owner stays
\* registered, and nothing keeps the validator from submitting for ever - a
\* provider that only replays, a chain that cannot be read, that refuses every
\* extrinsic, or a record lost during an outage, would.
Steady(k) ==
    /\ Timed
    /\ Faults \subseteq {"outage", "noblock", "unseen", "write", "crash"}
    /\ Owner \in Permanent
    /\ \A p \in Pace : p[1] <= k /\ p[1] * BlockS <= p[2]

\* The time steps a fault may cost: a tick, cut short, and the sleeps around it.
Lap == TickSteps + 2 * SleepSteps

\* The faults that struck.
Struck == Budget - budget

\* At most n time steps, and those the faults cost, since the weights were last
\* seen to need no refreshing.
Within(k, n) ==
    block - lastUpdate <= IntervalBlocks - 1 + k * (n + Struck * Lap)

\* A product of naturals is one.
LEMMA NatProducts == \A m, n \in Nat : m * n \in Nat
OBVIOUS

\* Products of naturals are ordered as their factors.
LEMMA Products ==
    ASSUME NEW k \in Nat, NEW m \in Int, NEW n \in Int
    PROVE  /\ k * m \in Int
           /\ m \in Nat => k * m \in Nat
           /\ m <= n => k * m <= k * n
           /\ k * (m + n) = k * m + k * n
           /\ k * m = m * k
           /\ k * 1 = k /\ k * 0 = 0
<1>1. k * m \in Int /\ (m \in Nat => k * m \in Nat)
  OBVIOUS
<1>2. m <= n => k * m <= k * n
  OBVIOUS
<1>3. k * (m + n) = k * m + k * n
  OBVIOUS
<1> QED BY <1>1, <1>2, <1>3

\* Blocks that take less time than the interval are fewer than the interval.
LEMMA FewerBlocks ==
    ASSUME NEW n \in Int, n * BlockS < IntervalBlocks * BlockS
    PROVE  n < IntervalBlocks
<1> USE ScheduleAssumption
<1>1. SUFFICES ASSUME IntervalBlocks <= n PROVE FALSE
  OBVIOUS
<1>2. BlockS * IntervalBlocks <= BlockS * n
  BY <1>1, Products
<1>3. BlockS * n = n * BlockS /\ BlockS * IntervalBlocks = IntervalBlocks * BlockS
  BY Products
<1>4. n * BlockS \in Int /\ IntervalBlocks * BlockS \in Int
  OBVIOUS
<1> QED BY <1>2, <1>3, <1>4

\* The types the arithmetic needs.
LEMMA Numbers ==
    ASSUME TypeOK
    PROVE  /\ block \in Nat /\ clock \in Nat /\ lag \in Nat
           /\ budget \in Nat /\ budget <= Budget /\ Struck \in Nat /\ Struck <= Budget
           /\ lastUpdate # None => lastUpdate \in Nat
           /\ disk.applied # None => disk.applied \in Nat
           /\ disk.block # None => disk.block \in Nat
           /\ disk.ts # None => disk.ts \in Nat
           /\ job.now # None => job.now \in Nat
           /\ job.block # None => job.block \in Nat
           /\ IntervalBlocks \in Nat /\ IntervalBlocks > 0 /\ BlockS \in Nat
           /\ TickSteps \in Nat /\ SleepSteps \in Nat /\ Lap \in Nat
BY ScheduleAssumption, ValidatorAssumption
   DEF TypeOK, Blocks, Disks, Jobs, Opt, Epochs, Struck, Lap

\* Nothing but the file and the chain tells how old the weights are: a file that
\* names an epoch also dates it, and no block it holds is later than the landing.
FileHolds ==
    /\ disk.applied # None <=> disk.ts # None
    /\ disk.applied # None => lastUpdate # None
    /\ disk.cache # None => disk.applied # None
    /\ disk.block # None => disk.applied # None /\ disk.block <= lastUpdate
    /\ lastUpdate # None => lastUpdate <= block
    /\ pc = "write" => /\ lastUpdate # None
                       /\ job.block # None => job.block <= lastUpdate

\* Neither a tick nor a sleep outlasts its bound.
LagHolds == lag <= IF pc \in {"idle", "down"} THEN SleepSteps ELSE TickSteps

\* Without replays the epoch a tick takes up is not older than the record.
EpochHolds ==
    pc \in {"open", "submit", "write"} =>
        (disk.applied # None => job.epoch >= disk.applied)

\* The clock has seen every block since the landing pass.  Within a tick, which
\* read the clock at its start, all but those of the tick.
TimeHolds(k) ==
    /\ disk.ts # None => (block - lastUpdate) * BlockS <= clock - disk.ts
    /\ pc \in {"fetch", "open", "submit", "write"} => job.now <= clock
    /\ pc \in {"fetch", "open"} /\ disk.ts # None =>
          (block - k * lag - lastUpdate) * BlockS <= job.now - disk.ts
    /\ pc = "write" => /\ (block - lastUpdate) * BlockS <= clock - job.now
                       /\ block - lastUpdate <= k * lag

\* How old the weights may be at each step, once there is a vector to fall back
\* to.  A tick that ends has found them fresh, or made them so.
GapHolds(k) ==
    (lastUpdate # None /\ disk.cache # None) =>
        /\ pc = "done" => Within(k, lag)
        /\ pc = "idle" => Within(k, TickSteps + lag)
        /\ pc \in {"fetch", "open", "submit"} =>
              Within(k, TickSteps + SleepSteps + lag)
        /\ pc = "down" => Within(k, TickSteps + lag - SleepSteps)

\* What no step takes away, in one place.
Punctual(k) ==
    /\ Permanent \subseteq registered
    /\ FileHolds
    /\ LagHolds
    /\ EpochHolds
    /\ TimeHolds(k)
    /\ GapHolds(k)

\* Nothing is old at the start.
LEMMA PunctualInit ==
    ASSUME NEW k \in Nat, Init
    PROVE  Punctual(k)
<1>1. /\ disk.applied = None /\ disk.ts = None /\ disk.cache = None
      /\ disk.block = None /\ pc = "idle" /\ lag = 0 /\ lastUpdate = None
      /\ Permanent \subseteq registered
  BY DEF Init, DiskFields
<1> QED
  BY <1>1, ValidatorAssumption DEF Punctual, FileHolds, LagHolds, EpochHolds,
     TimeHolds, GapHolds

\* The steps that touch neither time, nor the chain, nor the process.
Aside == /\ UNCHANGED <<block, clock, lastUpdate, disk, pc, job, lag, budget>>
         /\ Permanent \subseteq registered => Permanent \subseteq registered'
         /\ finalized' >= finalized

\* They change nothing of it.
LEMMA AsideKeeps ==
    ASSUME NEW k \in Nat, Punctual(k), Aside
    PROVE  Punctual(k)'
BY DEF Aside, Punctual, FileHolds, LagHolds, EpochHolds, TimeHolds, GapHolds,
   Within, Struck

\* The permanent hotkeys stay registered.
LEMMA PermanentStay ==
    ASSUME Permanent \subseteq registered, [Next]_vars
    PROVE  Permanent \subseteq registered'
BY DEF Next, Environment, Tick, Resolve, Submit, Finalize, Churn, Advance,
   Crash, Restart, LoseField, TickStart, ResolveFresh, ResolveCached,
   ResolveNothing, OpenFails, OpenChain, ReadBlock, SubmitAccepted, SubmitRefused,
   SubmitUnseen, WriteState, WriteFails, Emit, vars, env

\* Time passes: the blocks a step brings take their time, and are at most k.
LEMMA AdvanceKeeps ==
    ASSUME NEW k \in Nat, Steady(k), TypeInv, TypeOK', Punctual(k), Advance
    PROVE  Punctual(k)'
<1> USE ScheduleAssumption, ValidatorAssumption
<1>1. PICK p \in Pace : block' = block + p[1] /\ clock' = clock + p[2]
  BY DEF Advance
<1>2. /\ p[1] \in Nat /\ p[2] \in Int
      /\ p[1] <= k /\ p[1] * BlockS <= p[2]
  BY DEF Steady
<1>3. /\ UNCHANGED <<registered, lastUpdate, disk, pc, job, budget>>
      /\ lag' = lag + 1
      /\ lag < IF pc \in {"idle", "down"} THEN SleepSteps ELSE TickSteps
  BY DEF Advance, Steady, env, chain
<1>4. /\ block \in Nat /\ clock \in Nat /\ lag \in Nat /\ Struck \in Nat
      /\ lastUpdate # None => lastUpdate \in Nat
      /\ disk.ts # None => disk.ts \in Nat
      /\ disk.block # None => disk.block \in Nat
      /\ job.now # None => job.now \in Nat
      /\ job.block # None => job.block \in Nat
      /\ TickSteps \in Nat /\ SleepSteps \in Nat /\ Lap \in Nat
  BY Numbers DEF TypeInv
<1>5. FileHolds /\ LagHolds /\ EpochHolds /\ TimeHolds(k) /\ GapHolds(k)
  BY DEF Punctual
<1>6. Permanent \subseteq registered' /\ LagHolds' /\ EpochHolds'
  BY <1>3, <1>4, <1>5 DEF Punctual, LagHolds, EpochHolds
<1>7. FileHolds'
  BY <1>1, <1>2, <1>3, <1>4, <1>5 DEF FileHolds
<1>8. k * lag' = k * lag + k /\ k * lag \in Int
  BY <1>3, <1>4, Products
<1>9. ASSUME lastUpdate # None
      PROVE  (block' - lastUpdate) * BlockS
               = (block - lastUpdate) * BlockS + p[1] * BlockS
  <2>1. block' - lastUpdate = (block - lastUpdate) + p[1]
    BY <1>1, <1>2, <1>4, <1>9
  <2>2. BlockS * ((block - lastUpdate) + p[1])
          = BlockS * (block - lastUpdate) + BlockS * p[1]
    BY <1>2, <1>4, <1>9, Products
  <2>3. /\ BlockS * ((block - lastUpdate) + p[1]) = ((block - lastUpdate) + p[1]) * BlockS
        /\ BlockS * (block - lastUpdate) = (block - lastUpdate) * BlockS
        /\ BlockS * p[1] = p[1] * BlockS
    BY <1>2, <1>4, <1>9, Products
  <2> QED BY <2>1, <2>2, <2>3
<1>10. /\ p[1] * BlockS \in Nat
       /\ lastUpdate # None => (block - lastUpdate) * BlockS \in Int
  BY <1>2, <1>4
<1>11. TimeHolds(k)'
  <2>1. ASSUME disk.ts # None
        PROVE  (block' - lastUpdate) * BlockS <= clock' - disk.ts
    BY <1>1, <1>2, <1>4, <1>5, <1>9, <1>10, <2>1 DEF FileHolds, TimeHolds
  <2>2. ASSUME pc \in {"fetch", "open", "submit", "write"} PROVE job.now <= clock'
    <3>1. job.now \in Nat /\ job.now <= clock
      BY <1>4, <1>5, <2>2 DEF TypeInv, TickShape, TimeHolds
    <3>2. clock <= clock'
      BY <1>1, <1>2, <1>4, <1>10
    <3> QED BY <1>1, <1>2, <1>4, <3>1, <3>2
  <2>3. ASSUME pc \in {"fetch", "open"}, disk.ts # None
        PROVE  (block' - k * lag' - lastUpdate) * BlockS <= job.now - disk.ts
    <3> DEFINE before == block - k * lag - lastUpdate
               after == block' - k * lag' - lastUpdate
    <3>1. before \in Int /\ after \in Int /\ after <= before
      BY <1>1, <1>2, <1>4, <1>5, <1>8, <2>3 DEF FileHolds
    <3>2. before * BlockS <= job.now - disk.ts
      BY <1>5, <2>3 DEF TimeHolds
    <3>3. job.now \in Nat /\ disk.ts \in Nat
      BY <1>4, <2>3 DEF TypeInv, TickShape
    <3> HIDE DEF before, after
    <3>4. BlockS * after <= BlockS * before
      BY <3>1, Products
    <3>5. BlockS * after = after * BlockS /\ BlockS * before = before * BlockS
      BY <3>1, Products
    <3>6. after * BlockS \in Int /\ before * BlockS \in Int
      BY <3>1
    <3>7. after * BlockS <= job.now - disk.ts
      BY <3>2, <3>3, <3>4, <3>5, <3>6
    <3> QED BY <3>7 DEF after
  <2>4. ASSUME pc = "write"
        PROVE  /\ (block' - lastUpdate) * BlockS <= clock' - job.now
               /\ block' - lastUpdate <= k * lag'
    <3>1. /\ lastUpdate # None
          /\ (block - lastUpdate) * BlockS <= clock - job.now
          /\ block - lastUpdate <= k * lag
      BY <1>5, <2>4 DEF FileHolds, TimeHolds
    <3>2. job.now \in Nat
      BY <1>4, <2>4 DEF TypeInv, TickShape
    <3> QED BY <1>1, <1>2, <1>4, <1>8, <1>9, <1>10, <3>1, <3>2
  <2> QED BY <1>3, <2>1, <2>2, <2>3, <2>4 DEF TimeHolds
<1>12. GapHolds(k)'
  <2> DEFINE Later(n) == block' - lastUpdate' <=
                           IntervalBlocks - 1 + k * (n + Struck' * Lap)
  <2>1. ASSUME NEW n \in Int, lastUpdate # None, Within(k, n)
        PROVE  Later(n + 1)
    <3>1. k * (n + 1 + Struck * Lap) = k * (n + Struck * Lap) + k
      <4>1. Struck * Lap \in Int
        BY <1>4
      <4> DEFINE m == n + Struck * Lap
      <4>2. m \in Int /\ n + 1 + Struck * Lap = m + 1
        BY <4>1
      <4> HIDE DEF m
      <4>3. k * (m + 1) = k * m + k
        BY <4>2, Products
      <4> QED BY <4>2, <4>3 DEF m
    <3>2. Struck' = Struck
      BY <1>3 DEF Struck
    <3>3. k * (n + Struck * Lap) \in Int
      <4>1. n + Struck * Lap \in Int
        BY <1>4
      <4> QED BY <4>1, Products
    <3>4. block - lastUpdate <= IntervalBlocks - 1 + k * (n + Struck * Lap)
      BY <2>1 DEF Within
    <3>5. block' - lastUpdate <= IntervalBlocks - 1 + (k * (n + Struck * Lap) + k)
      BY <1>1, <1>2, <1>4, <2>1, <3>3, <3>4
    <3> QED BY <1>3, <3>1, <3>2, <3>5
  <2>2. ASSUME lastUpdate # None, disk.cache # None
        PROVE  /\ pc = "done" => Later(lag + 1)
               /\ pc = "idle" => Later(TickSteps + lag + 1)
               /\ pc \in {"fetch", "open", "submit"} =>
                     Later(TickSteps + SleepSteps + lag + 1)
               /\ pc = "down" => Later(TickSteps + lag - SleepSteps + 1)
    <3>1. /\ pc = "done" => Within(k, lag)
          /\ pc = "idle" => Within(k, TickSteps + lag)
          /\ pc \in {"fetch", "open", "submit"} =>
                Within(k, TickSteps + SleepSteps + lag)
          /\ pc = "down" => Within(k, TickSteps + lag - SleepSteps)
      BY <1>5, <2>2 DEF GapHolds
    <3> HIDE DEF Later
    <3> QED BY <1>4, <2>1, <2>2, <3>1
  <2>3. /\ lag + 1 = lag'
        /\ TickSteps + lag + 1 = TickSteps + lag'
        /\ TickSteps + SleepSteps + lag + 1 = TickSteps + SleepSteps + lag'
        /\ TickSteps + lag - SleepSteps + 1 = TickSteps + lag' - SleepSteps
    BY <1>3, <1>4
  <2>4. ASSUME lastUpdate # None, disk.cache # None
        PROVE  /\ pc = "done" => Later(lag')
               /\ pc = "idle" => Later(TickSteps + lag')
               /\ pc \in {"fetch", "open", "submit"} =>
                     Later(TickSteps + SleepSteps + lag')
               /\ pc = "down" => Later(TickSteps + lag' - SleepSteps)
    BY <2>2, <2>3, <2>4
  <2> QED BY <1>3, <2>4 DEF GapHolds, Within
<1> QED BY <1>6, <1>7, <1>11, <1>12 DEF Punctual

\* A longer allowance allows more.
LEMMA WithinGrows ==
    ASSUME NEW k \in Nat, TypeOK, lastUpdate # None,
           NEW m \in Int, NEW n \in Int, m <= n, Within(k, m)
    PROVE  Within(k, n)
<1>1. Struck * Lap \in Int
  BY Numbers
<1> DEFINE a == m + Struck * Lap
           b == n + Struck * Lap
<1>2. a \in Int /\ b \in Int /\ a <= b
  BY <1>1
<1>3. block - lastUpdate <= IntervalBlocks - 1 + k * a
  BY DEF Within
<1> HIDE DEF a, b
<1>4. k * a <= k * b /\ k * a \in Int /\ k * b \in Int
  BY <1>2, Products
<1>5. block - lastUpdate <= IntervalBlocks - 1 + k * b
  BY <1>3, <1>4, Numbers
<1> QED BY <1>5 DEF Within, b

\* Weights a tick has seen to be fresh stay within the time since.
LEMMA FreshWithin ==
    ASSUME NEW k \in Nat, TypeOK, lastUpdate # None, NEW n \in Nat,
           block - lastUpdate - k * n < IntervalBlocks
    PROVE  Within(k, n)
<1>1. Struck * Lap \in Nat
  BY Numbers
<1>2. n <= n + Struck * Lap /\ n + Struck * Lap \in Int
  BY <1>1
<1>3. k * n <= k * (n + Struck * Lap) /\ k * n \in Int /\ k * (n + Struck * Lap) \in Int
  BY <1>2, Products
<1>4. block - lastUpdate <= IntervalBlocks - 1 + k * n
  BY <1>3, Numbers
<1>5. block - lastUpdate <= IntervalBlocks - 1 + k * (n + Struck * Lap)
  BY <1>3, <1>4, Numbers
<1> QED BY <1>5 DEF Within

\* One more fault adds a lap to the allowance.
LEMMA WithinFault ==
    ASSUME NEW k \in Nat, TypeOK, lastUpdate # None, NEW n \in Int,
           Within(k, n), budget' = budget - 1,
           UNCHANGED <<block, lastUpdate>>
    PROVE  /\ block' - lastUpdate' <=
                 IntervalBlocks - 1 + k * (n - Lap + Struck' * Lap)
<1>1. Struck' = Struck + 1
  BY Numbers, ValidatorAssumption DEF Struck
<1>2. (Struck + 1) * Lap = Struck * Lap + Lap /\ Struck * Lap \in Int /\ Lap \in Int
  <2>1. Struck \in Nat /\ Lap \in Nat
    BY Numbers
  <2> QED BY <2>1
<1>3. n - Lap + Struck' * Lap = n + Struck * Lap
  BY <1>1, <1>2
<1> QED BY <1>3 DEF Within

\* When the clock says that the weights are not due, they are younger than the
\* interval, whatever blocks the tick itself has seen.
LEMMA ClockIsEnough ==
    ASSUME NEW k \in Nat, TypeInv, FileHolds, TimeHolds(k), pc \in {"fetch", "open"},
           disk.ts # None, ~ClockSaysDue(job.now, disk.ts)
    PROVE  block - lastUpdate - k * lag < IntervalBlocks
<1>1. /\ block \in Nat /\ lag \in Nat /\ disk.ts \in Nat
      /\ BlockS \in Nat /\ IntervalBlocks \in Nat
      /\ lastUpdate \in Nat
      /\ job.now \in Nat
  BY Numbers DEF TypeInv, TickShape, FileHolds
<1>2. k * lag \in Int
  BY <1>1, Products
<1> DEFINE n == block - k * lag - lastUpdate
<1>3. n \in Int
  BY <1>1, <1>2
<1>4. n * BlockS <= job.now - disk.ts
  BY DEF TimeHolds
<1>5. job.now - disk.ts < IntervalBlocks * BlockS
  BY <1>1 DEF ClockSaysDue
<1>6. n * BlockS < IntervalBlocks * BlockS
  <2> HIDE DEF n
  <2>1. n * BlockS \in Int /\ IntervalBlocks * BlockS \in Int
    BY <1>1, <1>3
  <2> QED BY <1>1, <1>4, <1>5, <2>1
<1>7. n < IntervalBlocks
  <2> HIDE DEF n
  <2> QED BY <1>3, <1>6, FewerBlocks
<1> QED BY <1>1, <1>2, <1>7

\* The process comes back, or begins a tick.
LEMMA WakeKeeps ==
    ASSUME NEW k \in Nat, TypeInv, Punctual(k), Restart \/ TickStart
    PROVE  Punctual(k)'
<1> USE ScheduleAssumption, ValidatorAssumption
<1>1. /\ UNCHANGED <<registered, block, clock, lastUpdate, disk, budget>>
      /\ lag' = 0
      /\ \/ pc = "down" /\ pc' = "idle"
         \/ pc = "idle" /\ pc' = "fetch" /\ job'.now = clock
  BY DEF Restart, TickStart, NoJob, env, time, chain
<1>2. FileHolds /\ LagHolds /\ EpochHolds /\ TimeHolds(k) /\ GapHolds(k)
  BY DEF Punctual
<1>3. /\ block \in Nat /\ clock \in Nat /\ lag \in Nat
      /\ TickSteps \in Nat /\ SleepSteps \in Nat
      /\ disk.ts # None => lastUpdate \in Nat
  BY <1>2, Numbers DEF TypeInv, FileHolds
<1>4. Permanent \subseteq registered' /\ FileHolds' /\ LagHolds' /\ EpochHolds'
  BY <1>1, <1>2, <1>3 DEF Punctual, FileHolds, LagHolds, EpochHolds
<1>5. TimeHolds(k)'
  <2>1. k * lag' = 0
    BY <1>1, Products
  <2>2. disk.ts # None => (block - lastUpdate) * BlockS <= clock - disk.ts
    BY <1>2 DEF TimeHolds
  <2>3. pc' \in {"fetch", "open"} /\ disk.ts # None =>
          (block' - k * lag' - lastUpdate') * BlockS <= job'.now - disk.ts
    <3>1. disk.ts # None => block - k * lag' - lastUpdate = block - lastUpdate
      BY <1>3, <2>1
    <3> QED BY <1>1, <2>2, <3>1
  <2> QED BY <1>1, <1>3, <2>2, <2>3 DEF TimeHolds
<1>6. GapHolds(k)'
  <2> SUFFICES ASSUME lastUpdate # None, disk.cache # None
               PROVE  /\ pc' = "idle" => Within(k, TickSteps)
                      /\ pc' = "fetch" => Within(k, TickSteps + SleepSteps)
    <3>1. TickSteps + lag' = TickSteps /\ TickSteps + SleepSteps + lag' = TickSteps + SleepSteps
      BY <1>1, <1>3
    <3> QED BY <1>1, <3>1 DEF GapHolds, Within, Struck
  <2>1. CASE pc = "down"
    <3>1. TickSteps + lag - SleepSteps <= TickSteps
      BY <1>2, <1>3, <2>1 DEF LagHolds
    <3>2. Within(k, TickSteps + lag - SleepSteps)
      BY <1>2, <2>1 DEF GapHolds
    <3>3. Within(k, TickSteps)
      BY <1>3, <3>1, <3>2, WithinGrows DEF TypeInv
    <3> QED BY <1>1, <2>1, <3>3
  <2>2. CASE pc = "idle"
    <3>1. TickSteps + lag <= TickSteps + SleepSteps
      BY <1>2, <1>3, <2>2 DEF LagHolds
    <3>2. Within(k, TickSteps + lag)
      BY <1>2, <2>2 DEF GapHolds
    <3>3. Within(k, TickSteps + SleepSteps)
      BY <1>3, <3>1, <3>2, WithinGrows DEF TypeInv
    <3> QED BY <1>1, <2>2, <3>3
  <2> QED BY <1>1, <2>1, <2>2
<1> QED BY <1>4, <1>5, <1>6 DEF Punctual

\* A step within a tick that neither lands nor records.
TickGoesOn ==
    /\ UNCHANGED <<registered, block, clock, lastUpdate, disk, lag, budget>>
    /\ job'.now = job.now
    /\ pc \in {"fetch", "open", "submit"}
    /\ pc' \in {"open", "submit", "done"}

\* Such a step keeps what is due, if it ends the tick on fresh weights only.
LEMMA TickKeeps ==
    ASSUME NEW k \in Nat, TypeInv, TypeInv', Punctual(k), TickGoesOn, EpochHolds',
           pc' = "open" => pc = "fetch",
           (pc' = "done" /\ lastUpdate # None /\ disk.cache # None) =>
               block - lastUpdate - k * lag < IntervalBlocks
    PROVE  Punctual(k)'
<1>1. FileHolds /\ LagHolds /\ TimeHolds(k) /\ GapHolds(k)
  BY DEF Punctual
<1>2. Permanent \subseteq registered' /\ FileHolds' /\ LagHolds'
  BY <1>1 DEF TickGoesOn, Punctual, FileHolds, LagHolds
<1>3. TimeHolds(k)'
  BY <1>1 DEF TickGoesOn, TimeHolds
<1>4. GapHolds(k)'
  <2> SUFFICES ASSUME lastUpdate # None, disk.cache # None
               PROVE  /\ pc' = "done" => Within(k, lag)
                      /\ pc' \in {"open", "submit"} =>
                            Within(k, TickSteps + SleepSteps + lag)
    BY DEF TickGoesOn, GapHolds, Within, Struck
  <2>1. pc' = "done" => Within(k, lag)
    BY FreshWithin, Numbers DEF TypeInv
  <2>2. Within(k, TickSteps + SleepSteps + lag)
    BY <1>1 DEF TickGoesOn, GapHolds
  <2> QED BY <2>1, <2>2
<1> QED BY <1>2, <1>3, <1>4 DEF Punctual

\* A vector is chosen; the pregate ends the tick on fresh weights only.
LEMMA ResolveKeeps ==
    ASSUME NEW k \in Nat, Steady(k), IInv, TypeInv', Punctual(k), Resolve
    PROVE  Punctual(k)'
<1> USE ScheduleAssumption, ValidatorAssumption
<1>0. TypeInv /\ TypeOK /\ FileHolds /\ TimeHolds(k) /\ pc = "fetch"
  BY DEF IInv, TypeInv, Punctual, Resolve, ResolveFresh, ResolveCached, ResolveNothing
<1>1. CASE ResolveNothing
  <2>1. TickGoesOn /\ pc' = "done" /\ EpochHolds'
    BY <1>1 DEF ResolveNothing, TickGoesOn, env, time, chain, EpochHolds
  <2>2. disk.cache = None
    BY <1>0, <1>1 DEF ResolveNothing, FileHolds
  <2> QED BY <1>0, <2>1, <2>2, TickKeeps
<1>2. CASE ResolveFresh \/ ResolveCached
  <2>1. PICK e \in Int :
           /\ job'.epoch = e /\ job'.now = job.now
           /\ pc' = Gate(e)
           /\ disk.applied # None => e >= disk.applied
    <3>1. CASE ResolveFresh
      <4>1. PICK e \in 1..finalized :
               /\ e = finalized
               /\ job' = [job EXCEPT !.epoch = e, !.what = e, !.digest = e]
               /\ pc' = Gate(e)
        BY <3>1 DEF ResolveFresh, Steady
      <4>2. job'.epoch = e /\ job'.now = job.now
        BY <1>0, <4>1 DEF TypeOK, Jobs
      <4>3. disk.applied # None => e >= disk.applied
        BY <1>0, <4>1, Numbers DEF IInv, SignedOnly, TypeOK
      <4> QED BY <4>1, <4>2, <4>3
    <3>2. CASE ResolveCached
      <4>1. /\ job' = [job EXCEPT !.epoch = disk.applied, !.what = disk.cache,
                                  !.digest = disk.digest, !.cached = TRUE]
            /\ pc' = Gate(disk.applied) /\ disk.applied # None
        BY <3>2 DEF ResolveCached
      <4>2. job'.epoch = disk.applied /\ job'.now = job.now
        BY <1>0, <4>1 DEF TypeOK, Jobs
      <4>3. disk.applied \in Nat
        BY <1>0, <4>1, Numbers
      <4> QED BY <4>1, <4>2, <4>3
    <3> QED BY <1>2, <3>1, <3>2
  <2>2. TickGoesOn
    BY <1>0, <1>2, <2>1 DEF ResolveFresh, ResolveCached, TickGoesOn, Gate, env, time, chain
  <2>3. EpochHolds'
    BY <2>1, <2>2 DEF TickGoesOn, EpochHolds
  <2>4. pc' = "done" => disk.ts # None /\ ~ClockSaysDue(job.now, disk.ts)
    <3> SUFFICES ASSUME PregateSkip(job.now, disk.ts)
                 PROVE  disk.ts # None /\ ~ClockSaysDue(job.now, disk.ts)
      BY <2>1 DEF Gate
    <3>1. disk.ts # None
      BY DEF PregateSkip
    <3>2. job.now \in Int /\ disk.ts \in Int
      BY <1>0, <3>1, Numbers DEF TypeInv, TickShape
    <3> QED BY <3>1, <3>2, PregateIsConservative
  <2>5. pc' = "done" => block - lastUpdate - k * lag < IntervalBlocks
    BY <1>0, <2>4, ClockIsEnough
  <2>6. pc' = "open" => pc = "fetch"
    BY <1>0
  <2> QED BY <1>0, <2>2, <2>3, <2>5, <2>6, TickKeeps
<1> QED BY <1>1, <1>2 DEF Resolve

\* A snapshot is taken; the tick ends on fresh weights only.  The owner is
\* registered, so there is a vector to submit.
LEMMA OpenKeeps ==
    ASSUME NEW k \in Nat, Steady(k), IInv, TypeInv', Punctual(k), OpenChain
    PROVE  Punctual(k)'
<1> USE ScheduleAssumption, ValidatorAssumption
<1>0. TypeInv /\ TypeOK /\ FileHolds /\ TimeHolds(k) /\ EpochHolds /\ pc = "open"
  BY DEF IInv, TypeInv, Punctual, OpenChain
<1>1. PICK b \in {block, None} :
         \/ pc' = "submit" /\ job' = [job EXCEPT !.block = b, !.sent = Target]
         \/ /\ pc' = "done" /\ UNCHANGED job
            /\ ~(/\ ShouldSubmit(job.epoch, disk.applied, b, disk.block, job.now,
                                 disk.ts)
                 /\ Target # None)
  BY DEF OpenChain, ReadBlock
<1>2. job'.now = job.now /\ job'.epoch = job.epoch
  BY <1>0, <1>1 DEF TypeOK, Jobs
<1>3. TickGoesOn
  BY <1>0, <1>1, <1>2 DEF OpenChain, TickGoesOn, env, time, chain
<1>4. EpochHolds'
  BY <1>0, <1>2, <1>3 DEF EpochHolds, TickGoesOn
<1>5. Target # None
  <2>1. Owner \in registered
    BY DEF Steady, Punctual
  <2>2. Burn # None
    OBVIOUS
  <2> QED BY <2>1, <2>2 DEF Target, StandbyVector, Lands
<1>6. ASSUME pc' = "done", lastUpdate # None, disk.cache # None
      PROVE  block - lastUpdate - k * lag < IntervalBlocks
  <2>1. /\ ~ShouldSubmit(job.epoch, disk.applied, b, disk.block, job.now, disk.ts)
    BY <1>1, <1>5, <1>6
  <2>2. disk.applied # None /\ disk.ts # None
    BY <1>0, <1>6 DEF FileHolds
  <2>3. job.epoch \in Int /\ disk.applied \in Int /\ job.epoch >= disk.applied
    BY <1>0, <2>2, Numbers DEF EpochHolds, TypeInv, TickShape, Epochs
  <2>4. job.epoch = disk.applied
    BY <2>1, <2>2, <2>3 DEF ShouldSubmit
  <2>5. CASE b = None \/ disk.block = None
    <3>1. ~ClockSaysDue(job.now, disk.ts)
      BY <2>1, <2>4, <2>5 DEF ShouldSubmit
    <3> QED BY <1>0, <2>2, <3>1, ClockIsEnough
  <2>6. CASE b # None /\ disk.block # None
    <3>1. ~(block - disk.block >= IntervalBlocks)
      BY <1>1, <2>1, <2>4, <2>6 DEF ShouldSubmit
    <3>2. disk.block <= lastUpdate
      BY <1>0, <2>6 DEF FileHolds
    <3>3. /\ block \in Nat /\ lastUpdate \in Nat /\ disk.block \in Nat
          /\ lag \in Nat
      BY <1>0, <1>6, <2>6, Numbers
    <3>4. k * lag \in Nat
      BY <3>3, Products
    <3> QED BY <3>1, <3>2, <3>3, <3>4
  <2> QED BY <2>5, <2>6
<1>7. pc' # "open"
  BY <1>1
<1> QED BY <1>0, <1>3, <1>4, <1>6, <1>7, TickKeeps

\* The chain answers.  An extrinsic it takes makes the weights fresh, whether
\* the answer arrives or not; one it refuses for its rate found them fresh.
LEMMA SubmitKeeps ==
    ASSUME NEW k \in Nat, Steady(k), IInv, TypeInv', Punctual(k), Submit
    PROVE  Punctual(k)'
<1> USE ScheduleAssumption, ValidatorAssumption
<1>0. /\ TypeInv /\ TypeOK /\ pc = "submit"
      /\ FileHolds /\ LagHolds /\ EpochHolds /\ TimeHolds(k) /\ GapHolds(k)
  BY DEF IInv, TypeInv, Punctual, Submit, SubmitAccepted, SubmitRefused, SubmitUnseen
<1>1. /\ block \in Nat /\ clock \in Nat /\ lag \in Nat /\ IntervalBlocks > 0
      /\ TickSteps \in Nat /\ Struck \in Nat /\ Lap \in Nat
      /\ job.now \in Nat
      /\ lastUpdate # None => lastUpdate \in Nat
      /\ disk.ts # None => disk.ts \in Nat
      /\ disk.block # None => disk.block \in Nat
  BY <1>0, Numbers DEF TypeInv, TickShape
<1>2. k * lag \in Nat
  BY <1>1, Products
<1>3. CASE SubmitRefused
  <2>1. TickGoesOn /\ pc' = "done" /\ EpochHolds'
    BY <1>0, <1>3 DEF SubmitRefused, TickGoesOn, env, time, chain, EpochHolds
  <2>2. ~RateOK
    BY <1>3 DEF SubmitRefused, Steady
  <2>3. lastUpdate # None => block - lastUpdate - k * lag < IntervalBlocks
    BY <1>1, <1>2, <2>2 DEF RateOK
  <2> QED BY <1>0, <2>1, <2>3, TickKeeps
<1>4. ASSUME UNCHANGED <<registered, block, clock, disk, job, lag>>,
             lastUpdate' = block,
             \/ pc' = "write" /\ budget' = budget
             \/ pc' = "done" /\ budget' = budget - 1
      PROVE  Punctual(k)'
  <2>1. Permanent \subseteq registered' /\ LagHolds'
    BY <1>0, <1>4 DEF Punctual, LagHolds
  <2>2. EpochHolds'
    BY <1>0, <1>4 DEF EpochHolds
  <2>3. FileHolds'
    <3>1. job.block # None => job.block <= block
      BY <1>0 DEF IInv, DecisionHolds
    <3>2. block # None
      BY <1>1
    <3>3. disk.block # None => disk.block <= block
      BY <1>0, <1>1 DEF FileHolds
    <3> QED BY <1>0, <1>1, <1>4, <3>1, <3>2, <3>3 DEF FileHolds
  <2>4. TimeHolds(k)'
    <3>1. job.now <= clock
      BY <1>0 DEF TimeHolds
    <3>2. (block - block) * BlockS = 0 /\ block - block = 0
      BY <1>1
    <3>3. disk.ts # None => disk.ts <= clock
      <4> SUFFICES ASSUME disk.ts # None PROVE disk.ts <= clock
        OBVIOUS
      <4>1. lastUpdate \in Nat /\ lastUpdate <= block
        BY <1>0, <1>1 DEF FileHolds
      <4>2. block - lastUpdate \in Nat
        BY <1>1, <4>1
      <4>3. (block - lastUpdate) * BlockS \in Nat
        BY <4>2
      <4>4. (block - lastUpdate) * BlockS <= clock - disk.ts
        BY <1>0 DEF TimeHolds
      <4> QED BY <1>1, <4>3, <4>4
    <3> QED BY <1>1, <1>2, <1>4, <3>1, <3>2, <3>3 DEF TimeHolds
  <2>5. GapHolds(k)'
    <3>1. CASE pc' = "write"
      BY <3>1 DEF GapHolds
    <3>2. CASE pc' = "done"
      <4>1. Struck' \in Nat
        BY <1>4, <3>2, <1>0, Numbers DEF Struck
      <4>2. Struck' * Lap \in Nat
        BY <1>1, <4>1, NatProducts
      <4>5. lag + Struck' * Lap \in Nat
        BY <1>1, <4>2
      <4>3. k * (lag + Struck' * Lap) \in Nat
        BY <4>5, Products
      <4>4. block - block <= IntervalBlocks - 1 + k * (lag + Struck' * Lap)
        BY <1>1, <4>3
      <4> QED BY <1>4, <3>2, <4>4 DEF GapHolds, Within
    <3> QED BY <1>4, <3>1, <3>2
  <2> QED BY <2>1, <2>2, <2>3, <2>4, <2>5 DEF Punctual
<1>5. CASE SubmitAccepted
  <2>1. /\ UNCHANGED <<registered, block, clock, disk, job, lag>>
        /\ lastUpdate' = block
        /\ pc' = "write" /\ budget' = budget
    BY <1>5 DEF SubmitAccepted, Land, env, time
  <2> QED BY <1>4, <2>1
<1>6. CASE SubmitUnseen
  BY <1>4, <1>6 DEF SubmitUnseen, Land, Suffer, env, time
<1> QED BY <1>3, <1>5, <1>6 DEF Submit

\* The landing is recorded: the file dates it by the clock its tick has read.
LEMMA WriteKeeps ==
    ASSUME NEW k \in Nat, IInv, TypeInv', Punctual(k), WriteState
    PROVE  Punctual(k)'
<1> USE ScheduleAssumption, ValidatorAssumption
<1>0. /\ TypeInv /\ TypeOK /\ pc = "write" /\ pc' = "done"
      /\ UNCHANGED <<registered, block, clock, lastUpdate, lag, budget>>
      /\ disk'.applied = job.epoch /\ disk'.block = job.block
      /\ disk'.ts = job.now
  BY DEF IInv, TypeInv, WriteState, env, time, chain
<1>1. /\ FileHolds /\ LagHolds /\ TimeHolds(k)
  BY DEF Punctual
<1>2. /\ job.epoch \in Epochs /\ job.now # None /\ lastUpdate # None
      /\ block - lastUpdate <= k * lag
      /\ (block - lastUpdate) * BlockS <= clock - job.now
      /\ job.block # None => job.block <= lastUpdate
      /\ lastUpdate <= block
  BY <1>0, <1>1 DEF TypeInv, TickShape, FileHolds, TimeHolds
<1>3. /\ block \in Nat /\ lag \in Nat /\ lastUpdate \in Nat
      /\ IntervalBlocks \in Nat /\ IntervalBlocks > 0
  BY <1>0, <1>2, Numbers
<1>4. job.epoch # None
  BY <1>2 DEF Epochs
<1>5. Permanent \subseteq registered' /\ LagHolds' /\ EpochHolds'
  BY <1>0, <1>1 DEF Punctual, LagHolds, EpochHolds
<1>6. FileHolds'
  BY <1>0, <1>2, <1>4 DEF FileHolds
<1>7. TimeHolds(k)'
  BY <1>0, <1>2 DEF TimeHolds
<1>8. GapHolds(k)'
  <2>1. k * lag \in Nat
    BY <1>3, Products
  <2>2. block - lastUpdate - k * lag < IntervalBlocks
    BY <1>2, <1>3, <2>1
  <2>3. Within(k, lag)
    BY <1>0, <1>2, <1>3, <2>2, FreshWithin
  <2> QED BY <1>0, <2>3 DEF GapHolds, Within, Struck
<1> QED BY <1>5, <1>6, <1>7, <1>8 DEF Punctual

\* The tick ends.
LEMMA EmitKeeps ==
    ASSUME NEW k \in Nat, TypeInv, Punctual(k), Emit
    PROVE  Punctual(k)'
<1> USE ScheduleAssumption, ValidatorAssumption
<1>0. /\ TypeOK /\ pc = "done" /\ pc' = "idle" /\ lag' = 0
      /\ UNCHANGED <<registered, block, clock, lastUpdate, disk, budget>>
  BY DEF TypeInv, Emit, env, time, chain
<1>1. FileHolds /\ LagHolds /\ TimeHolds(k) /\ GapHolds(k)
  BY DEF Punctual
<1>2. lag \in Nat /\ TickSteps \in Nat /\ lag <= TickSteps
  BY <1>0, <1>1, Numbers DEF LagHolds
<1>3. Permanent \subseteq registered' /\ FileHolds' /\ LagHolds' /\ EpochHolds'
  BY <1>0, <1>1 DEF Punctual, FileHolds, LagHolds, EpochHolds
<1>4. TimeHolds(k)'
  BY <1>0, <1>1 DEF TimeHolds
<1>5. GapHolds(k)'
  <2> SUFFICES ASSUME lastUpdate # None, disk.cache # None
               PROVE  Within(k, TickSteps)
    <3>1. TickSteps + lag' = TickSteps
      BY <1>0, <1>2
    <3> QED BY <1>0, <3>1 DEF GapHolds, Within, Struck
  <2>1. Within(k, lag)
    BY <1>0, <1>1 DEF GapHolds
  <2> QED BY <1>0, <1>2, <2>1, WithinGrows
<1> QED BY <1>3, <1>4, <1>5 DEF Punctual

\* The process dies, or cannot write its record down: what the tick was about to
\* refresh waits for another tick, and the fault pays for the lap.
LEMMA FaultKeeps ==
    ASSUME NEW k \in Nat, TypeInv, Punctual(k), Crash \/ WriteFails
    PROVE  Punctual(k)'
<1> USE ScheduleAssumption, ValidatorAssumption
<1>0. /\ TypeOK /\ budget' = budget - 1
      /\ UNCHANGED <<registered, block, clock, lastUpdate, disk>>
      /\ \/ pc # "down" /\ pc' = "down" /\ lag' = 0
         \/ pc = "write" /\ pc' = "done" /\ lag' = lag
  BY DEF TypeInv, Crash, WriteFails, Suffer, env, time, chain
<1>1. FileHolds /\ LagHolds /\ TimeHolds(k) /\ GapHolds(k)
  BY DEF Punctual
<1>2. /\ lag \in Nat /\ TickSteps \in Nat /\ SleepSteps \in Nat /\ block \in Nat
      /\ Lap = TickSteps + 2 * SleepSteps
      /\ lag <= IF pc \in {"idle", "down"} THEN SleepSteps ELSE TickSteps
  BY <1>0, <1>1, Numbers DEF LagHolds, Lap
<1>3. /\ Permanent \subseteq registered' /\ LagHolds' /\ EpochHolds'
  BY <1>0, <1>1, <1>2 DEF Punctual, LagHolds, EpochHolds
<1>4. FileHolds'
  BY <1>0, <1>1 DEF FileHolds
<1>5. TimeHolds(k)'
  BY <1>0, <1>1 DEF TimeHolds
<1>6. ASSUME lastUpdate # None, disk.cache # None
      PROVE  Within(k, 2 * TickSteps + SleepSteps)
  <2> DEFINE most == 2 * TickSteps + SleepSteps
  <2>1. PICK n \in Int : (n <= most /\ Within(k, n)) \/ pc = "down"
    <3>1. CASE pc = "done"
      BY <1>1, <1>2, <1>6, <3>1 DEF GapHolds
    <3>2. CASE pc = "idle"
      BY <1>1, <1>2, <1>6, <3>2 DEF GapHolds
    <3>3. CASE pc \in {"fetch", "open", "submit"}
      <4>1. Within(k, TickSteps + SleepSteps + lag)
        BY <1>1, <1>6, <3>3 DEF GapHolds
      <4>2. TickSteps + SleepSteps + lag <= most
        BY <1>2, <3>3
      <4> QED BY <1>2, <4>1, <4>2
    <3>4. CASE pc = "write"
      <4>1. block - lastUpdate <= k * lag
        BY <1>1, <3>4 DEF TimeHolds
      <4>2. lastUpdate \in Nat /\ k * lag \in Nat /\ IntervalBlocks > 0
        BY <1>0, <1>2, <1>6, Numbers, Products
      <4>3. block - lastUpdate - k * lag < IntervalBlocks
        BY <1>2, <4>1, <4>2
      <4>4. Within(k, lag)
        BY <1>0, <1>2, <1>6, <4>3, FreshWithin
      <4>5. lag <= most
        BY <1>2, <3>4
      <4> QED BY <1>2, <4>4, <4>5
    <3> QED BY <1>0, <3>1, <3>2, <3>3, <3>4 DEF TypeOK
  <2>2. pc # "down"
    BY <1>0
  <2>3. most \in Int
    BY <1>2
  <2> HIDE DEF most
  <2>4. Within(k, most)
    BY <1>0, <1>6, <2>1, <2>2, <2>3, WithinGrows
  <2> QED BY <2>4 DEF most
<1>7. GapHolds(k)'
  <2> SUFFICES ASSUME lastUpdate # None, disk.cache # None
               PROVE  GapHolds(k)'
    BY <1>0 DEF GapHolds
  <2>1. CASE pc' = "down"
    <3>1. block' - lastUpdate' <= IntervalBlocks - 1
              + k * (2 * TickSteps + SleepSteps - Lap + Struck' * Lap)
      BY <1>0, <1>2, <1>6, WithinFault
    <3>2. 2 * TickSteps + SleepSteps - Lap = TickSteps + lag' - SleepSteps
      BY <1>0, <1>2, <2>1
    <3> QED BY <2>1, <3>1, <3>2 DEF GapHolds, Within
  <2>2. CASE pc' = "done"
    <3>1. block - lastUpdate <= k * lag
      BY <1>0, <1>1, <2>2 DEF TimeHolds
    <3>2. Struck' \in Nat /\ Lap \in Nat /\ IntervalBlocks > 0 /\ lastUpdate \in Nat
      BY <1>0, Numbers DEF Struck
    <3>3. lag + Struck' * Lap \in Nat /\ lag <= lag + Struck' * Lap
      <4>1. Struck' * Lap \in Nat
        BY <3>2, NatProducts
      <4> QED BY <1>2, <4>1
    <3>4. /\ k * lag <= k * (lag + Struck' * Lap)
          /\ k * lag \in Nat /\ k * (lag + Struck' * Lap) \in Nat
      BY <1>2, <3>3, Products
    <3>5. block - lastUpdate <= IntervalBlocks - 1 + k * (lag + Struck' * Lap)
      <4> DEFINE kl == k * lag
                 km == k * (lag + Struck' * Lap)
      <4>1. block - lastUpdate <= kl /\ kl <= km /\ kl \in Nat /\ km \in Nat
        BY <3>1, <3>4
      <4>2. block \in Nat /\ lastUpdate \in Nat /\ IntervalBlocks \in Nat \ {0}
        BY <1>2, <3>2
      <4> HIDE DEF kl, km
      <4>3. block - lastUpdate <= IntervalBlocks - 1 + km
        BY <4>1, <4>2
      <4> QED BY <4>3 DEF km
    <3>6. lag' = lag
      BY <1>0, <2>2
    <3> QED BY <1>0, <2>2, <3>5, <3>6 DEF GapHolds, Within
  <2> QED BY <1>0, <2>1, <2>2
<1> QED BY <1>3, <1>4, <1>5, <1>7 DEF Punctual

\* Every step keeps the weights as young as they have to be.
LEMMA PunctualStep ==
    ASSUME NEW k \in Nat, Steady(k)
    PROVE  IInv /\ Punctual(k) /\ [Next]_vars => Punctual(k)'
<1> SUFFICES ASSUME IInv, Punctual(k), [Next]_vars
             PROVE  Punctual(k)'
  OBVIOUS
<1>0. TypeInv /\ TypeInv' /\ TypeOK /\ TypeOK'
  BY TypeStep DEF IInv, TypeInv
<1>1. CASE Finalize \/ Churn \/ UNCHANGED vars
  <2>1. finalized \in Int
    BY <1>0 DEF TypeOK
  <2>2. Aside
    BY <1>1, <2>1 DEF Finalize, Churn, vars, env, time, chain, Aside
  <2> QED BY <2>2, AsideKeeps
<1>2. CASE Advance BY <1>0, <1>2, AdvanceKeeps
<1>3. CASE Crash \/ WriteFails BY <1>0, <1>3, FaultKeeps
<1>4. CASE Restart \/ TickStart BY <1>0, <1>4, WakeKeeps
<1>5. CASE Resolve BY <1>0, <1>5, ResolveKeeps
<1>6. CASE OpenChain BY <1>0, <1>6, OpenKeeps
<1>7. CASE Submit BY <1>0, <1>7, SubmitKeeps
<1>8. CASE WriteState BY <1>0, <1>8, WriteKeeps
<1>9. CASE Emit BY <1>0, <1>9, EmitKeeps
<1>10. ~LoseField /\ ~OpenFails
  BY DEF Steady, LoseField, Suffer, OpenFails
<1> QED
  BY <1>1, <1>2, <1>3, <1>4, <1>5, <1>6, <1>7, <1>8, <1>9, <1>10
     DEF Next, Environment, Tick

\* Under k the bound is an activity cutoff.
LEMMA PunctualIsActive ==
    ASSUME NEW k \in Nat,
           ActivityCutoff >=
               IntervalBlocks - 1 + k * (2 * TickSteps + SleepSteps + Budget * Lap)
    PROVE  IInv /\ Punctual(k) => StaysActive
<1> USE ScheduleAssumption, ValidatorAssumption
<1> SUFFICES ASSUME IInv, Punctual(k), lastUpdate # None, disk.cache # None
             PROVE  block - lastUpdate <= ActivityCutoff
  BY DEF StaysActive
<1> DEFINE most == 2 * TickSteps + SleepSteps
<1>0. TypeOK /\ LagHolds /\ TimeHolds(k) /\ GapHolds(k)
  BY DEF IInv, TypeInv, Punctual
<1>1. /\ lag \in Nat /\ TickSteps \in Nat /\ SleepSteps \in Nat /\ Lap \in Nat
      /\ block \in Nat /\ lastUpdate \in Nat /\ IntervalBlocks \in Nat \ {0}
      /\ Struck \in Nat /\ Budget \in Nat /\ Struck <= Budget /\ most \in Nat
      /\ lag <= IF pc \in {"idle", "down"} THEN SleepSteps ELSE TickSteps
  BY <1>0, Numbers DEF LagHolds
<1>2. PICK n \in Int : n <= most /\ Within(k, n)
  <2>1. CASE pc = "done"
    BY <1>0, <1>1, <2>1 DEF GapHolds
  <2>2. CASE pc = "idle"
    BY <1>0, <1>1, <2>2 DEF GapHolds
  <2>3. CASE pc \in {"fetch", "open", "submit"}
    <3>1. Within(k, TickSteps + SleepSteps + lag)
      BY <1>0, <2>3 DEF GapHolds
    <3>2. TickSteps + SleepSteps + lag <= most
      BY <1>1, <2>3
    <3> QED BY <1>1, <3>1, <3>2
  <2>4. CASE pc = "write"
    <3>1. block - lastUpdate <= k * lag /\ k * lag \in Nat
      BY <1>0, <1>1, <2>4, Products DEF TimeHolds
    <3>2. block - lastUpdate - k * lag < IntervalBlocks
      BY <1>1, <3>1
    <3>3. Within(k, lag)
      BY <1>0, <1>1, <3>2, FreshWithin
    <3> QED BY <1>1, <2>4, <3>3
  <2>5. CASE pc = "down"
    <3>1. Within(k, TickSteps + lag - SleepSteps)
      BY <1>0, <2>5 DEF GapHolds
    <3>2. TickSteps + lag - SleepSteps <= most
      BY <1>1, <2>5
    <3> QED BY <1>1, <3>1, <3>2
  <2> QED BY <1>0, <2>1, <2>2, <2>3, <2>4, <2>5 DEF TypeOK
<1>3. Struck * Lap <= Budget * Lap /\ Struck * Lap \in Nat /\ Budget * Lap \in Nat
  <2>1. Lap * Struck <= Lap * Budget /\ Lap * Struck \in Nat /\ Lap * Budget \in Nat
    BY <1>1, Products
  <2>2. Lap * Struck = Struck * Lap /\ Lap * Budget = Budget * Lap
    BY <1>1, Products
  <2> QED BY <2>1, <2>2
<1> DEFINE used == n + Struck * Lap
           allowed == most + Budget * Lap
<1>4. used \in Int /\ allowed \in Int /\ used <= allowed
  BY <1>1, <1>2, <1>3
<1>5. block - lastUpdate <= IntervalBlocks - 1 + k * used
  BY <1>2 DEF Within
<1>6. ActivityCutoff >= IntervalBlocks - 1 + k * allowed
  OBVIOUS
<1> HIDE DEF used, allowed
<1>7. k * used <= k * allowed /\ k * used \in Int /\ k * allowed \in Int
  BY <1>4, Products
<1> QED BY <1>1, <1>5, <1>6, <1>7

\* A validator with a cache is never silent for longer than the chain's activity
\* cutoff, whatever the provider does, however the block RPC fails, and with as
\* many crashes, lost replies and failed writes as the budget holds: an interval,
\* two ticks and a sleep, and for each fault another tick and two sleeps.
THEOREM StaysActiveAlways ==
    ASSUME NEW k \in Nat, Steady(k),
           ActivityCutoff >=
               IntervalBlocks - 1 + k * (2 * TickSteps + SleepSteps + Budget * Lap)
    PROVE  Spec => []StaysActive
<1>1. Init => Punctual(k)
  BY PunctualInit
<1>2. IInv /\ Punctual(k) /\ [Next]_vars => Punctual(k)'
  BY PunctualStep
<1>3. IInv /\ Punctual(k) => StaysActive
  BY PunctualIsActive
<1> QED BY <1>1, <1>2, <1>3, Safe, PTL DEF Spec

=============================================================================
