----------------------------- MODULE Validator -----------------------------
(***************************************************************************)
(* The light validator's submit loop (validator/validator.py with state.py *)
(* and chain.py's set_weights), the provider it polls and the chain it     *)
(* writes to.                                                              *)
(*                                                                         *)
(* One tick is several steps, because blocks are produced, epochs are      *)
(* finalized, miners come and go and the process may die between them:     *)
(*                                                                         *)
(*   TickStart -> Resolve... -> Open... -> Submit... -> Write... -> Emit   *)
(*                                                                         *)
(* A vector is named by the epoch whose signed result it is, and Rows[e]   *)
(* are its rows; Burn names the vector [[owner, U16]].  The state file has *)
(* one writer, so the copy a tick reads at its start equals the file until *)
(* the tick writes.                                                        *)
(***************************************************************************)
EXTENDS Schedule, Uids

CONSTANTS
    Owner,          \* EXPECTED_OWNER_HOTKEY
    Burn,           \* the name of the burn vector
    MaxEpoch,       \* bound: epochs the master finalizes
    Rows,           \* epoch -> the rows of its result
    RateLimit,      \* the chain's weights_rate_limit
    ActivityCutoff, \* the chain's activity_cutoff, scaled
    Permanent,      \* hotkeys that never deregister
    Pace,           \* <<blocks, seconds>> that may pass in one step
    MaxBlock,       \* bound: last block
    MaxClock,       \* bound: last second
    Faults,         \* which faults the environment may inject
    Budget,         \* bound: how many faults that lose work
    Timed,          \* TRUE: ticks and sleeps are bounded as follows
    TickSteps,      \* time steps a tick may take
    SleepSteps      \* time steps between ticks (poll_s), or down

Epochs == 1..MaxEpoch
Vectors == Epochs \cup {Burn}

FaultKinds == {"outage",    \* fetch fails or the payload is rejected
               "replay",    \* an older, genuinely signed payload is served
               "open",      \* the metagraph cannot be read
               "noblock",   \* the block RPC fails
               "refuse",    \* the extrinsic is rejected, or an exception
               "unseen",    \* the extrinsic lands, the call reports failure
               "write",     \* write_state raises
               "crash",     \* the process dies
               "lose"}      \* a field of the state file is lost or poisoned

ASSUME ValidatorAssumption ==
    /\ Owner \in Hotkeys
    /\ MaxEpoch \in Nat
    /\ Burn \notin Int /\ Burn # None
    /\ Rows \in [Epochs -> WeightVectors]
    /\ RateLimit \in Nat /\ RateLimit <= IntervalBlocks
    /\ ActivityCutoff \in Nat
    /\ Permanent \subseteq Hotkeys
    /\ Pace \subseteq Nat \X Int
    /\ MaxBlock \in Nat /\ MaxClock \in Nat
    /\ Faults \subseteq FaultKinds
    /\ Budget \in Nat
    /\ Timed \in BOOLEAN
    /\ TickSteps \in Nat /\ SleepSteps \in Nat

VARIABLES
    finalized,  \* latest epoch the master has signed, 0 before the first
    registered, \* the metagraph's hotkeys
    block,      \* the chain's head
    clock,      \* time.time()
    onchain,    \* this validator's weights: [epoch, what], None before any
    lastUpdate, \* block of the last accepted extrinsic
    disk,       \* the state file
    pc,         \* where the process is
    job,        \* the tick's locals
    claim,      \* last consensus pair posted to the provider
    lag,        \* time steps since the tick, or the sleep, began
    budget,     \* work-losing faults left
    behind,     \* history: the file has missed a landing or lost its epoch
    landed      \* history: every <<epoch, what>> that landed

env == <<finalized, registered>>
time == <<block, clock>>
chain == <<onchain, lastUpdate, landed>>
vars == <<env, time, chain, disk, pc, job, claim, lag, budget, behind>>

Blocks == 0..MaxBlock
Opt(S) == S \cup {None}
DiskFields == {"applied", "block", "ts", "cache", "digest"}

NoJob == [now |-> None, epoch |-> None, what |-> None, digest |-> None,
          cached |-> FALSE, block |-> None, sent |-> None]

Weights == [epoch : Opt(Epochs), what : Opt(Vectors)]
Disks == [applied : Opt(Epochs), block : Opt(Blocks), ts : Opt(0..MaxClock),
          cache : Opt(Epochs), digest : Opt(Epochs)]
Jobs == [now : Opt(0..MaxClock), epoch : Opt(Epochs), what : Opt(Epochs),
         digest : Opt(Epochs), cached : BOOLEAN, block : Opt(Blocks),
         sent : Opt(Vectors)]

TypeOK ==
    /\ finalized \in 0..MaxEpoch
    /\ registered \subseteq Hotkeys
    /\ block \in Blocks
    /\ clock \in 0..MaxClock
    /\ onchain \in Weights
    /\ lastUpdate \in Opt(Blocks)
    /\ disk \in Disks
    /\ pc \in {"down", "idle", "fetch", "open", "submit", "write", "done"}
    /\ job \in Jobs
    /\ claim \in Opt(Epochs \X Epochs)
    /\ lag \in Nat
    /\ budget \in 0..Budget
    /\ behind \in BOOLEAN
    /\ landed \subseteq Epochs \X Vectors

Init ==
    /\ finalized = 0
    /\ registered \in {R \in SUBSET Hotkeys : Permanent \subseteq R}
    /\ block = 0
    /\ clock = 0
    /\ onchain = [epoch |-> None, what |-> None]
    /\ lastUpdate = None
    /\ disk = [f \in DiskFields |-> None]
    /\ pc = "idle"
    /\ job = NoJob
    /\ claim = None
    /\ lag = 0
    /\ budget = Budget
    /\ behind = FALSE
    /\ landed = {}

-----------------------------------------------------------------------------
(* The environment: the provider, the chain, time and failures.            *)

\* The master finalizes and signs the next epoch's result.
Finalize ==
    /\ finalized < MaxEpoch
    /\ finalized' = finalized + 1
    /\ UNCHANGED <<registered, time, chain, disk, pc, job, claim, lag, budget,
                   behind>>

\* Miners register and deregister.
Churn ==
    /\ \E R \in SUBSET Hotkeys :
          /\ Permanent \subseteq R
          /\ registered' = R
    /\ UNCHANGED <<finalized, time, chain, disk, pc, job, claim, lag, budget,
                   behind>>

\* Blocks are produced and seconds pass; the wall clock may be stepped back.
Advance ==
    /\ Timed => lag < (IF pc \in {"idle", "down"} THEN SleepSteps ELSE TickSteps)
    /\ \E p \in Pace :
          /\ block + p[1] \in Blocks
          /\ clock + p[2] \in 0..MaxClock
          /\ block' = block + p[1]
          /\ clock' = clock + p[2]
    /\ lag' = IF Timed THEN lag + 1 ELSE lag
    /\ UNCHANGED <<env, chain, disk, pc, job, claim, budget, behind>>

\* A fault that loses work and draws on the budget.
Suffer(kind) ==
    /\ kind \in Faults
    /\ budget > 0
    /\ budget' = budget - 1

\* The process dies: everything but the file is gone.
Crash ==
    /\ Suffer("crash")
    /\ pc # "down"
    /\ pc' = "down"
    /\ job' = NoJob
    /\ lag' = 0
    /\ behind' = (behind \/ pc = "write")
    /\ UNCHANGED <<env, time, chain, disk, claim>>

\* restart: unless-stopped.
Restart ==
    /\ pc = "down"
    /\ pc' = "idle"
    /\ lag' = 0
    /\ UNCHANGED <<env, time, chain, disk, job, claim, budget, behind>>

\* Each field of the file validates on its own; a poisoned one reads None.
LoseField ==
    /\ Suffer("lose")
    /\ pc \in {"idle", "down"}
    /\ \E f \in DiskFields :
          /\ disk' = [disk EXCEPT ![f] = None]
          /\ behind' = (behind \/ f = "applied")
    /\ UNCHANGED <<env, time, chain, pc, job, claim, lag>>

-----------------------------------------------------------------------------
(* A tick.                                                                 *)

\* main() calls tick with the current time; the state file is read.
TickStart ==
    /\ pc = "idle"
    /\ pc' = "fetch"
    /\ job' = [NoJob EXCEPT !.now = clock]
    /\ lag' = 0
    /\ UNCHANGED <<env, time, chain, disk, claim, budget, behind>>

\* After the vector is chosen: the pregate may end the tick without a
\* connection, but never for an epoch newer than the one applied.
Gate(epoch) ==
    LET isNew == disk.applied = None \/ epoch > disk.applied
    IN  IF ~isNew /\ PregateSkip(job.now, disk.ts) THEN "done" ELSE "open"

\* The provider's answer verifies: the payload is some result the master
\* signed - the latest, or an older one replayed.
ResolveFresh ==
    /\ pc = "fetch"
    /\ \E e \in 1..finalized :
          /\ e = finalized \/ "replay" \in Faults
          /\ job' = [job EXCEPT !.epoch = e, !.what = e, !.digest = e]
          /\ pc' = Gate(e)
    /\ UNCHANGED <<env, time, chain, disk, claim, lag, budget, behind>>

NoPayload == finalized = 0 \/ "outage" \in Faults

\* No usable payload: the cached vector, under the epoch applied.
ResolveCached ==
    /\ pc = "fetch"
    /\ NoPayload
    /\ disk.cache # None
    /\ disk.applied # None
    /\ job' = [job EXCEPT !.epoch = disk.applied, !.what = disk.cache,
                          !.digest = disk.digest, !.cached = TRUE]
    /\ pc' = Gate(disk.applied)
    /\ UNCHANGED <<env, time, chain, disk, claim, lag, budget, behind>>

\* No usable payload and no cache: fetch-failed, rejected:...
ResolveNothing ==
    /\ pc = "fetch"
    /\ NoPayload
    /\ disk.cache = None \/ disk.applied = None
    /\ pc' = "done"
    /\ UNCHANGED <<env, time, chain, disk, job, claim, lag, budget, behind>>

OpenFails ==
    /\ "open" \in Faults
    /\ pc = "open"
    /\ pc' = "done"
    /\ UNCHANGED <<env, time, chain, disk, job, claim, lag, budget, behind>>

\* Whether a vector would put any non-zero weight on chain.
Lands(w) == w # None /\ Total(resolve_uids(Rows[w], registered)) > 0

\* _standby_vector: the cache, else a burn, else nothing.
StandbyVector ==
    IF ~job.cached /\ Lands(disk.cache) THEN disk.cache
    ELSE IF Owner \in registered THEN Burn
    ELSE None

\* The rows of what is submitted.
RowsOf(w) == IF w = Burn THEN <<<<Owner, U16>>>> ELSE Rows[w]

\* The vector submitted under the snapshot just taken.
Target == IF Lands(job.what) THEN job.what ELSE StandbyVector

\* What _read_block may give: the head, or None when the call fails.
ReadBlock == {block} \cup (IF "noblock" \in Faults THEN {None} ELSE {})

\* open_chain's snapshot and everything decided from it.
OpenChain ==
    /\ pc = "open"
    /\ \E b \in ReadBlock :
         LET due == ShouldSubmit(job.epoch, disk.applied, b, disk.block,
                                 job.now, disk.ts)
         IN  IF due /\ Target # None
             THEN /\ pc' = "submit"
                  /\ job' = [job EXCEPT !.block = b, !.sent = Target]
             ELSE /\ pc' = "done"
                  /\ UNCHANGED job
    /\ UNCHANGED <<env, time, chain, disk, claim, lag, budget, behind>>

\* The chain's own rule.
RateOK == lastUpdate # None => block - lastUpdate >= RateLimit

Land ==
    /\ RateOK
    /\ onchain' = [epoch |-> job.epoch, what |-> job.sent]
    /\ lastUpdate' = block
    /\ landed' = landed \cup {<<job.epoch, job.sent>>}

SubmitAccepted ==
    /\ pc = "submit"
    /\ Land
    /\ pc' = "write"
    /\ UNCHANGED <<env, time, disk, job, claim, lag, budget, behind>>

\* Mutant: the response of a failed extrinsic is truthy.
RefusedCountsAsLanded ==
    /\ pc = "submit"
    /\ ~RateOK \/ "refuse" \in Faults
    /\ pc' = "write"
    /\ UNCHANGED <<env, time, chain, disk, job, claim, lag, budget, behind>>

SubmitRefused ==
    /\ pc = "submit"
    /\ ~RateOK \/ "refuse" \in Faults
    /\ pc' = "done"
    /\ UNCHANGED <<env, time, chain, disk, job, claim, lag, budget, behind>>

\* The extrinsic is included but the call raises while waiting for it.
SubmitUnseen ==
    /\ Suffer("unseen")
    /\ pc = "submit"
    /\ Land
    /\ pc' = "done"
    /\ behind' = TRUE
    /\ UNCHANGED <<env, time, disk, job, claim, lag>>

\* Mutant: the payload is recorded although a standby was sent.
WriteStateOfPayload ==
    /\ pc = "write"
    /\ disk' = [applied |-> job.epoch, block |-> job.block, ts |-> job.now,
                cache |-> job.what, digest |-> job.digest]
    /\ pc' = "done"
    /\ behind' = FALSE
    /\ UNCHANGED <<env, time, chain, job, claim, lag, budget>>

\* Mutant: a standby is not recorded as applied.
WriteStateButStandby ==
    /\ pc = "write"
    /\ disk' = IF job.sent # job.what THEN disk
               ELSE [applied |-> job.epoch, block |-> job.block,
                     ts |-> job.now, cache |-> job.what, digest |-> job.digest]
    /\ pc' = "done"
    /\ behind' = FALSE
    /\ UNCHANGED <<env, time, chain, job, claim, lag, budget>>

\* A standby submission advances the anchor and keeps the cache.  (The
\* vector sent differs from the one resolved exactly when it is a standby.)
WriteState ==
    /\ pc = "write"
    /\ LET standby == job.sent # job.what
       IN  disk' = [applied |-> job.epoch,
                    block   |-> job.block,
                    ts      |-> job.now,
                    cache   |-> IF standby THEN disk.cache ELSE job.what,
                    digest  |-> IF standby THEN disk.digest ELSE job.digest]
    /\ pc' = "done"
    /\ behind' = FALSE
    /\ UNCHANGED <<env, time, chain, job, claim, lag, budget>>

\* write_state raises before os.replace: main logs a tick error.
WriteFails ==
    /\ Suffer("write")
    /\ pc = "write"
    /\ pc' = "done"
    /\ behind' = TRUE
    /\ UNCHANGED <<env, time, chain, disk, job, claim, lag>>

\* build_body: the consensus pair is attached only when both are known.
ConsensusPair ==
    IF disk.applied # None /\ disk.digest # None
    THEN <<disk.applied, disk.digest>> ELSE None

\* emit_provider_heartbeat, from the file as it is after the tick.
Emit ==
    /\ pc = "done"
    /\ pc' = "idle"
    /\ claim' = ConsensusPair
    /\ job' = NoJob
    /\ lag' = 0
    /\ UNCHANGED <<env, time, chain, disk, budget, behind>>

-----------------------------------------------------------------------------
Environment == Finalize \/ Churn \/ Advance \/ Crash \/ Restart \/ LoseField

Resolve == ResolveFresh \/ ResolveCached \/ ResolveNothing
Submit == SubmitAccepted \/ SubmitRefused \/ SubmitUnseen

Tick ==
    \/ TickStart
    \/ Resolve
    \/ OpenFails
    \/ OpenChain
    \/ Submit
    \/ WriteState
    \/ WriteFails
    \/ Emit

Next == Environment \/ Tick

Spec == Init /\ [][Next]_vars

-----------------------------------------------------------------------------
(* What the loop promises.                                                 *)

\* Outside the window between a landing and write_state, the file says what is
\* on chain - unless a crash, a lost reply or a failed write has come between
\* them (behind): the epoch is the recorded one, and the vector is the cached
\* one or the burn that replaced it, so what an outage falls back to is the
\* last one scored.
RecordMatchesChain ==
    (~behind /\ pc # "write") =>
        /\ disk.applied = onchain.epoch
        /\ disk.cache # None => onchain.what \in {disk.cache, Burn}

\* The cached vector and its digest are of the same result, and that result
\* was on chain at some time: neither a burn, nor an unlandable result, nor
\* half of a pair is ever kept (write_state's four fields move together).
CacheWasLanded ==
    disk.cache # None =>
        /\ \E e \in Epochs : <<e, disk.cache>> \in landed
        /\ disk.digest \in {None, disk.cache}

\* A digest posted to the provider is of a result that did land, under an
\* epoch this validator did submit (emit_provider_heartbeat).
ClaimWasLanded ==
    claim # None =>
        /\ \E e \in Epochs : <<e, claim[2]>> \in landed
        /\ \E w \in Vectors : <<claim[1], w>> \in landed

\* Whatever crashes, what the validator keeps to fall back on and what it tells
\* the provider did land.
KeptAndClaimedLanded == CacheWasLanded /\ ClaimWasLanded

\* The resubmit interval clears the chain's rate limit: a resubmission
\* decided on block numbers is never refused for coming too soon, as long as
\* the previous extrinsic was included within IntervalBlocks - RateLimit
\* blocks of its anchor (the margin schedule.py reserves).
ResubmitClearsRateLimit ==
    ( /\ pc = "submit"
      /\ job.epoch = disk.applied
      /\ job.block # None
      /\ disk.block # None
      /\ lastUpdate # None
      /\ lastUpdate - disk.block <= IntervalBlocks - RateLimit ) => RateOK

\* A validator that has a cache is never so long without an extrinsic that
\* the chain counts it inactive, whatever the provider does.
StaysActive ==
    (lastUpdate # None /\ disk.cache # None) =>
        block - lastUpdate <= ActivityCutoff

\* Weights on chain never go back to an older epoch's while the record is
\* intact: the replay guard of should_submit.
NeverOlder ==
    [][(onchain' # onchain /\ ~behind /\ onchain.epoch # None)
          => onchain'.epoch >= onchain.epoch]_vars

\* What is submitted, be it the payload's vector, the cache or a burn, makes up
\* the whole of the weight among the hotkeys of the snapshot: whoever left and
\* whatever is rounded, no extrinsic pays nobody or less than everything.
SubmitsWhole ==
    [][(pc = "open" /\ pc' = "submit")
          => Total(resolve_uids(RowsOf(job'.sent), registered)) = U16]_vars

\* A submission from the cache changes the weights on chain only when a burn
\* had replaced them or a landing went unrecorded.
FallbackReplacesOnlyBurns ==
    [][(onchain' # onchain /\ job.cached /\ ~behind)
          => onchain'.what = Burn \/ onchain.what \in {onchain'.what, Burn}]_vars

\* A consensus claim is for exactly a pair submitted: after a standby there
\* is no digest to reconcile.
ClaimIsForSubmission ==
    claim # None => claim \in landed

\* The record as it will be once a landing is written down.
LedgerRecord ==
    IF pc = "write"
    THEN [applied |-> job.epoch,
          cache   |-> IF job.sent # job.what THEN disk.cache ELSE job.what]
    ELSE [applied |-> disk.applied, cache |-> disk.cache]

L == INSTANCE CrashLedger WITH
        signed <- finalized,
        record <- LedgerRecord,
        file   <- [applied |-> disk.applied, cache |-> disk.cache],
        left   <- budget

\* Whatever the provider, the chain connection and the clock do, the loop is
\* the Ledger: submit-and-record in one step, never an older epoch, and only
\* scored vectors kept - as long as no fault comes between the two halves.
ImplementsLedger == L!LedgerSpec

\* With faults too, the file is behind by no more than one submission for each
\* landing nobody saw, write that failed and crash between the two halves; and
\* what is then decided from it is what the Ledger would decide.
ImplementsCrashLedger == L!CrashSpec

=============================================================================
