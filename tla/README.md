# engy: a formal model of the SN53 validator and its miners

TLA+ modules, TLC runs and TLAPS proofs about the three programs of this
repository that keep state and run unattended: the light validator
(`validator/`), the TEE miner (`miner/tee_miner.py`) and the reference miner
(`miner/engy_miner.py`). Line numbers below are
those of the commit the project was written for; `PROJECT.json` maps every
definition to its lines.

## 1. The system

### Components

| component | code | state | operations |
|---|---|---|---|
| submit loop | `validator/validator.py`, `schedule.py`, `state.py` | state file (`last_applied`, `last_submit_block`, `last_submit_ts`, `cached_weights`, `cached_digest`), a tick's locals | `tick` = read state, resolve a vector, pregate, open the chain, decide, submit, write state; then the provider heartbeat |
| chain client | `chain.py` | one held connection | `open_chain`, `resolve_uids`, `set_weights` |
| payload verification | `sync.py` | none | `fetch_weights`, `verify_payload` |
| provider heartbeat | `heartbeat.py` | none | `build_body`, `signed_headers`, `post_heartbeat` |
| liveness | `validator.py` "Liveness" | `heartbeat.json` | stamp after a tick, watchdog thread, `healthcheck` |
| health gate | `tee_miner.py` `Serve.probe`, `scheduler_alive`, `_HealthGate` | two streaks, a stall clock, `down` | `update` |
| supervisor | `_supervise`, `_fetch_worker_count`, `_split_capacity` | leg tasks by worker index, `cur_n`, `fetched` | withdraw, come back, add and drop legs |
| doors | `Doors`, `_leg` | failures, bench and its length per door | `homes`, `pick`, `opened`, `failed` |
| leg | `_session`, `_serve_one`, `_LegRotation`, `_retire` | a socket, `serving`, the rotation | SERVE, CANCEL, RECONNECT, DENY; rotate; drain |
| load | `Load`, `_heartbeat` | `inflight`, the attached sockets | `start`, `done`, `broadcast` |
| serve pool | `Serve._pick`, `_release`, `complete`, `stream`, `probe` | connections per url, the down-set | route, release, probe |
| KV reports, request translation, dialects | `tee_miner.py` | a cache of pool sizes | pure functions on JSON and metrics |
| reference miner: requests | `engy_miner.py` `_run`, `_serve`, `_on_cancel`, `_process`, `_gen_once`, `_abort_rids` | jobs by corr id, their flags and registered calls, in-flight per serve, a queue per request | SERVE, CANCEL; generate, stream, answer; abort |
| reference miner: chunks | `_generate_chunked`, `_fin_rows` | tokens, rows and folded prompt of a generation | extend by a chunk |
| reference miner: tool-call parser, proofs, legs | `_QwenStream`, `_assemble_message`, `_build_commitment`, `_leg` | buffers of one request | text and bytes |
| import hook, configuration, containers, specs | `sitecustomize.py`, `docker/`, `specs/` | none | start-up only |

### How they interact

The provider serves results the master signs, one per epoch. The validator
polls it, verifies, and submits the vector through the chain client; what it
submitted goes to the state file, and from there to the provider's heartbeat. A
second thread reads `heartbeat.json` and exits the process if no tick has
stamped it for three polls; the container starts it again. Both files are on a
volume and outlive the process.

The miner is one event loop. `_supervise` probes the serves, folds the outcome
into the health gate, and either cancels every leg or makes the legs match the
gateway's worker count. Each leg dials a door (shared `Doors`), runs a session on
the socket, and starts one task per request; the tasks share `Load` and `Serve`.
A session ends by the network, a DENY, its own rotation or a RECONNECT; in the last
case `_retire` keeps the socket while the leg dials again.

The reference miner is an event loop and two pools of threads. `_serve` registers a
job, queues `_process` on the generation pool and waits on a queue; the thread
picks a serve, makes one call per `GEN_CHUNK` tokens, hands deltas to the loop and
looks at the job's flag at its checkpoints. A CANCEL sets the flag on the loop and,
if a call is registered, queues an abort on the other pool, which asks the serve
to end the call. The flag, the set of registered calls and the counts of the
serves are what the threads share.

### What is hard

Between any two steps of a tick blocks are produced, epochs finalized, miners
registered, the process killed. Extrinsics land without anybody seeing it.
Payloads are genuine and old. On the miner's side every `await` is an
interleaving point and every task may be cancelled at it; frames already
received are read after the socket has closed; counts must come back exactly
however a task ends. In the reference miner a CANCEL meets a thread at any
instruction, an abort may reach the serve before the call it is about, and the
chunks, which overlap by a token and may lack a row, must add up to one answer,
the same for the stream as for the proof. `PROJECT.json` lists the hazards with
their lines and the properties that are about them.

## 2. Modules

| module | models | composes |
|---|---|---|
| `Schedule` | `schedule.py` as operators | |
| `Uids` | `resolve_uids` as operators: from the rows of a payload to shares of the registered | |
| `Validator` | the submit loop, the provider and chain around it | `Schedule`, `Uids`, `Ledger` and `CrashLedger` (refinement) |
| `Ledger` | the abstract promise: submit and record in one step | |
| `CrashLedger` | the promise with a file and faults: one submission lost a fault, or one field | `Ledger` |
| `ValidatorProofs` | theorems about the five above | `Validator` |
| `Watchdog`, `WatchdogProofs` | liveness of the validator process | |
| `HealthGate` | probe, scheduler check and gate as operators on a record | |
| `Supervisor`, `SupervisorProofs` | `_supervise` with serves, gateway and leg tasks; theorems | `HealthGate` |
| `Doors`, `DoorsProofs` | door choice and dial loop of all legs; theorems | |
| `Leg`, `LegProofs` | one leg's sockets, requests, rotation and drain; theorems | |
| `Load`, `LoadProofs` | the shared in-flight count and its reports; theorems | |
| `ServePool`, `ServePoolProofs` | balancing over the serves, with a probe in progress; theorems | |
| `EngyChunks` | a generation in chunks as operators on a record | |
| `EngyJob`, `EngyProofs` | a request of the reference miner: loop, threads, aborts and serves; theorems, those on chunks included | `EngyChunks`, `Buyer` (refinement) |
| `Buyer` | the abstract promise: one answer, told in order, then given, or not if the buyer left | |
| `MCValidator`, `MCDoors`, `MCEngyJob` | instances for TLC | |

Definitions keep the names of the code where they can. A definition headed
"Mutant:" is a plausible bug; no specification uses it. Each stands for one
change of the definition after it, and a run with that definition replaced
violates the property the mutant is listed for.

### Validator

`pc` is where the process is; each step between two awaits, calls or crashes is an
action.

| action | code |
|---|---|
| `TickStart` | `main` calls `tick` with the time, the state file is read |
| `ResolveFresh`, `ResolveCached`, `ResolveNothing` | `_resolve_weights`, followed by the pregate (`Gate`) |
| `OpenFails`, `OpenChain` | `open_chain`, then everything decided from its snapshot: `should_submit`, `_lands`, `_standby_vector` |
| `SubmitAccepted`, `SubmitRefused`, `SubmitUnseen` | `set_weights`: lands and says so, does not land, lands and raises |
| `WriteState`, `WriteFails` | `write_state` |
| `Emit` | `emit_provider_heartbeat` |
| `Finalize`, `Churn`, `Advance`, `Crash`, `Restart`, `LoseField` | the environment |

A vector is named by the epoch whose result it is; `Rows` gives its rows, and
`Uids` what `resolve_uids` makes of them on a metagraph. A share is named by the
row it comes from, so the order of the two lists the code returns is not there;
uids only settle which of equal shares gets the gap, and a hotkey that comes back
has the uid it had. `Lands` is the code's test, `sum(ws) > 0`, on the shares
themselves, so it covers the vector whose weights are all zero. Block numbers count from the first block of the model; only
differences of them are ever compared. `behind` is a history variable: the file
missed a landing (crash, unseen landing, failed write) or lost its epoch.

### Watchdog

Time is discrete, one unit is 15 s in the run, and clocks are ages. `Stamps` records
the *start* of the tick, as `main` does (section 5); `FailsToStamp` is a write that
fails, and leaves the old heartbeat or an empty file. `Init` and `Boot` find whatever
heartbeat an earlier process left. `missed` and `longest` are history variables: the
ticks since whose heartbeat was not written, and the longest of them, from which
`RoomFor` tells whether the limit has room for what happened.

### Miner

A serve of `HealthGate` may be `old`: healthy, and answering 404 when the scheduler
is asked. `Supervisor` takes a probe as one step and the question to the scheduler as
another; `ServePool` opens a probe up, serve by serve. `legs[i]` is the worker
count a leg was created for, which fixes what it advertises. A cancelled leg
leaves its socket in `zombies`: `CancelledError` is no `Exception`, so `_leg`
does not close it. `_leg` catches everything else, so in this code a leg never
ends by itself, and the branch of `_supervise` that replaces dead legs has
nothing to do. The override of the worker count by an environment variable is a
`meta` that always answers the same.

`Doors` keeps what is left of a bench instead of its end, so that time may go on for
ever. `Slots` are the configured primaries, repeats included, by which `homes` deals
the legs out; `Primaries` has each door once. `Leg` has the frames on each socket, in
order; a request that has found its fate frees its id. A PING changes nothing while
it can be answered, so it is no frame of the model: `PingFails` is one that is read, between
any two frames, when the link can no longer take the reply. `Load` has every send of a broadcast as a step.
`ServePool` has the two ways a stream is left: inside the generator, whose
`finally` runs at once, and at a `yield`, where it runs later.

### Reference miner

Decoding is greedy, so `EngyChunks` names a token by its position in the one answer
the model has for the prompt, and a hidden row by its token. "Every row goes with
its token" and "nothing lost or doubled" become equalities of sequences. A prompt
the serve has cached as a whole comes back without its first row (`Answer`,
`cached`), which is what shifts everything by one.

In `EngyJob` `at` is where a request's thread is, `co` where its coroutine is.

| action | code |
|---|---|
| `ReadsServe`, `ReadsCancel`, `SocketEnds` | `_run`, `_on_cancel` |
| `Starts`, `SendsChunk`, `Answers` | `_serve`: register and queue, one delta, the end |
| `ThreadStarts`, `PrepFails`, `Picks` | `_process` up to `_pick_serve` |
| `ChecksTop`, `Registers`, `Posts` | the top of the loop in `_generate_chunked`; `job.rids` and the POST in `_gen_once` |
| `Event`, `Returns`, `CallFails` | a streamed event; a call that comes back, or raises |
| `LoopEnds`, `Proves` | the slot given back, `stream.finish`, the proof |
| `AbortStarts`, `AbortLands`, `AbortFails` | `_abort_rids` and the serve's answer to it |

A CANCEL can fall between any two of them. An abort cuts a call only if the serve
has it; it may arrive between `Registers` and `Posts` and do nothing. Of the text
streamed so far any part may wait in a buffer (`Handed`, `KeptBack`): this covers
the flush interval of `_stream_once` and every holding rule of `_QwenStream` at
once. A CANCEL finds its job whichever leg it comes on. `caught` (where the CANCEL met the
thread) and `late` (calls begun after it)
are history variables; `caught` is `prove` too if there was no checkpoint ahead,
since a request whose `max_tokens` is negative skips the loop and is
answered, cancelled in the queue or not. A `c` whose shape is `None` is never requested.

`Buyer` has neither threads nor calls: tokens of one answer are told from the first
on, the buyer may leave, and the reply is all that was told, or an error, or
nothing. It allows the one weakness the code has: an answer whose first token was
folded into the prompt (section 5) lacks that token and may be short. `EngyJob` maps
its frames, terminal frame and the requests cancelled before their generation was
complete to it (`B`).

## 3. Runs

Passing runs:

| run | what it shows |
|---|---|
| `validator_faults` | record, cache and claims stay consistent with the chain under all nine faults: outages, replays, failed connections, missing block numbers, refusals, unseen landings, failed writes, crashes, lost fields; the loop implements `CrashLedger`; whatever is submitted makes up the whole of the weight |
| `validator_active` | a validator with a cache is never silent beyond the cutoff, whether the provider answers and the block can be read or not; the loop implements `Ledger` |
| `watchdog` | a wedge is seen in time, exited and recovered from; slow ticks and failed writes raise no alarm as long as the limit has room for them |
| `supervisor` | withdrawal and return need the evidence `_HealthGate` asks for; legs in service are left alone; the capacity is covered; legs follow the worker count; a backend whose probes fail for good is withdrawn |
| `doors` | a backup is dialed only while every primary is benched; every leg gets a session as long as some door opens, and goes home once its home does |
| `leg` | rotation and drain cut nothing they started; a rotation takes place, a drain ends, a CANCEL is obeyed, even if a serve hangs |
| `load` | no slot leaks; reports are current when nothing is being sent, and become current |
| `serve_pool` | counts equal open connections and leaked places; dead serves are avoided, and left in the end |
| `engy` | slots come back; a cancelled request gets no answer and costs one further call at most, and only if it was past the checkpoint; tokens, rows and `finish_reason` are those of one call; loop, threads and serves implement `Buyer`; an abort frees its thread; every request ends |

Three runs end in a violation. Each checks one sentence of the repository
against what the code does (`PROJECT.json`, "findings", quotes it):
`validator_claim`, after a standby the heartbeat claims a digest of an older result
under the new epoch; `supervisor_zombie`, a withdrawal leaves sockets
attached; `serve_pool_leak`, a body that cannot be built leaks a place in the
balancer's count.

### Bounds

| bound | why it is enough |
|---|---|
| 3 hotkeys, 2 epochs, each paying one miner | an older and a newer result, each of which lands or not by itself, and the owner there or not; a row without weight, and two rows of one hotkey |
| `U16 = 7` | its shares do not come out even, so rounding leaves a gap; the real 65535 is beyond TLC's 32 bits once multiplied. The proofs are for any |
| `Budget = 1` work-losing fault | one is what separates file and chain; the proofs need no bound |
| interval 2, limit 1 (or 5, 4, cutoff 8) | resubmission, refusal and pregate all happen within `MaxBlock` |
| watchdog constants | the real ones: poll 300 s, look 30 s, limit 900 s; a tick that is not wedged takes up to 300 s and two writes in a row may fail, so the age passes the limit without a wedge, and comes as close to it as can be: two ticks of 285 s with the pause between them, or three of 90 s with a write that failed, are the most there is room for |
| 2 serves, 2 workers, capacity 3, `StallMax` 2, 1 leg with its socket | a dead serve beside one that hangs; growth and shrinking; 3 does not divide by 2; the streaks are the real ones |
| 1 primary, configured twice, 1 backup, 2 legs, 2 failures, benches of 3 doubling to 4 | a leg away from home and back, both legs failing in together; a bench outlasts the dials it takes to bench the other door, as the code's does by far. That a backup comes last is proved for any lists |
| 2 sockets, 2 requests, 2 unread frames | a draining and a live socket; a request in service and one unread |
| 3 tasks, 2 channels | two overlapping broadcasts and a third change |
| 2 serves, 3 requests, 1 leaked place | a dead, or busier, serve and another; a request dropped at a yield, one open, one to be routed |
| chunks of 2, budgets up to 4 tokens, models that stop at any of them or not (`engy`) | one chunk, two whole ones, a whole and a half; a stop before, at and after each boundary; 2 requests of one token on 2 serves with one abort thread for what they share |

No run disables deadlock checking: some action is always enabled (`Idle` in
`EngyJob`, once every request has found its end).
`PerEvent = 1` in `engy` is the serve's way of streaming, one token an event;
section 5 says what happens with more.

### Fairness

| specification | assumption | why |
|---|---|---|
| `Watchdog` | time passes, ticks that can end do, the thread runs, the container restarts | `time.sleep`, timeouts in the tick, `restart: unless-stopped`; nothing is assumed of a wedged call |
| `Supervisor` | its loop goes on | every await in it has a timeout |
| `Doors` | dials are made and end; time passes | `sleep(0.5)`, the dial timeout |
| `Leg` | reading, closing, rotating, retiring and dialing go on | each has its cap; a serve is not assumed to answer |
| `Load` | each socket's heartbeat is sent | `_heartbeat` |
| `EngyJob` | the loop, each thread, each abort go on; a call that was aborted at the serve ends | nothing blocks the loop; aborts have a timeout of 10 s; of a call not aborted nothing is assumed: `RequestsAreSettled` says "if calls come back" |
| `ServePool` | probes go on, requests end, dropped generators are closed | timeouts; the event loop's finalizer |

`validator_active` uses no fairness: ticks and sleeps have longest durations
(`Timed`), and silence is a safety property.

## 4. Proofs

For every value of the constants, under the assumptions the modules name:

* `ValidatorProofs`: `TypeCorrect`; from one inductive invariant `IInv` the
  theorems `RecordMatches`, `CacheLanded`, `ClaimLanded`, `KeptLanded`,
  `ResubmitInTime`, `EpochsAdvance`, `FallbackReplacesBurns`; and two refinements.
  `Refinement`: without work-losing faults (`Budget = 0`) every step is a step
  of `Ledger` or a stutter. `CrashRefinement`, with any faults in any number:
  every step is one of `CrashLedger`, where a crash or a failed write goes back to
  the file, which lacks one submission at most, a landing nobody saw is a
  submission of the ledger that is not recorded, and nothing is submitted while
  one is unsaved. About `resolve_uids`, for any rows and metagraph,
  `VectorAddsUp`, `VectorIsFair` and `VectorIsKept`, and from the first of them
  `WholeSubmitted`: whatever the tick chose, the shares sent make up the whole.
  `StaysActiveAlways`, on which more below.
* `WatchdogProofs`: `TypeCorrect`; `StallBounded` and `WedgeVisible`, if a tick that
  is not wedged is no longer than the limit; `NoFalseAlarms`, without a precondition:
  ticks may take any time, any writes fail and the heartbeat found at boot be of any
  age. From `AgeIsAccounted`: the age of a heartbeat of this process is at most
  what the ticks and pauses since its stamp took, with the longest of those ticks
  for each (`Span`).
* `SupervisorProofs`: `TypeCorrect`, `WithdrawnStays`, `LegsKept`,
  `DownNeedsProof`, `BackNeedsStreak` and `CapacityAdvertised`. The last rests on
  `CreatedForFewer` (until a scale-down no leg was created for more workers than
  there are legs), `SplitAntitone` (a leg created for fewer advertises more) and
  what a sum is at least. The gate keeps capped counters that its
  own rules reset, while the properties speak of the probes there were;
  `Evidence` ties the two (the streaks agree, and a stall is never older than the
  misses that make it), and `TypeInv` adds to the types that the attempts before
  the first dial do not run out unnoticed.
* `EngyProofs`, about the operators of `EngyChunks`: `ChunkStep` and `ChunksDone`,
  what one chunk does to a generation that is the beginning of a single call
  (`ChunkInv`: rows are the tokens', tokens follow the folded one, only a last
  chunk folds, budget and model are not passed) - it grows to just where the call
  was to end - and what follows once the loop ends. About `EngyJob`:
  `TypeCorrect`; `ChunksAreOneCall` and `TruncatedIsRight` from
  `GenInv` (`ChunkInv` for every request, and that a call is cut only when the flag
  is set, so that no short answer is ever taken for a whole one); `SlotsGoBack` from
  `SlotInv`; `QuietWhenCancelled` and `CancelsStopCalls` from `EndInv` (an end is
  queued only by a thread that is over) and `CancelInv` (a thread cancelled in time
  stays on a way without an answer, and has at most the one call ahead that it
  was about to make); and `Refinement`, that every step is one of `Buyer` or a
  stutter if an event of a stream brings one token. It rests on `ToldInv`: frames,
  queue and what the thread holds back are, in this order, the tokens heard so far
  (`InOrder`, whose lemmas say what sending, handing over, hearing and ending do to
  it), those heard are the generation's and the running call's (`Heard`), and the
  end is the last of its queue. Both places where a token could go twice or get
  lost, the overlap and a call's return, are steps that must keep `Heard`.
* `DoorsProofs`: `TypeCorrect`, `BackupsComeLast`: from `OrderIs`, what the order of
  a home contains, and `PickIs`, for any lists of doors,
  and of slots over the primaries.
* `LegProofs`: `TypeCorrect`, `DrainsLoseNothing`, `TasksEnd` and `AcceptedNotCut`.
  `FrameInv` says what buffers hold: nothing to serve after a RECONNECT or DENY, no
  request at all on a socket with a DENY, and each waiting SERVE once; `SentInv`
  that a request not yet read waits on a live socket. So a RECONNECT, a DENY or the end of what was received finds
  nothing unread to lose. `LinkInv` has the rest: a socket that
  can no longer send was lost, or cut, or has no task and starts none.
* `LoadProofs`: `TypeCorrect`, `SlotsComeBack`, `ReportsCurrent`. The last needs
  `ToldOrListed`: an attached channel that was not told the present count is still
  on the list of a broadcast that will read it, or one was cut.
* `ServePoolProofs`: `TypeCorrect`, `CountExact` and `DeadAvoided`, from `CountInv`
  (the count is exact and only a request that has a place gives one back) and
  `KnownInv` (a probe's findings agree with what did not change while it ran).

The properties of the submit loop are not inductive: between the snapshot and
`write_state` the promise is held by the tick's locals. `IInv` adds what each of
them carries: the epoch in the tick is not older than the recorded one and a
resubmission is an interval past its anchor (`DecisionHolds`), the chain holds
what is about to be written (`LandingPending`), where vector and digest come
from (`ChoiceHolds`), that what the file names did land (`RecordWasLanded`), and
that only signed epochs are around (`SignedOnly`).

`StaysActiveAlways` says how long the chain may go without an extrinsic, which
is an inequality: if at most `k` blocks are produced in a step of time, wall clocks
keep up with them, and the owner stays registered (`Steady(k)`), then a cutoff of
`IntervalBlocks - 1 + k * (2 * TickSteps + SleepSteps + Budget * Lap)` is never
passed, `Lap` being a tick and two pauses. A tick that decides just too early costs
the interval less a block; then come the rest of that tick, the pause and the next
tick, and as many laps more as faults lose work. One block less and TLC finds a
run that exceeds it. The invariant, `Punctual(k)`, adds to `IInv` a budget of blocks for
each place of the tick: how far the chain may be from the last extrinsic there, and
how far the anchors in the file and in the tick's locals may be behind it. Of the
faults it admits outages, failed block reads, unseen landings, failed writes
and crashes. The other four are excluded because the code does not keep the
promise under them: a failed connection or a refusal may repeat at every tick, a
replay is skipped and the cache not resubmitted (section 5), and without the
recorded epoch, if that is the field lost, the cache is not resubmitted.

Sums are folds, that is, a choice of a function on all subsets. That one exists, and
what it adds up to, is proved by induction on the size of the subset, in the form
"there is no least counterexample" (`LeastNatural`, `BySubsets`), which needs no
operator as a parameter. `SumsCompare` compares two sums summand by summand: it
gives at once that rounding takes less than a unit per row.

The scheduling lemmas
(`PregateIsConservative`, `NeverSubmitsOlder`, `BlocksDecide`) are about
`schedule.py` alone. The proofs rest on `ValidatorAssumption`,
`ScheduleAssumption`, `UidsAssumption`, `WatchdogAssumption`,
`HealthGateAssumption`, `SupervisorAssumption`, `ChunksAssumption`,
`JobAssumption`, `DoorsAssumption`, `LegAssumption`, `LoadAssumption` and
`ServePoolAssumption`.
Type invariants are proved, not run.

Every invariant and action property of a passing run is a theorem, and so are
all three refinements. Only model-checked: the liveness properties. Liveness under
fairness and `ENABLED` are beyond the prover, and so are recursive operators and
the library's induction theorems, which take an operator as a parameter.

## 5. Where the text and the code part

Besides the three findings, modelling met these sentences that the code does
not keep. They are why some properties have the preconditions they have.

* `validator.py:126`, an unreadable heartbeat is "startup": `heartbeat.json`
  outlives the process, so after a stop longer than the limit the watchdog's first
  look can exit a process still in its first tick (`NoFalseAlarm` speaks of processes
  that have stamped, and `StallIsBounded` excepts an inherited heartbeat until the
  first look); and a loop wedged in its first
  tick on an empty volume is never exited (`WedgeEnds` asks for a heartbeat).
* `validator.py:93-97`, the limit is a time "without a completed tick": the stamp is
  the time the tick *began* (413), so a tick, the pause and the next tick
  count together: with the default poll a loop that goes on is exited when two ticks
  in a row take 295 s or so each, and not "several polls" (`RoomFor` counts
  them).
* `validator.py:107`, "never let a heartbeat failure kill the loop": a heartbeat
  that cannot be written ages until the watchdog does. With the default poll one
  failed write leaves room for ticks of a minute and a half, two in a row leave none
  (`RoomFor` counts the writes that failed).
* `validator.py:6-12`, no silence: while an older genuine payload is served the tick
  is skipped and the cache not resubmitted; a validator that has only burned has
  no cache (`StaysActive` asks for a cache and no replay).
* `validator.py:195-197`, falling back "changes nothing about what miners
  receive": it replaces a burn by the vector from before it
  (`FallbackReplacesBurns`, proved, says that it replaces nothing else).
* `README.md:131`, an older epoch "is never submitted", and `state.py:8-10`, losing the
  fields "only costs one redundant submission": the guard reads the file, which a
  crash before `write_state` or a lost field puts behind the chain (`NeverOlder`
  asks for `~behind`).
* `schedule.py:78-80`, the pregate "can never delay a due submission": it goes by the
  wall clock, which may be stepped back (the runs' clocks are steady).
* `tee_miner.py:1647-1649`, a wedged serve "is still caught": one dead serve beside
  wedged ones turns every verdict into `ok` (818), so `UnhealthyIsWithdrawn` speaks
  of the verdict.
* `tee_miner.py:1781-1782`, one leg "only at startup": also after a withdrawal
  during a `/gw/meta` outage, since the count is reset (1778).
* `tee_miner.py:1594-1596`, the legs "never advertise less than the real total": a
  leg keeps its share, so they do after a scale-down (`AdvertisesEnough` asks for
  none).
* `tee_miner.py:1466`, "Backups carry nothing while a primary opens": `opened` does
  not end a bench, so a backup is dialed although a dial through the primary has
  just opened (`BackupIsLastResort` speaks of benches).
* `tee_miner.py:1277-1278`, a SERVE "is handed back, never cut": one received before
  the close frame is sent and read after it can be neither (`AcceptedIsNotCut`
  speaks of requests that were started).
* `tee_miner.py:369`, the count is pushed "the moment it changes": a CANCEL inside a
  task's last broadcast ends it half way (`ReportsAreCurrent` asks for `~cut`).

In the reference miner (`engy_miner.py`):

* `docs/MINER.md:183`, `finish_reason` is "length" whenever the budget ended the
  generation: when the prompt of the first chunk was cached as a whole, its first
  token is folded into the prompt, the chunk is a token short of what was wanted,
  and line 564 takes that for the model's end. The answer is cut off after one
  chunk and reported as "stop". `ChunksMakeOneCall` and `TruncatedIsTrue` are
  therefore about generations with nothing folded, and `Buyer` has `folded`; that
  tokens and rows agree holds for the others too. The folded token is also in
  the stream and not in the message.
* A model that stops exactly at the end of a chunk may be reported by the serve as
  "length"; the next chunk then has only its overlap, and if that has no row
  either `_fin_rows` raises and the request ends in an error (`Returns`).
* 423-433, the first event of a continuation is taken to bring the overlap only:
  with more than one token to an event the others are not streamed (`PerEvent`).
* 894-896, the job is registered before the work is queued since "a CANCEL can
  arrive" early: one read before the coroutine's first step still finds no job and
  is lost (`ReadsCancel` asks for the job).
* 545, no chunk is started for a departed buyer: a CANCEL between the checkpoint and
  the POST is seen when that call ends (`CancelStopsCalls` allows the one). One that
  comes while the proof is built changes nothing, the response is sent
  (`QuietAfterCancel` ends with the generation).
* When a send fails the coroutine ends and its job is forgotten, while the thread
  generates on for nobody, and no CANCEL reaches it any more.

## 6. Not modelled

Bytes: signatures, payload JSON, request bodies, chunks of text and proofs. The
reuse of a chain connection. A frame that cannot be parsed: it raises out of
`_session`, which cancels its tasks, and `_leg` closes the socket and
dials again. KV reports. Of the reference miner what `_QwenStream` and `_assemble_message` make of the text,
and its legs, which dial and redial without a state of their own. What the gateway
does with reports. `PROJECT.json` has the reason for each.

## 7. Plan

Done: 1 the submit loop, its promise and its proofs; 2 liveness; 3 the health gate and
supervisor; 4 doors; 5 a leg; 6 load; 7 the serve pool; 8 the requests and chunks of
the reference miner; 9 proofs about doors, legs, load, serve pool and reference
miner; 10 `resolve_uids`, with proofs; how long a validator may be silent; what the
legs advertise; the submit loop with crashes as a refinement.

Next, in this order:

1. An abstract leg ("a request is answered, handed back, cancelled, or lost with
   its socket") that `Leg` implements, and an abstract count that `Load` implements.
2. `ChainClient`: the held connection over several ticks.
3. Supervisor with Doors: the split of homes and urls over scale events.
