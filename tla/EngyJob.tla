------------------------------ MODULE EngyJob ------------------------------
(***************************************************************************)
(* A request in the reference miner (miner/engy_miner.py): the event loop  *)
(* (_run, _serve, _on_cancel), the worker threads (_process and what it    *)
(* calls), the abort threads (_abort_rids) and the serves.                 *)
(*                                                                         *)
(* The loop, each thread and each serve move on their own; they share the  *)
(* jobs, their flags, the registered serve calls, the in-flight counts and *)
(* a queue of deltas per request.  The generation itself is EngyChunks'.   *)
(***************************************************************************)
EXTENDS EngyChunks, FiniteSets

CONSTANTS
    Requests,  \* corr ids
    NServes,   \* len(SERVE_URLS); a serve is named by its place there
    Loads,     \* which requests are made, and of what shape
    Threads,   \* GEN_THREADS
    Aborters,  \* threads of _ABORT_POOL
    PerEvent,  \* tokens that one event of a stream brings, at most
    None

Serves == 1..NServes

\* max_tokens (0 stands for a negative one: no call is made), where the model
\* would stop by itself, and whether to stream.
Shape == [max : Nat, eos : Nat \ {0}, stream : BOOLEAN]

ASSUME JobAssumption ==
    /\ IsFiniteSet(Requests)
    /\ NServes \in Nat \ {0}
    /\ Loads \subseteq [Requests -> Shape \cup {None}]
    /\ Threads \in Nat \ {0}
    /\ Aborters \in Nat \ {0}
    /\ PerEvent \in Nat \ {0}
    /\ None \notin Int /\ None \notin Shape

VARIABLES
    \* The event loop.
    co,       \* request -> its _serve coroutine
    jobs,     \* _JOBS: the requests registered
    queue,    \* request -> deltas handed over, << >> for the end
    frames,   \* request -> tokens sent to the gateway in chunks
    answer,   \* request -> the terminal frame sent
    gone,     \* requests whose socket has ended
    \* The workers.
    shape,    \* request -> its shape, None if it is never made
    flag,     \* request -> job.flag
    backlog,  \* requests waiting for a thread
    at,       \* request -> where its thread is
    on,       \* request -> job.serve
    inflight, \* _inflight
    gen,      \* request -> tokens and rows collected
    pend,     \* request -> tokens streamed and held back: _stream_once's pend
              \* and the buffers of its _QwenStream
    result,   \* request -> how its thread ended
    \* The serves and the abort threads.
    seen,     \* request -> last token of the current call seen in its stream
    cut,      \* request -> the current call was aborted
    abort,    \* request -> its abort
    \* History.
    caught,   \* request -> where its thread was when CANCEL set the flag,
              \* "prove" if no checkpoint was ahead of it
    late      \* request -> serve calls begun since then

loop == <<co, jobs, queue, frames, answer, gone>>
work == <<backlog, at, on, inflight, gen, pend, result>>
call == <<seen, cut>>
hist == <<caught, late>>
vars == <<loop, work, call, shape, flag, abort, hist>>

\* Where a request has a serve slot, where it has a call registered
\* (job.rids) and where its thread is at work at all.
Generating == {"top", "checked", "rid", "gen"}
Registered == {"rid", "gen"}
Working == Generating \cup {"prep", "prove"}

TypeOK ==
    /\ co \in [Requests -> {"none", "created", "run", "over"}]
    /\ jobs \subseteq Requests
    /\ queue \in [Requests -> Seq(Seq(Nat))]
    /\ frames \in [Requests -> Seq(Nat)]
    /\ answer \in [Requests -> {"none", "response", "error"}]
    /\ gone \subseteq Requests
    /\ shape \in [Requests -> Shape \cup {None}]
    /\ flag \in [Requests -> BOOLEAN]
    /\ backlog \in Seq(Requests)
    /\ at \in [Requests -> Working \cup {"none", "queued", "over"}]
    /\ on \in [Requests -> Serves \cup {None}]
    /\ inflight \in [Serves -> Nat]
    /\ gen \in [Requests -> [oids : Seq(Nat), rows : Seq(Nat),
                             extra : Seq(Nat), stopped : BOOLEAN]]
    /\ pend \in [Requests -> Seq(Nat)]
    /\ result \in [Requests -> {"none", "ok", "error", "cancelled"}]
    /\ seen \in [Requests -> Nat]
    /\ cut \in [Requests -> BOOLEAN]
    /\ abort \in [Requests -> {"none", "queued", "posting", "done", "failed"}]
    /\ caught \in [Requests -> Working \cup {"none", "queued", "over"}]
    /\ late \in [Requests -> Nat]

Init ==
    /\ co = [c \in Requests |-> "none"]
    /\ jobs = {}
    /\ queue = [c \in Requests |-> << >>]
    /\ frames = [c \in Requests |-> << >>]
    /\ answer = [c \in Requests |-> "none"]
    /\ gone = {}
    /\ shape \in Loads
    /\ flag = [c \in Requests |-> FALSE]
    /\ backlog = << >>
    /\ at = [c \in Requests |-> "none"]
    /\ on = [c \in Requests |-> None]
    /\ inflight = [s \in Serves |-> 0]
    /\ gen = [c \in Requests |-> NoTokens]
    /\ pend = [c \in Requests |-> << >>]
    /\ result = [c \in Requests |-> "none"]
    /\ seen = [c \in Requests |-> 0]
    /\ cut = [c \in Requests |-> FALSE]
    /\ abort = [c \in Requests |-> "none"]
    /\ caught = [c \in Requests |-> "none"]
    /\ late = [c \in Requests |-> 0]

-----------------------------------------------------------------------------
(* The event loop.                                                         *)

\* A SERVE frame: _run creates the task and reads on.
ReadsServe(c) ==
    /\ co[c] = "none" /\ shape[c] # None
    /\ co' = [co EXCEPT ![c] = "created"]
    /\ UNCHANGED <<jobs, queue, frames, answer, gone, work, call, shape, flag,
                   abort, hist>>

\* The first step of _serve: the job is registered before it is queued.
Starts(c) ==
    /\ co[c] = "created"
    /\ co' = [co EXCEPT ![c] = "run"]
    /\ jobs' = jobs \cup {c}
    /\ backlog' = Append(backlog, c)
    /\ at' = [at EXCEPT ![c] = "queued"]
    /\ UNCHANGED <<queue, frames, answer, gone, on, inflight, gen, pend,
                   result, call, shape, flag, abort, hist>>

\* A CANCEL frame (_on_cancel), on whichever leg: without a job there is
\* nothing to stop; the abort is worth a try only while a serve call is
\* registered.
ReadsCancel(c) ==
    /\ co[c] # "none"
    /\ c \in jobs
    /\ ~flag[c]
    /\ flag' = [flag EXCEPT ![c] = TRUE]
    /\ abort' = IF at[c] \in Registered
                THEN [abort EXCEPT ![c] = "queued"] ELSE abort
    /\ caught' = [caught EXCEPT ![c] =
                      IF at[c] \in {"queued", "prep", "top"}
                         /\ Ended(gen[c], shape[c].max)
                      THEN "prove" ELSE at[c]]
    /\ UNCHANGED <<loop, work, call, shape, late>>

\* The session ends - closed, cut or RECONNECT: the socket goes, the tasks
\* and the threads stay.
SocketEnds ==
    /\ gone' = {c \in Requests : co[c] # "none"}
    /\ gone' # gone
    /\ UNCHANGED <<co, jobs, queue, frames, answer, work, call, shape, flag,
                   abort, hist>>

\* What the coroutine does last: _job_done.
Finish(c) ==
    /\ co' = [co EXCEPT ![c] = "over"]
    /\ jobs' = jobs \ {c}

\* A delta is sent on; on a dead socket the send raises, and so does that of
\* the error frame.
SendsChunk(c) ==
    /\ co[c] = "run"
    /\ queue[c] # << >> /\ Head(queue[c]) # << >>
    /\ queue' = [queue EXCEPT ![c] = Tail(@)]
    /\ IF c \in gone
       THEN Finish(c) /\ UNCHANGED frames
       ELSE /\ frames' = [frames EXCEPT ![c] = @ \o Head(queue[c])]
            /\ UNCHANGED <<co, jobs>>
    /\ UNCHANGED <<answer, gone, work, call, shape, flag, abort, hist>>

\* The end of the queue: the answer, an error, or after a cancel silence.
Answers(c) ==
    /\ co[c] = "run"
    /\ queue[c] # << >> /\ Head(queue[c]) = << >>
    /\ queue' = [queue EXCEPT ![c] = Tail(@)]
    /\ answer' = [answer EXCEPT ![c] =
                      IF c \in gone \/ result[c] = "cancelled" THEN "none"
                      ELSE IF result[c] = "ok" THEN "response" ELSE "error"]
    /\ Finish(c)
    /\ UNCHANGED <<frames, gone, work, call, shape, flag, abort, hist>>

-----------------------------------------------------------------------------
(* A worker thread.                                                        *)

Busy == {c \in Requests : at[c] \in Working}

\* The pool takes what is queued in order.
ThreadStarts(c) ==
    /\ at[c] = "queued"
    /\ backlog # << >> /\ Head(backlog) = c
    /\ Cardinality(Busy) < Threads
    /\ backlog' = Tail(backlog)
    /\ at' = [at EXCEPT ![c] = "prep"]
    /\ UNCHANGED <<loop, on, inflight, gen, pend, result, call, shape, flag,
                   abort, hist>>

\* Mutant: the end of the stream is queued for a whole answer only.
SettleWhole(c, how, deltas) ==
    /\ at' = [at EXCEPT ![c] = "over"]
    /\ result' = [result EXCEPT ![c] = how]
    /\ queue' = [queue EXCEPT ![c] =
                     IF how = "ok" THEN Append(deltas, << >>) ELSE deltas]
    /\ pend' = [pend EXCEPT ![c] = << >>]

\* The thread ends and its future is set: the end is queued behind the deltas.
Settle(c, how, deltas) ==
    /\ at' = [at EXCEPT ![c] = "over"]
    /\ result' = [result EXCEPT ![c] = how]
    /\ queue' = [queue EXCEPT ![c] = Append(deltas, << >>)]
    /\ pend' = [pend EXCEPT ![c] = << >>]

\* The template cannot be rendered, before a serve is picked.
PrepFails(c) ==
    /\ at[c] = "prep"
    /\ Settle(c, "error", queue[c])
    /\ UNCHANGED <<co, jobs, frames, answer, gone, backlog, on, inflight, gen,
                   call, shape, flag, abort, hist>>

\* The first of the serves with the fewest calls in flight.
LeastInFlight(s) ==
    \A t \in Serves :
        inflight[s] < inflight[t] \/ (inflight[s] = inflight[t] /\ s <= t)

\* _pick_serve, and job.serve.
Picks(c) ==
    /\ at[c] = "prep"
    /\ \E s \in Serves :
          /\ LeastInFlight(s)
          /\ on' = [on EXCEPT ![c] = s]
          /\ inflight' = [inflight EXCEPT ![s] = @ + 1]
    /\ at' = [at EXCEPT ![c] = "top"]
    /\ UNCHANGED <<loop, backlog, gen, pend, result, call, shape, flag, abort,
                   hist>>

\* _release_serve.
Release(c) ==
    inflight' = [inflight EXCEPT ![on[c]] = IF @ = 0 THEN 0 ELSE @ - 1]

\* Mutant: only a failure gives the slot back; a cancelled call keeps it.
UnwindsHolding(c, how, deltas) ==
    /\ IF how = "cancelled" THEN UNCHANGED inflight ELSE Release(c)
    /\ Settle(c, how, deltas)
    /\ UNCHANGED <<co, jobs, frames, answer, gone, backlog, on, gen, shape,
                   flag, abort>>

\* An exception leaves the generation: the slot goes back on the way out.
Unwinds(c, how, deltas) ==
    /\ Release(c)
    /\ Settle(c, how, deltas)
    /\ UNCHANGED <<co, jobs, frames, answer, gone, backlog, on, gen, shape,
                   flag, abort>>

\* Mutant: the flag is looked at before the first chunk only.
ChecksTopOnce(c) ==
    /\ at[c] = "top"
    /\ ~Ended(gen[c], shape[c].max)
    /\ \/ flag[c] /\ gen[c].oids = << >> /\ Unwinds(c, "cancelled", queue[c])
          /\ UNCHANGED <<call, hist>>
       \/ /\ ~flag[c] \/ gen[c].oids # << >>
          /\ at' = [at EXCEPT ![c] = "checked"]
          /\ UNCHANGED <<loop, backlog, on, inflight, gen, pend, result, call,
                         shape, flag, abort, hist>>

\* The top of the loop: no chunk is started for a buyer who has left.
ChecksTop(c) ==
    /\ at[c] = "top"
    /\ ~Ended(gen[c], shape[c].max)
    /\ \/ flag[c] /\ Unwinds(c, "cancelled", queue[c])
          /\ UNCHANGED <<call, hist>>
       \/ /\ ~flag[c]
          /\ at' = [at EXCEPT ![c] = "checked"]
          /\ UNCHANGED <<loop, backlog, on, inflight, gen, pend, result, call,
                         shape, flag, abort, hist>>

\* The rid is registered, then the call is posted.
Registers(c) ==
    /\ at[c] = "checked"
    /\ at' = [at EXCEPT ![c] = "rid"]
    /\ UNCHANGED <<loop, backlog, on, inflight, gen, pend, result, call,
                   shape, flag, abort, hist>>

Posts(c) ==
    /\ at[c] = "rid"
    /\ at' = [at EXCEPT ![c] = "gen"]
    /\ seen' = [seen EXCEPT ![c] = Resume(gen[c]) - 1]
    /\ cut' = [cut EXCEPT ![c] = FALSE]
    /\ late' = [late EXCEPT ![c] = IF flag[c] THEN @ + 1 ELSE @]
    /\ UNCHANGED <<loop, backlog, on, inflight, gen, pend, result, shape,
                   flag, abort, caught>>

\* Of the text that is on its way to the queue any part may stay behind: in
\* _stream_once until the next flush, in _QwenStream as what may be the start
\* of a marker or inside a tool call.
Handed(c, text, n) ==
    IF n = 0 THEN queue[c] ELSE Append(queue[c], SubSeq(text, 1, n))

KeptBack(text, n) == SubSeq(text, n + 1, Len(text))

End(c) == LastOf(gen[c], shape[c].max, shape[c].eos)

\* Mutant: the overlap of a continuation is sent again.
NewTextWhole(c, last) == Positions(seen[c] + 1, last)

\* The text an event adds.  A continuation passes over its first event, which
\* brings the overlap.
NewText(c, last) ==
    IF gen[c].oids # << >> /\ seen[c] < Resume(gen[c]) THEN << >>
    ELSE Positions(seen[c] + 1, last)

\* An event of a stream: the checkpoint, then its text, which may wait for
\* the next flush.
Event(c) ==
    /\ at[c] = "gen"
    /\ shape[c].stream
    /\ ~cut[c]
    /\ seen[c] < End(c)
    /\ \/ /\ flag[c]
          /\ Unwinds(c, "cancelled", queue[c])
          /\ UNCHANGED <<call, hist>>
       \/ /\ ~flag[c]
          /\ \E last \in (seen[c] + 1)..Least(seen[c] + PerEvent, End(c)) :
                LET text == pend[c] \o NewText(c, last)
                IN  /\ seen' = [seen EXCEPT ![c] = last]
                    /\ \E n \in 0..Len(text) :
                          /\ queue' = [queue EXCEPT ![c] = Handed(c, text, n)]
                          /\ pend' = [pend EXCEPT ![c] = KeptBack(text, n)]
          /\ UNCHANGED <<co, jobs, frames, answer, gone, backlog, at, on,
                         inflight, gen, result, cut, shape, flag, abort, hist>>

\* What the call may come back with: an aborted one with less than was asked.
Answered(c) ==
    LET g == gen[c]
    IN  IF cut[c]
        THEN {Answer(g, last, cached, "abort") :
                 cached \in BOOLEAN,
                 last \in IF shape[c].stream THEN {seen[c]}
                          ELSE Resume(g)..End(c)}
        ELSE {Answer(g, End(c), cached, ftype) :
                 cached \in BOOLEAN,
                 ftype \in FinishTypes(g, shape[c].max, shape[c].eos)}

\* Mutant: an answer is used without another look at the flag.
ReturnsBlindly(c) ==
    /\ at[c] = "gen"
    /\ shape[c].stream =>
          seen[c] = End(c) \/ (cut[c] /\ seen[c] >= Resume(gen[c]))
    /\ \E a \in Answered(c), n \in 0..Len(pend[c]) :
         \/ /\ a.rows = << >>
            /\ Unwinds(c, "error", Handed(c, pend[c], n))
         \/ /\ a.rows # << >>
            /\ gen' = [gen EXCEPT ![c] = Extend(@, shape[c].max, a)]
            /\ at' = [at EXCEPT ![c] = "top"]
            /\ queue' = [queue EXCEPT ![c] = Handed(c, pend[c], n)]
            /\ pend' = [pend EXCEPT ![c] = KeptBack(pend[c], n)]
            /\ UNCHANGED <<co, jobs, frames, answer, gone, backlog, on,
                           inflight, result, shape, flag, abort>>
    /\ UNCHANGED <<call, hist>>

\* The call returns: what is left of the stream goes to the parser, the rid
\* is forgotten, and the flag is looked at before the answer is used.
Returns(c) ==
    /\ at[c] = "gen"
    /\ shape[c].stream =>
          seen[c] = End(c) \/ (cut[c] /\ seen[c] >= Resume(gen[c]))
    /\ \E a \in Answered(c), n \in 0..Len(pend[c]) :
         \/ /\ flag[c]
            /\ Unwinds(c, "cancelled", Handed(c, pend[c], n))
         \/ /\ ~flag[c]
            /\ a.rows = << >>
            /\ Unwinds(c, "error", Handed(c, pend[c], n))
         \/ /\ ~flag[c]
            /\ a.rows # << >>
            /\ gen' = [gen EXCEPT ![c] = Extend(@, shape[c].max, a)]
            /\ at' = [at EXCEPT ![c] = "top"]
            /\ queue' = [queue EXCEPT ![c] = Handed(c, pend[c], n)]
            /\ pend' = [pend EXCEPT ![c] = KeptBack(pend[c], n)]
            /\ UNCHANGED <<co, jobs, frames, answer, gone, backlog, on,
                           inflight, result, shape, flag, abort>>
    /\ UNCHANGED <<call, hist>>

\* The HTTP layer raises: after a cancel that is the abort's doing.
CallFails(c) ==
    /\ at[c] \in Registered
    /\ Unwinds(c, IF flag[c] THEN "cancelled" ELSE "error", queue[c])
    /\ UNCHANGED <<call, hist>>

\* The loop ends: the slot goes back and the parser gives up what it held
\* before the proof is built.
LoopEnds(c) ==
    /\ at[c] = "top"
    /\ Ended(gen[c], shape[c].max)
    /\ Release(c)
    /\ at' = [at EXCEPT ![c] = "prove"]
    /\ queue' = [queue EXCEPT ![c] = Handed(c, pend[c], Len(pend[c]))]
    /\ pend' = [pend EXCEPT ![c] = << >>]
    /\ UNCHANGED <<co, jobs, frames, answer, gone, backlog, on, gen, result,
                   call, shape, flag, abort, hist>>

Proves(c) ==
    /\ at[c] = "prove"
    /\ \E how \in {"ok", "error"} : Settle(c, how, queue[c])
    /\ UNCHANGED <<co, jobs, frames, answer, gone, backlog, on, inflight, gen,
                   call, shape, flag, abort, hist>>

-----------------------------------------------------------------------------
(* The abort threads.                                                      *)

\* Mutant: aborts wait for a generation thread.
AbortStartsInPool(c) ==
    /\ abort[c] = "queued"
    /\ Cardinality(Busy) < Threads
    /\ abort' = [abort EXCEPT ![c] =
                     IF at[c] \in Registered THEN "posting" ELSE "done"]
    /\ UNCHANGED <<loop, work, call, shape, flag, hist>>

\* A thread of their own pool takes an abort and lists the registered calls.
AbortStarts(c) ==
    /\ abort[c] = "queued"
    /\ Cardinality({d \in Requests : abort[d] = "posting"}) < Aborters
    /\ abort' = [abort EXCEPT ![c] =
                     IF at[c] \in Registered THEN "posting" ELSE "done"]
    /\ UNCHANGED <<loop, work, call, shape, flag, hist>>

\* The serve ends the call if it has it: one that it has not seen yet, or
\* has finished, it does not know.
AbortLands(c) ==
    /\ abort[c] = "posting"
    /\ abort' = [abort EXCEPT ![c] = "done"]
    /\ cut' = [cut EXCEPT ![c] = at[c] = "gen"]
    /\ UNCHANGED <<loop, work, seen, shape, flag, hist>>

AbortFails(c) ==
    /\ abort[c] = "posting"
    /\ abort' = [abort EXCEPT ![c] = "failed"]
    /\ UNCHANGED <<loop, work, call, shape, flag, hist>>

-----------------------------------------------------------------------------
Coroutine(c) == Starts(c) \/ SendsChunk(c) \/ Answers(c)

\* What the thread does by itself, and what it does at the serve's word.
Thread(c) ==
    \/ ThreadStarts(c) \/ PrepFails(c) \/ Picks(c) \/ ChecksTop(c)
    \/ Registers(c) \/ Posts(c) \/ LoopEnds(c) \/ Proves(c)
Reply(c) == Event(c) \/ Returns(c) \/ CallFails(c)

Abort(c) == AbortStarts(c) \/ AbortLands(c) \/ AbortFails(c)

\* Every request has found its end.
Idle ==
    /\ \A c \in Requests : shape[c] # None => co[c] = "over" /\ at[c] = "over"
    /\ UNCHANGED vars

Next ==
    \/ \E c \in Requests :
          \/ ReadsServe(c) \/ ReadsCancel(c)
          \/ Coroutine(c) \/ Thread(c) \/ Reply(c) \/ Abort(c)
    \/ SocketEnds
    \/ Idle

Spec == Init /\ [][Next]_vars

\* The loop, the threads and the abort threads go on, and an aborted call
\* ends.  Nothing is assumed of any other call.
FairSpec ==
    /\ Spec
    /\ \A c \in Requests :
          /\ WF_vars(Coroutine(c))
          /\ WF_vars(Thread(c))
          /\ WF_vars(Abort(c))
          /\ WF_vars(cut[c] /\ Reply(c))

-----------------------------------------------------------------------------
(* What the miner promises.                                                *)

\* However a generation ends - whole, failed, cancelled at any checkpoint -
\* its place on the serve is given back, once (_pick_serve, _release_serve).
SlotsAreExact ==
    \A s \in Serves :
        inflight[s] =
            Cardinality({c \in Requests : on[c] = s /\ at[c] \in Generating})

\* Where a CANCEL still stops the work.
Stoppable == Generating \cup {"queued", "prep"}

\* A buyer who left before the generation was complete is sent no answer: an
\* aborted call looks like a short one, and must not be proved and billed as
\* if it had been whole.  Only a request that failed before it was generating
\* says so.
QuietAfterCancel ==
    \A c \in Requests :
        /\ caught[c] \in Stoppable => answer[c] # "response"
        /\ caught[c] \in Generating => answer[c] = "none"

\* No chunk is started for a departed buyer: a CANCEL costs no further call,
\* unless it comes between the checkpoint and the POST, and then that one -
\* even when the abort is lost.
CancelStopsCalls ==
    \A c \in Requests :
        late[c] <= IF caught[c] \in {"checked", "rid"} THEN 1 ELSE 0

\* Whatever the chunks, every token kept has its own row, and nothing is lost,
\* doubled or out of place: with nothing folded into the prompt the tokens are
\* those of a single call (_generate_chunked).
ChunksMakeOneCall ==
    \A c \in Requests :
        LET g == gen[c]
        IN  /\ g.rows = g.oids
            /\ g.extra \o g.oids = Positions(1, Len(g.extra) + Len(g.oids))
            /\ (at[c] = "prove" /\ g.extra = << >>) =>
                   Len(g.oids) = Least(shape[c].max, shape[c].eos)

\* finish_reason tells a budget that ran out from a model that stopped, for
\* the whole request and not for its last chunk.  (A model that stops exactly
\* at the limit may be reported as either.)
TruncatedIsTrue ==
    \A c \in Requests :
        (at[c] = "prove" /\ gen[c].extra = << >>) =>
            /\ shape[c].eos > shape[c].max => ~gen[c].stopped
            /\ shape[c].eos < shape[c].max => gen[c].stopped

\* The terminal frame as the buyer sees it.
BuyerReply ==
    [c \in Requests |->
        [how |-> answer[c],
         tokens |-> IF answer[c] = "response" THEN gen[c].oids ELSE << >>]]

B == INSTANCE Buyer WITH
         asked <- shape, told <- frames, reply <- BuyerReply,
         left <- {c \in Requests : caught[c] \in Stoppable},
         folded <- {c \in Requests : gen[c].extra # << >>}

\* Whatever the threads, the calls and the queues do, the buyer is told the
\* answer of one call in order: no text of a chunk's overlap twice, none left
\* in a buffer, none after the end, and nothing is answered that was not told.
ImplementsBuyer == B!BuyerSpec

\* A CANCEL that finds the call running at the serve frees the thread, even
\* if the call would never have ended and every thread is busy - unless the
\* abort itself fails.
AbortFrees ==
    \A c \in Requests :
        caught[c] = "gen" ~> (at[c] = "over" \/ abort[c] = "failed")

\* If calls come back, every request that was accepted ends: its coroutine is
\* not left waiting, its job not left registered, its thread not lost.
RequestsAreSettled ==
    (\A d \in Requests : []<>(at[d] # "gen")) =>
        \A c \in Requests :
            co[c] = "created" ~> (co[c] = "over" /\ at[c] = "over")

=============================================================================
