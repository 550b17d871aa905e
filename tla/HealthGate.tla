----------------------------- MODULE HealthGate -----------------------------
(***************************************************************************)
(* When the TEE miner withdraws and when it comes back: Serve.probe,       *)
(* Serve.scheduler_alive and _HealthGate (miner/tee_miner.py).  Operators  *)
(* on a gate record; the supervisor of Supervisor.tla calls them.          *)
(*                                                                         *)
(* A serve is "ok"; "old", healthy but without /get_load; "busy", /health  *)
(* times out and /get_load answers; "wedged", neither does; or "dead".     *)
(* The streaks count as far as their thresholds: the code only compares    *)
(* them.  The stall is counted in rounds of the supervisor, as far as      *)
(* StallMax.                                                               *)
(***************************************************************************)
EXTENDS Integers

CONSTANTS
    None,
    Serves,      \* the serve urls
    OkStreak,    \* _HEALTH_OK_STREAK
    FailStreak,  \* _HEALTH_FAIL_STREAK
    StallMax     \* _HEALTH_STALL_MAX_S, in rounds

ASSUME HealthGateAssumption ==
    /\ None \notin Int
    /\ Serves # {}
    /\ OkStreak \in Nat \ {0}
    /\ FailStreak \in Nat \ {0}
    /\ StallMax \in Nat \ {0}

Status == {"ok", "old", "busy", "wedged", "dead"}

Gates == [down : BOOLEAN, ok : 0..OkStreak, fail : 0..FailStreak,
          stall : 0..StallMax \cup {None}]

FreshGate == [down |-> FALSE, ok |-> 0, fail |-> 0, stall |-> None]

UpTo(cap, n) == IF n < cap THEN n ELSE cap

\* What /health says of one serve.
Health(status) ==
    CASE status \in {"ok", "old"}      -> "ok"
      [] status \in {"busy", "wedged"} -> "timeout"
      [] status = "dead"               -> "dead"

\* probe: the worst answer, except that one dead serve among others is "ok" -
\* whatever those others answered.
Probe(serve) ==
    LET seen == {Health(serve[u]) : u \in Serves}
    IN  CASE seen = {"dead"}                               -> "dead"
          [] "timeout" \in seen /\ "dead" \notin seen      -> "timeout"
          [] OTHER                                         -> "ok"

\* scheduler_alive: some serve answers /get_load; a 404 is no answer.
SchedulerAlive(serve) == \E u \in Serves : serve[u] \in {"ok", "busy"}

\* Mutant: a bad probe does not break the streak of good ones.
CountedInTotal(gate, outcome) ==
    IF outcome = "ok"
    THEN [gate EXCEPT !.ok = UpTo(OkStreak, @ + 1), !.fail = 0, !.stall = None]
    ELSE [gate EXCEPT !.fail = UpTo(FailStreak, @ + 1),
                      !.stall = IF @ = None THEN 0 ELSE @]

\* update, its counters.
Counted(gate, outcome) ==
    IF outcome = "ok"
    THEN [gate EXCEPT !.ok = UpTo(OkStreak, @ + 1), !.fail = 0, !.stall = None]
    ELSE [gate EXCEPT !.ok = 0,
                      !.fail = UpTo(FailStreak, @ + 1),
                      !.stall = IF @ = None THEN 0 ELSE @]

\* _verdict only asks the scheduler about a stall that has lasted.
AsksScheduler(gate, outcome) ==
    ~gate.down /\ outcome = "timeout" /\ gate.fail >= FailStreak

\* Mutant: two timeouts withdraw whatever the scheduler says.
SettledUnasked(gate, outcome, alive) ==
    [gate EXCEPT !.down =
        CASE outcome = "ok"    -> @ /\ gate.ok < OkStreak
          [] outcome = "dead"  -> TRUE
          [] OTHER             -> @ \/ gate.fail >= FailStreak]

\* Mutant: a stall with a lively scheduler may last for ever.
SettledPatiently(gate, outcome, alive) ==
    [gate EXCEPT !.down =
        CASE outcome = "ok"    -> @ /\ gate.ok < OkStreak
          [] outcome = "dead"  -> TRUE
          [] OTHER             -> @ \/ (gate.fail >= FailStreak /\ ~alive)]

\* update, its decision, once any question to the scheduler is answered.
Settled(gate, outcome, alive) ==
    [gate EXCEPT !.down =
        CASE outcome = "ok"    -> @ /\ gate.ok < OkStreak
          [] outcome = "dead"  -> TRUE
          [] OTHER             ->
               \/ @
               \/ gate.fail >= FailStreak /\ (~alive \/ gate.stall >= StallMax)]

\* A round goes by.
Older(gate) ==
    [gate EXCEPT !.stall = IF @ = None THEN None ELSE UpTo(StallMax, @ + 1)]

=============================================================================
