------------------------------ MODULE Watchdog ------------------------------
(***************************************************************************)
(* The validator's liveness machinery (validator/validator.py, "Liveness"):*)
(* the loop of main() stamps heartbeat.json at the end of every tick, a    *)
(* watchdog thread reads it every WatchdogInterval and exits the process   *)
(* when it is too old, and the container's restart policy boots it again.  *)
(* The file is on a volume: it survives the process.                       *)
(*                                                                         *)
(* Time is discrete and every clock counts how long ago something was, up  *)
(* to Cap, so that behaviours may go on for ever.                          *)
(***************************************************************************)
EXTENDS Integers

CONSTANTS
    None,
    Poll,              \* poll_s
    WatchdogInterval,  \* WATCHDOG_INTERVAL_S
    MinStallLimit,     \* MIN_STALL_LIMIT_S
    MaxTick,           \* bound: how long a tick takes that is not wedged
    MaxPost,           \* the longest the provider heartbeat takes
    Cap,               \* bound: ages are not told apart beyond it
    MayWedge,          \* TRUE: a call inside a tick may never return
    MayStop,           \* TRUE: the container may be stopped from outside
    MaxMissed          \* bound: heartbeat writes that fail in a row

\* stall_limit: three polls, floored.
StallLimit == IF 3 * Poll > MinStallLimit THEN 3 * Poll ELSE MinStallLimit

ASSUME WatchdogAssumption ==
    /\ None \notin Int
    /\ Poll \in Nat \ {0}
    /\ WatchdogInterval \in Nat \ {0}
    /\ MinStallLimit \in Nat
    /\ MaxTick \in Nat
    /\ MaxPost \in Nat
    /\ Cap \in Nat /\ Cap > StallLimit + WatchdogInterval
    /\ MaxMissed \in Nat
    /\ {MayWedge, MayStop} \subseteq BOOLEAN

VARIABLES
    loop,     \* the main thread, or "down"
    elapsed,  \* time since this tick, or this pause, began
    age,      \* time since the heartbeat's ts; None if it cannot be read
    checked,  \* time since the watchdog last looked
    looked,   \* history: the watchdog has looked since boot
    stamped,  \* history: the heartbeat is of this process
    missed,   \* history: ticks since whose heartbeat was not written
    longest   \* history: the longest of these and the one stamped

history == <<looked, stamped, missed, longest>>
vars == <<loop, elapsed, age, checked, history>>

Clock == 0..Cap

TypeOK ==
    /\ loop \in {"down", "ticking", "wedged", "sleeping"}
    /\ elapsed \in Clock
    /\ age \in Clock \cup {None}
    /\ checked \in 0..WatchdogInterval
    /\ looked \in BOOLEAN
    /\ stamped \in BOOLEAN
    /\ missed \in 0..MaxMissed
    /\ longest \in Clock

\* The volume is empty, or has the heartbeat of an earlier process.
Init ==
    /\ loop = "ticking"
    /\ elapsed = 0
    /\ age \in Clock \cup {None}
    /\ checked = 0
    /\ looked = FALSE /\ stamped = FALSE
    /\ missed = 0 /\ longest = 0

Later(t) == IF t = Cap THEN Cap ELSE t + 1

\* Time passes.  The watchdog thread sleeps exactly its interval; a tick that
\* is not wedged and a pause between ticks have their longest durations.
Pass ==
    /\ loop # "down" => checked < WatchdogInterval
    /\ loop = "ticking" => elapsed < MaxTick
    /\ loop = "sleeping" => elapsed < Poll + MaxPost
    /\ elapsed' = Later(elapsed)
    /\ age' = IF age = None THEN None ELSE Later(age)
    /\ checked' = IF loop = "down" THEN checked ELSE checked + 1
    /\ UNCHANGED <<loop, history>>

\* time.sleep(poll_s), after posting to the provider, is over.
BeginTick ==
    /\ loop = "sleeping"
    /\ elapsed >= Poll
    /\ loop' = "ticking"
    /\ elapsed' = 0
    /\ UNCHANGED <<age, checked, history>>

\* A call inside the tick never returns.
Wedge ==
    /\ MayWedge
    /\ loop = "ticking"
    /\ loop' = "wedged"
    /\ UNCHANGED <<elapsed, age, checked, history>>

Larger(s, t) == IF s <= t THEN t ELSE s

\* _write_heartbeat: the ts is the time the tick STARTED.
Stamps ==
    /\ age' = elapsed
    /\ stamped' = TRUE
    /\ missed' = 0
    /\ longest' = elapsed

\* An OSError: the old content stays, or nothing, since open(path, "w")
\* truncates.
FailsToStamp ==
    /\ missed < MaxMissed
    /\ age' \in {age, None}
    /\ missed' = missed + 1
    /\ longest' = Larger(longest, elapsed)
    /\ UNCHANGED stamped

\* The tick returns or raises; either way the heartbeat is written, or not.
EndTick ==
    /\ loop = "ticking"
    /\ Stamps \/ FailsToStamp
    /\ loop' = "sleeping"
    /\ elapsed' = 0
    /\ UNCHANGED <<checked, looked>>

\* Mutant: four polls instead of three.
StalledLate == age # None /\ age > 4 * Poll

\* Mutant: a heartbeat as old as the limit is too old.
StalledEarly == age # None /\ age >= StallLimit

\* An unreadable heartbeat is not a stall; an old one is.
Stalled == age # None /\ age > StallLimit

WatchdogLooks ==
    /\ loop # "down"
    /\ checked = WatchdogInterval
    /\ ~Stalled
    /\ checked' = 0
    /\ looked' = TRUE
    /\ UNCHANGED <<loop, elapsed, age, stamped, missed, longest>>

\* Mutant: sys.exit, which only ends the watchdog's thread.
WatchdogRaises ==
    /\ loop # "down"
    /\ checked = WatchdogInterval
    /\ Stalled
    /\ checked' = 0
    /\ UNCHANGED <<loop, elapsed, age, history>>

\* os._exit(1)
WatchdogExits ==
    /\ loop # "down"
    /\ checked = WatchdogInterval
    /\ Stalled
    /\ loop' = "down"
    /\ UNCHANGED <<elapsed, age, checked, history>>

\* docker stop, an upgrade, a host reboot.
Stop ==
    /\ MayStop
    /\ loop # "down"
    /\ loop' = "down"
    /\ UNCHANGED <<elapsed, age, checked, history>>

\* restart: unless-stopped.  main() starts the watchdog, then ticks at once.
Boot ==
    /\ loop = "down"
    /\ loop' = "ticking"
    /\ elapsed' = 0
    /\ checked' = 0
    /\ looked' = FALSE /\ stamped' = FALSE
    /\ missed' = 0 /\ longest' = 0
    /\ UNCHANGED age

Next ==
    \/ Pass
    \/ BeginTick
    \/ Wedge
    \/ EndTick
    \/ WatchdogLooks
    \/ WatchdogExits
    \/ Stop
    \/ Boot

Spec == Init /\ [][Next]_vars

\* Time does not stop, the thread is scheduled, a tick that can end ends and
\* the restart policy restarts.
Fairness ==
    /\ WF_vars(Pass)
    /\ WF_vars(BeginTick)
    /\ WF_vars(EndTick)
    /\ WF_vars(WatchdogLooks)
    /\ WF_vars(WatchdogExits)
    /\ WF_vars(Boot)

FairSpec == Spec /\ Fairness

-----------------------------------------------------------------------------
\* healthcheck(): what docker ps shows.
Healthy == age # None /\ age <= StallLimit

\* A tick that has run longer than the limit is not shown as healthy.
WedgeIsVisible ==
    (loop \in {"ticking", "wedged"} /\ elapsed > StallLimit) => ~Healthy

\* The watchdog is never late: while the process is up, a heartbeat is at
\* most one look past the limit - but for one found at boot, and that one
\* until the first look.
StallIsBounded ==
    (loop # "down" /\ age # None) =>
        \/ age <= StallLimit + checked
        \/ ~looked /\ ~stamped

\* Whether the limit has room for ticks this long when m heartbeats in a row
\* could not be written: the tick that was stamped, m more and the one under
\* way, with a pause after all but the last.
RoomFor(m, tick) ==
    (m + 2) * tick + (m + 1) * (Poll + MaxPost) <= StallLimit

LongestTick == IF loop = "ticking" THEN Larger(longest, elapsed) ELSE longest

\* Slow ticks, and heartbeats that cannot be written, are not mistaken for a
\* stall while there is room for them: a process that has stamped is exited
\* only when its loop is wedged, or its ticks were so slow and the writes that
\* failed in a row so many that together they exceed the limit.
NoFalseAlarm ==
    [][WatchdogExits =>
          \/ loop = "wedged"
          \/ ~stamped
          \/ ~RoomFor(missed, LongestTick)]_vars

\* Once a heartbeat can be read, a wedged loop is exited and comes back.
WedgeEnds == (loop = "wedged" /\ age # None) ~> (loop = "ticking")

=============================================================================
