-------------------------------- MODULE Load --------------------------------
(***************************************************************************)
(* The in-flight count all legs of a TEE miner share: the class Load, the  *)
(* part of _serve_one that moves it, and the periodic _heartbeat           *)
(* (miner/tee_miner.py).  Many tasks run on one event loop and interleave  *)
(* at every await; each may be cancelled at any of them.                   *)
(*                                                                         *)
(* A task: created -> announcing (start, then one send per channel) ->     *)
(* working -> retreating (done, then one send per channel) -> over.        *)
(***************************************************************************)
EXTENDS Naturals, FiniteSets

CONSTANTS
    None,
    Tasks,     \* bound: serve tasks under way at one time
    Channels   \* bound: sockets of the legs

ASSUME LoadAssumption == IsFiniteSet(Tasks) /\ None \notin Nat

VARIABLES
    inflight,
    channels,  \* _channels: the sockets attached
    dead,      \* sockets whose connection is gone
    task,      \* task -> where it is
    todo,      \* task -> channels its broadcast has yet to reach
    told,      \* channel -> the last count sent on it since it was attached
    cut        \* history: a broadcast was cancelled after the last change

vars == <<inflight, channels, dead, task, todo, told, cut>>

Broadcasting == {"announcing", "retreating"}

TypeOK ==
    /\ inflight \in 0..Cardinality(Tasks)
    /\ channels \subseteq Channels
    /\ dead \subseteq Channels
    /\ task \in [Tasks -> {"over", "created", "working"} \cup Broadcasting]
    /\ todo \in [Tasks -> SUBSET Channels]
    /\ told \in [Channels -> 0..Cardinality(Tasks) \cup {None}]
    /\ cut \in BOOLEAN

Init ==
    /\ inflight = 0
    /\ channels = {}
    /\ dead = Channels
    /\ task = [t \in Tasks |-> "over"]
    /\ todo = [t \in Tasks |-> {}]
    /\ told = [c \in Channels |-> None]
    /\ cut = FALSE

-----------------------------------------------------------------------------
(* The legs and the network.                                               *)

\* A leg opens a socket and attaches it; HELLO carries no count.
Attaches(c) ==
    /\ c \notin channels
    /\ \A t \in Tasks : c \notin todo[t]
    /\ channels' = channels \cup {c}
    /\ dead' = dead \ {c}
    /\ told' = [told EXCEPT ![c] = None]
    /\ UNCHANGED <<inflight, task, todo, cut>>

\* Its session, or _retire, ends.
Detaches(c) ==
    /\ c \in channels
    /\ channels' = channels \ {c}
    /\ dead' = dead \cup {c}
    /\ UNCHANGED <<inflight, task, todo, told, cut>>

Dies(c) ==
    /\ c \notin dead
    /\ dead' = dead \cup {c}
    /\ UNCHANGED <<inflight, channels, task, todo, told, cut>>

\* Mutant: an idle miner sends no heartbeat.
HeartbeatIfBusy(c) ==
    /\ c \in channels \ dead
    /\ inflight > 0
    /\ told' = [told EXCEPT ![c] = inflight]
    /\ UNCHANGED <<inflight, channels, dead, task, todo, cut>>

\* The periodic heartbeat of a socket.
Heartbeat(c) ==
    /\ c \in channels \ dead
    /\ told' = [told EXCEPT ![c] = inflight]
    /\ UNCHANGED <<inflight, channels, dead, task, todo, cut>>

-----------------------------------------------------------------------------
(* The tasks.                                                              *)

\* A SERVE frame is read.
Create(t) ==
    /\ task[t] = "over"
    /\ task' = [task EXCEPT ![t] = "created"]
    /\ UNCHANGED <<inflight, channels, dead, todo, told, cut>>

\* Mutant: only one leg is told.
BroadcastToOne(t, as, count) ==
    /\ inflight' = count
    /\ task' = [task EXCEPT ![t] = as]
    /\ todo' = [todo EXCEPT ![t] =
                    {c \in channels : c = CHOOSE d \in channels : TRUE}]
    /\ cut' = FALSE
    /\ UNCHANGED <<channels, dead, told>>

\* The task moves on with a new count to broadcast to the channels there are.
Broadcast(t, as, count) ==
    /\ inflight' = count
    /\ task' = [task EXCEPT ![t] = as]
    /\ todo' = [todo EXCEPT ![t] = channels]
    /\ cut' = FALSE
    /\ UNCHANGED <<channels, dead, told>>

start(t) ==
    /\ task[t] = "created"
    /\ Broadcast(t, "announcing", inflight + 1)

\* One send of a broadcast: the count is read as it is sent, and a channel
\* that cannot be sent to is dropped.
Send(t, c) ==
    /\ task[t] \in Broadcasting
    /\ c \in todo[t]
    /\ todo' = [todo EXCEPT ![t] = @ \ {c}]
    /\ told' = IF c \in dead THEN told ELSE [told EXCEPT ![c] = inflight]
    /\ channels' = IF c \in dead THEN channels \ {c} ELSE channels
    /\ UNCHANGED <<inflight, dead, task, cut>>

Announced(t) ==
    /\ task[t] = "announcing"
    /\ todo[t] = {}
    /\ task' = [task EXCEPT ![t] = "working"]
    /\ UNCHANGED <<inflight, channels, dead, todo, told, cut>>

Lower == IF inflight = 0 THEN 0 ELSE inflight - 1

\* The serve has answered or failed.
done(t) ==
    /\ task[t] = "working"
    /\ Broadcast(t, "retreating", Lower)

Retreated(t) ==
    /\ task[t] = "retreating"
    /\ todo[t] = {}
    /\ task' = [task EXCEPT ![t] = "over"]
    /\ UNCHANGED <<inflight, channels, dead, todo, told, cut>>

\* Mutant: a cancelled task keeps its slot.
CancelledLeaks(t) ==
    /\ task[t] # "over"
    /\ task' = [task EXCEPT ![t] = "over"]
    /\ todo' = [todo EXCEPT ![t] = {}]
    /\ cut' = TRUE
    /\ UNCHANGED <<inflight, channels, dead, told>>

\* task.cancel(), by CANCEL or with the session.  Before its first step it
\* never runs; inside the try it unwinds through `finally`; inside the last
\* broadcast it is simply over.
Cancelled(t) ==
    \/ /\ task[t] = "created"
       /\ task' = [task EXCEPT ![t] = "over"]
       /\ UNCHANGED <<inflight, channels, dead, todo, told, cut>>
    \/ /\ task[t] \in {"announcing", "working"}
       /\ Broadcast(t, "retreating", Lower)
    \/ /\ task[t] = "retreating"
       /\ task' = [task EXCEPT ![t] = "over"]
       /\ todo' = [todo EXCEPT ![t] = {}]
       /\ cut' = TRUE
       /\ UNCHANGED <<inflight, channels, dead, told>>

Task(t) ==
    \/ Create(t)
    \/ start(t)
    \/ \E c \in Channels : Send(t, c)
    \/ Announced(t)
    \/ done(t)
    \/ Retreated(t)
    \/ Cancelled(t)

Next ==
    \/ \E c \in Channels : Attaches(c) \/ Detaches(c) \/ Dies(c) \/ Heartbeat(c)
    \/ \E t \in Tasks : Task(t)

Spec == Init /\ [][Next]_vars

\* The heartbeat task of every socket keeps its interval.
FairSpec == Spec /\ \A c \in Channels : WF_vars(Heartbeat(c))

-----------------------------------------------------------------------------
\* No slot leaks, however tasks end: the count is that of the tasks between
\* start and done.
CountIsExact ==
    inflight = Cardinality({t \in Tasks : task[t] \in {"announcing", "working"}})

Settled == \A t \in Tasks : task[t] \notin Broadcasting

\* When no broadcast is under way every channel that has been told a count
\* was told the present one, whatever order the tasks ran in - unless a
\* broadcast was cancelled half way.
ReportsAreCurrent ==
    (Settled /\ ~cut) =>
        \A c \in channels \ dead : told[c] \in {None, inflight}

\* Once nothing changes, the heartbeats put every channel right.
ReportsBecomeCurrent ==
    \A c \in Channels : \A n \in 0..Cardinality(Tasks) :
        <>[](c \in channels \ dead /\ inflight = n) => <>[](told[c] = n)

=============================================================================
