-------------------------------- MODULE Leg --------------------------------
(***************************************************************************)
(* One leg of the TEE miner (miner/tee_miner.py): _session, the serve      *)
(* tasks it starts, _LegRotation and _retire, over the sockets _leg dials  *)
(* one after the other.  The gateway at the far end is external.           *)
(*                                                                         *)
(* A socket is live while its session reads it and draining once _retire   *)
(* owns it.  Its link is up; closing, when this side has sent its close    *)
(* frame; or closed.  Frames that have come in are read in order, and      *)
(* still read after the link is gone; nothing can be sent unless it is up. *)
(***************************************************************************)
EXTENDS Sequences, FiniteSets, Naturals

CONSTANTS
    None,
    Sockets,   \* bound: sockets of this leg at one time
    Requests,  \* bound: requests under way at one time
    MaxBuffer  \* bound: unread frames on a socket

ASSUME LegAssumption ==
    /\ None \notin Sockets
    /\ MaxBuffer \in Nat \ {0}

VARIABLES
    phase,  \* socket -> whose it is
    link,   \* socket -> its state
    rot,    \* socket -> its _LegRotation
    buffer, \* socket -> frames received and not read
    asked,  \* sockets the gateway has sent RECONNECT or DENY on
    on,     \* request -> the socket it was sent on
    fate,   \* request -> what has become of it
    gone,   \* requests under way the gateway has sent CANCEL for
    broken  \* history: sockets lost to the network, or to a time cap

sockets == <<phase, link, rot, buffer, asked, broken>>
requests == <<on, fate, gone>>
vars == <<sockets, requests>>

InProgress == {"sent", "serving"}
\* A reply is an answer, an error or a request handed back.
Fates == InProgress \cup {"none", "replied", "lost"}

Frames == [type : {"SERVE", "CANCEL"}, req : Requests]
            \cup [type : {"RECONNECT", "DENY"}, req : {None}]
Serve(r) == [type |-> "SERVE", req |-> r]
Cancel(r) == [type |-> "CANCEL", req |-> r]
Reconnect == [type |-> "RECONNECT", req |-> None]
Deny == [type |-> "DENY", req |-> None]

\* The dict `serving` of a socket's session.
serving(s) == {r \in Requests : on[r] = s /\ fate[r] = "serving"}

TypeOK ==
    /\ phase \in [Sockets -> {"free", "live", "draining"}]
    /\ link \in [Sockets -> {"up", "closing", "closed"}]
    /\ rot \in [Sockets -> {"young", "waiting", "bouncing", "rotated"}]
    /\ buffer \in [Sockets -> Seq(Frames)]
    /\ \A s \in Sockets : Len(buffer[s]) <= MaxBuffer
    /\ asked \subseteq Sockets
    /\ on \in [Requests -> Sockets \cup {None}]
    /\ fate \in [Requests -> Fates]
    /\ gone \subseteq Requests
    /\ broken \subseteq Sockets
    /\ \A s \in Sockets : phase[s] = "free" => link[s] = "closed"

Init ==
    /\ phase = [s \in Sockets |-> "free"]
    /\ link = [s \in Sockets |-> "closed"]
    /\ rot = [s \in Sockets |-> "young"]
    /\ buffer = [s \in Sockets |-> << >>]
    /\ asked = {} /\ broken = {} /\ gone = {}
    /\ on = [r \in Requests |-> None]
    /\ fate = [r \in Requests |-> "none"]

-----------------------------------------------------------------------------
(* The gateway and the network.                                            *)

Receive(s, frame) ==
    /\ link[s] # "closed"
    /\ Len(buffer[s]) < MaxBuffer
    /\ buffer' = [buffer EXCEPT ![s] = Append(@, frame)]
    /\ UNCHANGED <<phase, link, rot, broken>>

\* A request under way is forgotten once it has its fate; its id is then used
\* again.
GatewayServes(s, r) ==
    /\ Receive(s, Serve(r))
    /\ s \notin asked
    /\ fate[r] \notin InProgress
    /\ \A t \in Sockets : \A k \in 1..Len(buffer[t]) : buffer[t][k].req # r
    /\ on' = [on EXCEPT ![r] = s]
    /\ fate' = [fate EXCEPT ![r] = "sent"]
    /\ UNCHANGED <<asked, gone>>

GatewayCancels(r) ==
    /\ fate[r] \in InProgress
    /\ on[r] # None
    /\ r \notin gone
    /\ Receive(on[r], Cancel(r))
    /\ gone' = gone \cup {r}
    /\ UNCHANGED <<asked, on, fate>>

\* The gateway drains for a deploy, or refuses the HELLO.
GatewayAsks(s) ==
    /\ s \notin asked
    /\ \/ Receive(s, Reconnect)
       \/ Receive(s, Deny) /\ \A r \in Requests : on[r] # s
    /\ asked' = asked \cup {s}
    /\ UNCHANGED requests

\* The connection is lost.
Drops(s) ==
    /\ link[s] # "closed"
    /\ link' = [link EXCEPT ![s] = "closed"]
    /\ broken' = broken \cup {s}
    /\ UNCHANGED <<phase, rot, buffer, asked, requests>>

\* The gateway answers this side's close frame, or close_timeout passes.
CloseCompletes(s) ==
    /\ link[s] = "closing"
    /\ link' = [link EXCEPT ![s] = "closed"]
    /\ UNCHANGED <<phase, rot, buffer, asked, broken, requests>>

-----------------------------------------------------------------------------
(* The session.                                                            *)

\* _leg dials again as soon as no session is running.  The new socket may take
\* the place of one that is gone: a task _retire left over is then on None.
Dials(s) ==
    /\ \A t \in Sockets : phase[t] # "live"
    /\ phase[s] = "free"
    /\ phase' = [phase EXCEPT ![s] = "live"]
    /\ link' = [link EXCEPT ![s] = "up"]
    /\ buffer' = [buffer EXCEPT ![s] = << >>]
    /\ asked' = asked \ {s}
    /\ broken' = broken \ {s}
    /\ on' = [r \in Requests |-> IF on[r] = s THEN None ELSE on[r]]
    /\ UNCHANGED <<rot, fate, gone>>

Reads(s, type) ==
    /\ phase[s] = "live"
    /\ buffer[s] # << >>
    /\ Head(buffer[s]).type = type
    /\ buffer' = [buffer EXCEPT ![s] = Tail(@)]

Becomes(R, what) ==
    /\ fate' = [r \in Requests |-> IF r \in R THEN what ELSE fate[r]]
    /\ gone' = IF what \in InProgress THEN gone ELSE gone \ R

\* A task is started; or, while the leg is retiring, the request is handed
\* back - if the answer can still be sent: its failure is swallowed.
ReadsServe(s) ==
    /\ Reads(s, "SERVE")
    /\ Becomes({Head(buffer[s]).req},
               IF rot[s] \notin {"bouncing", "rotated"} THEN "serving"
               ELSE IF link[s] = "up" THEN "replied"
               ELSE "lost")
    /\ UNCHANGED <<phase, link, rot, asked, broken, on>>

\* Mutant: CANCEL finds no task.
ReadsCancelInVain(s) ==
    /\ Reads(s, "CANCEL")
    /\ UNCHANGED <<phase, link, rot, asked, broken, requests>>

ReadsCancel(s) ==
    /\ Reads(s, "CANCEL")
    /\ Becomes({Head(buffer[s]).req} \cap serving(s), "none")
    /\ UNCHANGED <<phase, link, rot, asked, broken, on>>

\* Mutant: RECONNECT is acted on before the frames ahead of it.
ReadsReconnectFirst(s) ==
    /\ phase[s] = "live"
    /\ \E k \in 1..Len(buffer[s]) : buffer[s][k] = Reconnect
    /\ phase' = [phase EXCEPT ![s] = "draining"]
    /\ UNCHANGED <<link, rot, buffer, asked, broken, requests>>

\* Mutant: a drained session ends like any other.
ReadsReconnectAndEnds(s) ==
    /\ Reads(s, "RECONNECT")
    /\ phase' = [phase EXCEPT ![s] = "free"]
    /\ link' = [link EXCEPT ![s] = "closed"]
    /\ rot' = [rot EXCEPT ![s] = "young"]
    /\ Becomes(serving(s), "lost")
    /\ UNCHANGED <<asked, broken, on>>

\* The socket goes to _retire and the leg dials again; the rotation is over.
ReadsReconnect(s) ==
    /\ Reads(s, "RECONNECT")
    /\ phase' = [phase EXCEPT ![s] = "draining"]
    /\ rot' = [rot EXCEPT ![s] = "young"]
    /\ UNCHANGED <<link, asked, broken, requests>>

\* Mutant: the tasks of a session outlive it.
EndsWithoutTasks(s) ==
    /\ phase' = [phase EXCEPT ![s] = "free"]
    /\ link' = [link EXCEPT ![s] = "closed"]
    /\ rot' = [rot EXCEPT ![s] = "young"]
    /\ UNCHANGED <<asked, broken, requests>>

\* The session is over: its rotation and whatever it was serving are cancelled.
Ends(s) ==
    /\ phase' = [phase EXCEPT ![s] = "free"]
    /\ link' = [link EXCEPT ![s] = "closed"]
    /\ rot' = [rot EXCEPT ![s] = "young"]
    /\ Becomes(serving(s), "lost")
    /\ UNCHANGED <<asked, broken, on>>

ReadsDeny(s) == Reads(s, "DENY") /\ Ends(s)

SessionEnds(s) ==
    /\ phase[s] = "live"
    /\ link[s] = "closed"
    /\ buffer[s] = << >>
    /\ Ends(s)
    /\ UNCHANGED buffer

\* A PING has come in between any two frames: its reply cannot be sent on a
\* link that is not up, which ends the session with what is not read yet.  On
\* one that is up it is answered, and nothing changes.
PingFails(s) ==
    /\ phase[s] = "live"
    /\ link[s] # "up"
    /\ phase' = [phase EXCEPT ![s] = "free"]
    /\ link' = [link EXCEPT ![s] = "closed"]
    /\ rot' = [rot EXCEPT ![s] = "young"]
    /\ buffer' = [buffer EXCEPT ![s] = << >>]
    /\ Becomes({r \in Requests : on[r] = s /\ fate[r] \in InProgress}, "lost")
    /\ UNCHANGED <<asked, broken, on>>

\* A task has its answer, or its error, and sends it if it can.
Finishes(r) ==
    /\ fate[r] = "serving"
    /\ Becomes({r}, IF on[r] # None /\ link[on[r]] = "up" THEN "replied" ELSE "lost")
    /\ UNCHANGED <<sockets, on>>

\* Mutant: no cap on the wait.
RetiresWhenIdle(s) ==
    /\ phase[s] = "draining"
    /\ serving(s) = {}
    /\ phase' = [phase EXCEPT ![s] = "free"]
    /\ link' = [link EXCEPT ![s] = "closed"]
    /\ buffer' = [buffer EXCEPT ![s] = << >>]
    /\ UNCHANGED <<rot, asked, broken, requests>>

\* _retire: nothing is left to serve, or DRAIN_GRACE_S is over.  A task left
\* over goes on without its socket.
Retires(s) ==
    /\ phase[s] = "draining"
    /\ phase' = [phase EXCEPT ![s] = "free"]
    /\ link' = [link EXCEPT ![s] = "closed"]
    /\ buffer' = [buffer EXCEPT ![s] = << >>]
    /\ broken' = IF serving(s) = {} THEN broken ELSE broken \cup {s}
    /\ UNCHANGED <<rot, asked, requests>>

-----------------------------------------------------------------------------
(* The rotation of a live socket.                                          *)

Rotation(s, from, to) ==
    /\ phase[s] = "live"
    /\ rot[s] = from
    /\ rot' = [rot EXCEPT ![s] = to]
    /\ UNCHANGED <<phase, buffer, asked, requests>>

Closing(s) == link' = [link EXCEPT ![s] = IF @ = "up" THEN "closing" ELSE @]

RotationIsDue(s) == Rotation(s, "young", "waiting") /\ UNCHANGED <<link, broken>>

\* An idle moment: bouncing is turned on, checked and followed by the close
\* without an await in between.
RotatesIdle(s) ==
    /\ serving(s) = {}
    /\ Rotation(s, "waiting", "rotated")
    /\ Closing(s)
    /\ UNCHANGED broken

\* Mutant: the rotation waits for an idle moment however long it takes.
BouncesNever(s) == FALSE

\* No idle moment for LEG_ROTATE_IDLE_WAIT_S.
Bounces(s) ==
    /\ serving(s) # {}
    /\ Rotation(s, "waiting", "bouncing")
    /\ UNCHANGED <<link, broken>>

\* Drained, or LEG_ROTATE_DRAIN_S is over.
RotatesDrained(s) ==
    /\ Rotation(s, "bouncing", "rotated")
    /\ Closing(s)
    /\ broken' = IF serving(s) = {} THEN broken ELSE broken \cup {s}

-----------------------------------------------------------------------------
Gateway(s) ==
    \/ \E r \in Requests : GatewayServes(s, r)
    \/ GatewayAsks(s)
    \/ Drops(s)
    \/ CloseCompletes(s)

Session(s) ==
    \/ ReadsServe(s)
    \/ ReadsCancel(s)
    \/ ReadsReconnect(s)
    \/ ReadsDeny(s)
    \/ SessionEnds(s)

Rotate(s) ==
    \/ RotationIsDue(s)
    \/ RotatesIdle(s)
    \/ Bounces(s)
    \/ RotatesDrained(s)

Next ==
    \/ \E s \in Sockets :
          Gateway(s) \/ Dials(s) \/ Session(s) \/ PingFails(s) \/ Retires(s)
             \/ Rotate(s)
    \/ \E r \in Requests : GatewayCancels(r) \/ Finishes(r)

Spec == Init /\ [][Next]_vars

\* The tasks of the leg run and each wait has its cap: reading, closing,
\* rotating, retiring and dialing go on.  A serve need never finish.
FairSpec ==
    /\ Spec
    /\ WF_vars(\E s \in Sockets : Dials(s))
    /\ \A s \in Sockets :
          /\ WF_vars(Session(s))
          /\ WF_vars(CloseCompletes(s))
          /\ WF_vars(Retires(s))
          /\ WF_vars(Rotate(s))

-----------------------------------------------------------------------------
(* What a leg promises.                                                    *)

\* A request the leg has started is lost only with a socket the network took
\* or a time cap cut: neither a rotation nor a drain cuts what is in flight.
AcceptedIsNotCut ==
    [][\A r \in Requests :
          (fate[r] = "serving" /\ fate'[r] = "lost") => on[r] \in broken \cup {None}]_vars

\* A drain loses nothing either, started or not: what the gateway sent before
\* its RECONNECT is read before it.
DrainLosesNothing ==
    \A s \in Sockets :
        phase[s] = "draining" =>
            \A r \in Requests : on[r] = s => fate[r] # "sent"

\* A task only outlives its socket when _retire gives up on it; the session
\* that ends any other way takes its tasks along.
TasksEndWithTheirSocket ==
    \A r \in Requests :
        (fate[r] = "serving" /\ on[r] # None /\ phase[on[r]] = "free")
            => on[r] \in asked \cap broken

\* A rotation that is due takes place, busy or not.
RotationTakesPlace ==
    \A s \in Sockets :
        (phase[s] = "live" /\ rot[s] # "young") ~> (phase[s] # "live")

\* A gateway that is about to stop, or has denied the leg, gets rid of the
\* socket, even if a serve on it would never finish and a rotation is under way.
DrainIsOver ==
    \A s \in Sockets :
        (phase[s] = "live" /\ s \in asked) ~> (phase[s] = "free")

\* A CANCEL sent on a socket that is not being drained ends the request, even
\* if the serve would never finish.
CancelIsObeyed ==
    \A r \in Requests :
        (fate[r] = "serving" /\ r \in gone /\ on[r] \in Sockets \ asked)
            ~> (fate[r] # "serving")

=============================================================================
