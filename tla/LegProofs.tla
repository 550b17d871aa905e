------------------------------ MODULE LegProofs ------------------------------
(***************************************************************************)
(* Theorems about Leg for any sockets, requests and buffers.               *)
(***************************************************************************)
EXTENDS Leg, SequenceTheorems, TLAPS

\* A frame that is received, or read, leaves a buffer of frames.
LEMMA BufferType ==
    ASSUME NEW b \in Seq(Frames)
    PROVE  /\ \A f \in Frames : /\ Append(b, f) \in Seq(Frames)
                                /\ Len(Append(b, f)) = Len(b) + 1
                                /\ Append(b, f)[Len(b) + 1] = f
                                /\ \A k \in 1..Len(b) : Append(b, f)[k] = b[k]
           /\ b # << >> => /\ Head(b) \in Frames /\ Head(b) = b[1]
                           /\ Tail(b) \in Seq(Frames) /\ Len(b) \in Nat \ {0}
                           /\ Len(Tail(b)) = Len(b) - 1
                           /\ \A k \in 1..(Len(b) - 1) : Tail(b)[k] = b[k + 1]
<1>1. b # << >> => /\ Head(b) \in Frames /\ Head(b) = b[1]
                   /\ Tail(b) \in Seq(Frames) /\ Len(b) \in Nat \ {0}
                   /\ Len(Tail(b)) = Len(b) - 1
                   /\ \A k \in 1..(Len(b) - 1) : Tail(b)[k] = b[k + 1]
  BY HeadTailProperties, EmptySeq
<1> QED BY <1>1, AppendProperties

\* The frames there are.
LEMMA FrameKinds ==
    /\ \A r \in Requests : Serve(r) \in Frames /\ Cancel(r) \in Frames
    /\ Reconnect \in Frames /\ Deny \in Frames
    /\ \A f \in Frames : /\ f.type \in {"SERVE", "CANCEL"} => f.req \in Requests
                         /\ f.type \in {"SERVE", "CANCEL", "RECONNECT", "DENY"}
BY DEF Frames, Serve, Cancel, Reconnect, Deny

\* The types of the variables; a buffer is also bounded.
LEMMA LegFunctions ==
    ASSUME TypeOK
    PROVE  /\ phase \in [Sockets -> {"free", "live", "draining"}]
           /\ link \in [Sockets -> {"up", "closing", "closed"}]
           /\ rot \in [Sockets -> {"young", "waiting", "bouncing", "rotated"}]
           /\ on \in [Requests -> Sockets \cup {None}]
           /\ fate \in [Requests -> Fates]
           /\ buffer \in [Sockets -> Seq(Frames)]
           /\ gone \subseteq Requests
           /\ \A s \in Sockets :
                 /\ Len(buffer[s]) <= MaxBuffer /\ Len(buffer[s]) \in Nat
                 /\ phase[s] = "free" => link[s] = "closed"
BY DEF TypeOK

\* What a frame that comes in does to the buffers.
LEMMA ReceiveDoes ==
    ASSUME TypeOK, NEW s \in Sockets, NEW f \in Frames, Receive(s, f)
    PROVE  /\ buffer' \in [Sockets -> Seq(Frames)]
           /\ Len(buffer'[s]) = Len(buffer[s]) + 1 /\ Len(buffer'[s]) <= MaxBuffer
           /\ buffer'[s][Len(buffer[s]) + 1] = f
           /\ \A k \in 1..Len(buffer[s]) : buffer'[s][k] = buffer[s][k]
           /\ \A t \in Sockets : t # s => buffer'[t] = buffer[t]
           /\ phase[s] # "free"
           /\ UNCHANGED <<phase, link, rot, broken>>
<1> DEFINE b == Append(buffer[s], f)
<1>1. buffer \in [Sockets -> Seq(Frames)] /\ buffer' = [buffer EXCEPT ![s] = b]
  BY LegFunctions DEF Receive
<1>2. b \in Seq(Frames) /\ Len(b) = Len(buffer[s]) + 1
      /\ b[Len(buffer[s]) + 1] = f
      /\ \A k \in 1..Len(buffer[s]) : b[k] = buffer[s][k]
  BY <1>1, BufferType
<1>3. Len(buffer[s]) < MaxBuffer /\ Len(buffer[s]) \in Nat /\ MaxBuffer \in Nat
  BY LegFunctions, LegAssumption DEF Receive
<1>4. phase[s] # "free" /\ UNCHANGED <<phase, link, rot, broken>>
  BY LegFunctions DEF Receive
<1> HIDE DEF b
<1> QED BY <1>1, <1>2, <1>3, <1>4

\* What reading a frame does to them.
LEMMA ReadDoes ==
    ASSUME TypeOK, NEW s \in Sockets, NEW type, Reads(s, type)
    PROVE  /\ buffer' \in [Sockets -> Seq(Frames)]
           /\ Len(buffer[s]) \in Nat \ {0} /\ Len(buffer'[s]) = Len(buffer[s]) - 1
           /\ Head(buffer[s]) = buffer[s][1] /\ Head(buffer[s]) \in Frames
           /\ buffer[s][1].type = type /\ phase[s] = "live"
           /\ \A k \in 1..(Len(buffer[s]) - 1) : buffer'[s][k] = buffer[s][k + 1]
           /\ \A t \in Sockets : t # s => buffer'[t] = buffer[t]
<1> DEFINE b == Tail(buffer[s])
<1>1. buffer \in [Sockets -> Seq(Frames)] /\ buffer' = [buffer EXCEPT ![s] = b]
      /\ buffer[s] # << >> /\ Head(buffer[s]).type = type /\ phase[s] = "live"
  BY LegFunctions DEF Reads
<1>2. /\ Head(buffer[s]) \in Frames /\ Head(buffer[s]) = buffer[s][1]
      /\ b \in Seq(Frames) /\ Len(buffer[s]) \in Nat \ {0}
      /\ Len(b) = Len(buffer[s]) - 1
      /\ \A k \in 1..(Len(buffer[s]) - 1) : b[k] = buffer[s][k + 1]
  BY <1>1, BufferType
<1> HIDE DEF b
<1> QED BY <1>1, <1>2

\* The buffers stay in bounds when one is read.
LEMMA BuffersRead ==
    ASSUME TypeOK, NEW s \in Sockets, NEW type, Reads(s, type)
    PROVE  /\ buffer' \in [Sockets -> Seq(Frames)]
           /\ \A t \in Sockets : Len(buffer'[t]) <= MaxBuffer
<1>1. buffer' \in [Sockets -> Seq(Frames)] /\ Len(buffer'[s]) = Len(buffer[s]) - 1
      /\ \A t \in Sockets : t # s => buffer'[t] = buffer[t]
  BY ReadDoes
<1>2. \A t \in Sockets : Len(buffer[t]) <= MaxBuffer /\ Len(buffer[t]) \in Nat
  BY LegFunctions
<1> QED BY <1>1, <1>2, LegAssumption

\* What becomes of requests.
LEMMA BecomesDoes ==
    ASSUME TypeOK, NEW R, NEW what \in Fates, Becomes(R, what)
    PROVE  /\ fate' \in [Requests -> Fates] /\ gone' \subseteq Requests
           /\ \A r \in Requests : fate'[r] = IF r \in R THEN what ELSE fate[r]
BY LegFunctions DEF Becomes

\* Types are kept.
LEMMA TypeStep ==
    ASSUME TypeOK, [Next]_vars
    PROVE  TypeOK'
<1> USE LegFunctions DEF Fates, InProgress, sockets, requests
<1>1. ASSUME NEW s \in Sockets, NEW r \in Requests, GatewayServes(s, r)
      PROVE  TypeOK'
  <2>1. Serve(r) \in Frames /\ Receive(s, Serve(r))
    BY <1>1, FrameKinds DEF GatewayServes
  <2> QED BY <1>1, <2>1, ReceiveDoes DEF GatewayServes, TypeOK
<1>2. ASSUME NEW s \in Sockets, GatewayAsks(s) PROVE TypeOK'
  <2>1. PICK f \in Frames : Receive(s, f)
    BY <1>2, FrameKinds DEF GatewayAsks
  <2> QED BY <1>2, <2>1, ReceiveDoes DEF GatewayAsks, TypeOK
<1>3. ASSUME NEW r \in Requests, GatewayCancels(r) PROVE TypeOK'
  <2>1. on[r] \in Sockets /\ Cancel(r) \in Frames /\ Receive(on[r], Cancel(r))
    BY <1>3, FrameKinds DEF GatewayCancels
  <2> QED BY <1>3, <2>1, ReceiveDoes DEF GatewayCancels, TypeOK
<1>4. ASSUME NEW s \in Sockets, Drops(s) PROVE TypeOK'
  BY <1>4 DEF Drops, TypeOK
<1>5. ASSUME NEW s \in Sockets, CloseCompletes(s) PROVE TypeOK'
  BY <1>5 DEF CloseCompletes, TypeOK
<1>6. ASSUME NEW s \in Sockets, Dials(s) PROVE TypeOK'
  <2>1. buffer' \in [Sockets -> Seq(Frames)]
        /\ \A t \in Sockets : Len(buffer'[t]) <= MaxBuffer
    BY <1>6, EmptySeq, LegAssumption DEF Dials
  <2> QED BY <1>6, <2>1 DEF Dials, TypeOK
<1>7. ASSUME NEW s \in Sockets, ReadsServe(s) PROVE TypeOK'
  <2>1. PICK what \in Fates : Becomes({Head(buffer[s]).req}, what)
    BY <1>7 DEF ReadsServe
  <2>2. fate' \in [Requests -> Fates] /\ gone' \subseteq Requests
    BY <2>1, BecomesDoes
  <2>3. Reads(s, "SERVE")
    BY <1>7 DEF ReadsServe
  <2> QED BY <1>7, <2>2, <2>3, BuffersRead DEF ReadsServe, TypeOK
<1>8. ASSUME NEW s \in Sockets, ReadsCancel(s) PROVE TypeOK'
  <2>1. fate' \in [Requests -> Fates] /\ gone' \subseteq Requests
    BY <1>8, BecomesDoes DEF ReadsCancel
  <2>2. Reads(s, "CANCEL")
    BY <1>8 DEF ReadsCancel
  <2> QED BY <1>8, <2>1, <2>2, BuffersRead DEF ReadsCancel, TypeOK
<1>9. ASSUME NEW s \in Sockets, ReadsReconnect(s) PROVE TypeOK'
  <2>1. Reads(s, "RECONNECT")
    BY <1>9 DEF ReadsReconnect
  <2>2. phase[s] = "live"
    BY <2>1 DEF Reads
  <2> QED BY <1>9, <2>1, <2>2, BuffersRead DEF ReadsReconnect, TypeOK
<1>10. ASSUME NEW s \in Sockets, ReadsDeny(s) PROVE TypeOK'
  <2>1. fate' \in [Requests -> Fates] /\ gone' \subseteq Requests
    BY <1>10, BecomesDoes DEF ReadsDeny, Ends
  <2>2. Reads(s, "DENY")
    BY <1>10 DEF ReadsDeny
  <2> QED BY <1>10, <2>1, <2>2, BuffersRead DEF ReadsDeny, Ends, TypeOK
<1>11. ASSUME NEW s \in Sockets, SessionEnds(s) PROVE TypeOK'
  <2>1. fate' \in [Requests -> Fates] /\ gone' \subseteq Requests
    BY <1>11, BecomesDoes DEF SessionEnds, Ends
  <2> QED BY <1>11, <2>1 DEF SessionEnds, Ends, TypeOK
<1>12. ASSUME NEW r \in Requests, Finishes(r) PROVE TypeOK'
  <2>1. PICK what \in Fates : Becomes({r}, what)
    BY <1>12 DEF Finishes
  <2>2. fate' \in [Requests -> Fates] /\ gone' \subseteq Requests
    BY <2>1, BecomesDoes
  <2> QED BY <1>12, <2>2 DEF Finishes, TypeOK
<1>13. ASSUME NEW s \in Sockets, Retires(s) PROVE TypeOK'
  <2>1. buffer' \in [Sockets -> Seq(Frames)]
        /\ \A t \in Sockets : Len(buffer'[t]) <= MaxBuffer
    BY <1>13, EmptySeq, LegAssumption DEF Retires
  <2> QED BY <1>13, <2>1 DEF Retires, TypeOK
<1>14. ASSUME NEW s \in Sockets, Rotate(s) PROVE TypeOK'
  BY <1>14 DEF Rotate, RotationIsDue, RotatesIdle, Bounces, RotatesDrained,
               Rotation, Closing, TypeOK
<1>15. ASSUME UNCHANGED vars PROVE TypeOK'
  BY <1>15 DEF vars, TypeOK
<1>16. ASSUME NEW s \in Sockets, PingFails(s) PROVE TypeOK'
  <2>1. buffer' \in [Sockets -> Seq(Frames)]
        /\ \A t \in Sockets : Len(buffer'[t]) <= MaxBuffer
    BY <1>16, EmptySeq, LegAssumption DEF PingFails
  <2>2. fate' \in [Requests -> Fates] /\ gone' \subseteq Requests
    BY <1>16, BecomesDoes DEF PingFails
  <2> QED BY <1>16, <2>1, <2>2 DEF PingFails, TypeOK
<1> QED
  BY <1>1, <1>2, <1>3, <1>4, <1>5, <1>6, <1>7, <1>8, <1>9, <1>10, <1>11,
     <1>12, <1>13, <1>14, <1>15, <1>16 DEF Next, Gateway, Session

-----------------------------------------------------------------------------
(* What the buffers hold, and where a request that is sent is.             *)

\* Frame k of a buffer.  Nothing is served on a socket after a RECONNECT or a
\* DENY, nothing at all before a DENY, and a SERVE that waits is the only one
\* of its request.
FrameOK(s, k) ==
    /\ buffer[s][k].type \in {"RECONNECT", "DENY"} =>
          s \in asked /\ \A m \in k..Len(buffer[s]) : buffer[s][m].type # "SERVE"
    /\ buffer[s][k].type = "DENY" => \A r \in Requests : on[r] # s
    /\ buffer[s][k].type = "SERVE" =>
          /\ on[buffer[s][k].req] = s
          /\ fate[buffer[s][k].req] = "sent"
          /\ \A m \in 1..Len(buffer[s]) :
                (buffer[s][m].type = "SERVE" /\ buffer[s][m].req = buffer[s][k].req)
                    => m = k

FrameInv == \A s \in Sockets : \A k \in 1..Len(buffer[s]) : FrameOK(s, k)

AskedInv == \A s \in Sockets : phase[s] = "draining" => s \in asked

\* A request that is sent waits on a live socket.
SentInv ==
    \A r \in Requests :
        fate[r] = "sent" =>
            /\ on[r] \in Sockets
            /\ phase[on[r]] = "live"
            /\ \E k \in 1..Len(buffer[on[r]]) :
                  buffer[on[r]][k].type = "SERVE" /\ buffer[on[r]][k].req = r

\* The buffers are as they are, or lose the frame that is read, and the
\* requests that wait in them still wait.
LEMMA ReadKeeps ==
    ASSUME TypeOK, FrameInv, SentInv, NEW s \in Sockets, NEW type, Reads(s, type),
           UNCHANGED <<asked, on>>, fate' \in [Requests -> Fates],
           \A r \in Requests :
              (fate[r] = "sent" \/ fate'[r] = "sent") =>
                 \/ fate[r] = "sent" /\ fate'[r] = "sent"
                 \/ type = "SERVE" /\ r = Head(buffer[s]).req /\ fate'[r] # "sent",
           type = "SERVE" => fate'[Head(buffer[s]).req] # "sent",
           \A r \in Requests : fate'[r] = "sent" => phase'[on[r]] = "live"
    PROVE  FrameInv' /\ SentInv'
<1>1. /\ Len(buffer[s]) \in Nat \ {0} /\ Len(buffer'[s]) = Len(buffer[s]) - 1
      /\ Head(buffer[s]) = buffer[s][1] /\ buffer[s][1].type = type
      /\ \A k \in 1..(Len(buffer[s]) - 1) : buffer'[s][k] = buffer[s][k + 1]
      /\ \A t \in Sockets : t # s => buffer'[t] = buffer[t]
      /\ Head(buffer[s]) \in Frames
  BY ReadDoes
<1>2. \A t \in Sockets : \A k \in 1..Len(buffer[t]) :
         /\ buffer[t][k] \in Frames
         /\ buffer[t][k].type = "SERVE" => buffer[t][k].req \in Requests
  BY LegFunctions, FrameKinds
<1>3. ASSUME NEW t \in Sockets, NEW k \in 1..Len(buffer'[t]) PROVE FrameOK(t, k)'
  <2>1. CASE t # s
    <3>1. FrameOK(t, k) /\ buffer'[t] = buffer[t] /\ k \in 1..Len(buffer[t])
      BY <1>1, <1>3, <2>1 DEF FrameInv
    <3>2. ASSUME buffer[t][k].type = "SERVE"
          PROVE  fate'[buffer[t][k].req] = "sent"
      <4>1. fate[buffer[t][k].req] = "sent" /\ buffer[t][k].req \in Requests
            /\ on[buffer[t][k].req] = t
        BY <1>2, <3>1, <3>2 DEF FrameOK
      <4>2. type = "SERVE" => on[Head(buffer[s]).req] = s
        <5>1. FrameOK(s, 1)
          BY <1>1 DEF FrameInv
        <5> QED BY <5>1, <1>1 DEF FrameOK
      <4> QED BY <4>1, <4>2, <2>1
    <3> QED BY <3>1, <3>2 DEF FrameOK
  <2>2. CASE t = s
    <3>1. k \in 1..(Len(buffer[s]) - 1) /\ k + 1 \in 1..Len(buffer[s])
          /\ buffer'[s][k] = buffer[s][k + 1]
      BY <1>1, <1>3, <2>2
    <3>2. FrameOK(s, k + 1) /\ FrameOK(s, 1)
      BY <1>1, <3>1 DEF FrameInv
    <3>3. ASSUME buffer'[s][k].type \in {"RECONNECT", "DENY"}
          PROVE  /\ s \in asked
                 /\ \A m \in k..Len(buffer'[s]) : buffer'[s][m].type # "SERVE"
      <4>1. s \in asked
            /\ \A m \in (k + 1)..Len(buffer[s]) : buffer[s][m].type # "SERVE"
        BY <3>1, <3>2, <3>3 DEF FrameOK
      <4> QED BY <4>1, <1>1, <3>1
    <3>4. ASSUME buffer'[s][k].type = "SERVE"
          PROVE  /\ on[buffer'[s][k].req] = s
                 /\ fate'[buffer'[s][k].req] = "sent"
                 /\ \A m \in 1..Len(buffer'[s]) :
                       (buffer'[s][m].type = "SERVE"
                          /\ buffer'[s][m].req = buffer'[s][k].req) => m = k
      <4>1. /\ on[buffer[s][k + 1].req] = s /\ fate[buffer[s][k + 1].req] = "sent"
            /\ \A m \in 1..Len(buffer[s]) :
                  (buffer[s][m].type = "SERVE"
                     /\ buffer[s][m].req = buffer[s][k + 1].req) => m = k + 1
            /\ buffer[s][k + 1].req \in Requests
        BY <1>2, <3>1, <3>2, <3>4 DEF FrameOK
      <4>2. ASSUME type = "SERVE" PROVE buffer[s][k + 1].req # Head(buffer[s]).req
        <5>1. 1 \in 1..Len(buffer[s]) /\ 1 # k + 1
          BY <1>1, <3>1
        <5> QED BY <5>1, <4>1, <4>2, <1>1
      <4>3. fate'[buffer[s][k + 1].req] = "sent"
        BY <4>1, <4>2
      <4>4. ASSUME NEW m \in 1..Len(buffer'[s]), buffer'[s][m].type = "SERVE",
                   buffer'[s][m].req = buffer'[s][k].req
            PROVE  m = k
        <5>1. m \in 1..(Len(buffer[s]) - 1) /\ m + 1 \in 1..Len(buffer[s])
              /\ buffer'[s][m] = buffer[s][m + 1]
          BY <1>1, <4>4
        <5>2. m + 1 = k + 1
          BY <5>1, <4>1, <4>4, <3>1
        <5> QED BY <5>2, <5>1, <3>1
      <4> QED BY <3>1, <4>1, <4>3, <4>4
    <3>5. buffer'[s][k].type = "DENY" => \A r \in Requests : on[r] # s
      BY <3>1, <3>2 DEF FrameOK
    <3> QED BY <2>2, <3>3, <3>4, <3>5 DEF FrameOK
  <2> QED BY <2>1, <2>2
<1>4. ASSUME NEW r \in Requests, fate'[r] = "sent"
      PROVE  /\ on[r] \in Sockets /\ phase'[on[r]] = "live"
             /\ \E k \in 1..Len(buffer'[on[r]]) :
                   buffer'[on[r]][k].type = "SERVE" /\ buffer'[on[r]][k].req = r
  <2>1. fate[r] = "sent" /\ ~(type = "SERVE" /\ r = Head(buffer[s]).req)
    BY <1>4
  <2>2. on[r] \in Sockets
    BY <2>1 DEF SentInv
  <2>3. PICK k \in 1..Len(buffer[on[r]]) :
           buffer[on[r]][k].type = "SERVE" /\ buffer[on[r]][k].req = r
    BY <2>1 DEF SentInv
  <2>4. CASE on[r] # s
    BY <1>1, <1>4, <2>2, <2>3, <2>4
  <2>5. CASE on[r] = s
    <3>1. k # 1
      BY <2>1, <2>3, <2>5, <1>1
    <3>2. k \in 1..Len(buffer[s])
      BY <2>3, <2>5
    <3>3. k - 1 \in 1..(Len(buffer[s]) - 1) /\ (k - 1) + 1 = k
      BY <3>1, <3>2, <1>1
    <3>4. buffer'[s][k - 1] = buffer[s][k] /\ k - 1 \in 1..Len(buffer'[s])
      BY <3>3, <1>1
    <3> QED BY <3>4, <1>4, <2>2, <2>3, <2>5
  <2> QED BY <2>4, <2>5
<1>5. FrameInv'
  BY <1>3 DEF FrameInv
<1> QED BY <1>4, <1>5 DEF SentInv

\* A frame other than a SERVE comes in.
LEMMA AskKeeps ==
    ASSUME TypeOK, FrameInv, SentInv, NEW s \in Sockets, NEW f \in Frames,
           Receive(s, f), f.type # "SERVE", UNCHANGED <<on, fate>>,
           asked \subseteq asked',
           f.type \in {"RECONNECT", "DENY"} => s \in asked',
           f.type = "DENY" => \A r \in Requests : on[r] # s
    PROVE  FrameInv' /\ SentInv'
<1> DEFINE n == Len(buffer[s])
<1>1. /\ n \in Nat /\ Len(buffer'[s]) = n + 1 /\ buffer'[s][n + 1] = f
      /\ \A k \in 1..n : buffer'[s][k] = buffer[s][k]
      /\ \A t \in Sockets : t # s => buffer'[t] = buffer[t]
      /\ UNCHANGED phase
  BY ReceiveDoes, LegFunctions
<1> HIDE DEF n
<1>2. ASSUME NEW t \in Sockets, NEW k \in 1..Len(buffer'[t]) PROVE FrameOK(t, k)'
  <2>1. CASE t # s
    <3>1. FrameOK(t, k) /\ buffer'[t] = buffer[t]
      BY <1>1, <1>2, <2>1 DEF FrameInv
    <3> QED BY <3>1 DEF FrameOK
  <2>2. CASE t = s /\ k = n + 1
    <3>1. buffer'[s][k] = f /\ \A m \in k..Len(buffer'[s]) : m = k
      BY <1>1, <2>2
    <3> QED BY <3>1, <2>2 DEF FrameOK
  <2>3. CASE t = s /\ k # n + 1
    <3>1. k \in 1..n /\ buffer'[s][k] = buffer[s][k]
      BY <1>1, <1>2, <2>3
    <3>2. FrameOK(s, k)
      BY <3>1 DEF FrameInv, n
    <3>3. ASSUME NEW m \in 1..Len(buffer'[s]), buffer'[s][m].type = "SERVE"
          PROVE  m \in 1..n /\ buffer'[s][m] = buffer[s][m]
      BY <1>1, <3>3
    <3>4. \A m \in k..Len(buffer'[s]) : m \in 1..Len(buffer'[s]) /\ m >= k
      BY <3>1, <1>1
    <3>5. buffer[s][k].type \in {"RECONNECT", "DENY"} =>
             s \in asked' /\ \A m \in k..Len(buffer'[s]) : buffer'[s][m].type # "SERVE"
      <4>1. \A m \in k..n : buffer[s][k].type \in {"RECONNECT", "DENY"}
                               => buffer[s][m].type # "SERVE"
        BY <3>2 DEF FrameOK, n
      <4>2. \A m \in 1..n : m >= k => m \in k..n
        BY <3>1, <1>1
      <4>3. buffer[s][k].type \in {"RECONNECT", "DENY"} => s \in asked'
        BY <3>2 DEF FrameOK
      <4> QED BY <3>3, <3>4, <4>1, <4>2, <4>3
    <3>6. buffer[s][k].type = "SERVE" =>
             \A m \in 1..Len(buffer'[s]) :
                (buffer'[s][m].type = "SERVE"
                   /\ buffer'[s][m].req = buffer[s][k].req) => m = k
      BY <3>2, <3>3 DEF FrameOK, n
    <3>7. /\ buffer[s][k].type = "DENY" => \A r \in Requests : on[r] # s
          /\ buffer[s][k].type = "SERVE" =>
                on[buffer[s][k].req] = s /\ fate[buffer[s][k].req] = "sent"
      BY <3>2 DEF FrameOK
    <3>8. t = s /\ buffer'[s][k] = buffer[s][k] /\ UNCHANGED <<on, fate>>
      BY <3>1, <2>3
    <3> HIDE DEF n
    <3> QED BY ONLY <3>5, <3>6, <3>7, <3>8 DEF FrameOK
  <2> QED BY <2>1, <2>2, <2>3
<1>3. ASSUME NEW r \in Requests, fate[r] = "sent"
      PROVE  /\ on[r] \in Sockets /\ phase'[on[r]] = "live"
             /\ \E k \in 1..Len(buffer'[on[r]]) :
                   buffer'[on[r]][k].type = "SERVE" /\ buffer'[on[r]][k].req = r
  <2>1. PICK k \in 1..Len(buffer[on[r]]) :
           /\ on[r] \in Sockets /\ phase[on[r]] = "live"
           /\ buffer[on[r]][k].type = "SERVE" /\ buffer[on[r]][k].req = r
    BY <1>3 DEF SentInv
  <2>2. k \in 1..Len(buffer'[on[r]]) /\ buffer'[on[r]][k] = buffer[on[r]][k]
    BY <2>1, <1>1 DEF n
  <2> QED BY <2>1, <2>2, <1>1
<1>4. FrameInv'
  BY <1>2 DEF FrameInv
<1> QED BY <1>3, <1>4 DEF SentInv

\* A SERVE comes in.
LEMMA ServeKeeps ==
    ASSUME TypeOK, FrameInv, SentInv, AskedInv,
           NEW s \in Sockets, NEW r \in Requests, GatewayServes(s, r)
    PROVE  FrameInv' /\ SentInv'
<1> DEFINE n == Len(buffer[s])
<1>1. Serve(r) \in Frames /\ Serve(r).type = "SERVE" /\ Serve(r).req = r
  BY FrameKinds DEF Serve
<1>2. /\ n \in Nat /\ Len(buffer'[s]) = n + 1 /\ buffer'[s][n + 1] = Serve(r)
      /\ \A k \in 1..n : buffer'[s][k] = buffer[s][k]
      /\ \A t \in Sockets : t # s => buffer'[t] = buffer[t]
      /\ phase[s] # "free" /\ UNCHANGED phase
  BY <1>1, ReceiveDoes, LegFunctions DEF GatewayServes
<1>3. /\ s \notin asked /\ UNCHANGED asked
      /\ \A t \in Sockets : \A k \in 1..Len(buffer[t]) : buffer[t][k].req # r
      /\ on'[r] = s /\ fate'[r] = "sent"
      /\ \A x \in Requests : x # r => on'[x] = on[x] /\ fate'[x] = fate[x]
  BY LegFunctions DEF GatewayServes
<1>4. phase[s] = "live"
  BY <1>2, <1>3, LegFunctions DEF AskedInv
<1>5. \A t \in Sockets : \A k \in 1..Len(buffer[t]) :
         buffer[t][k].type = "SERVE" => buffer[t][k].req \in Requests
  BY LegFunctions, FrameKinds
<1>6. ASSUME NEW t \in Sockets, NEW k \in 1..Len(buffer'[t]) PROVE FrameOK(t, k)'
  <2>1. CASE t # s
    <3>1. FrameOK(t, k) /\ buffer'[t] = buffer[t] /\ k \in 1..Len(buffer[t])
      BY <1>2, <1>6, <2>1 DEF FrameInv
    <3>2. buffer[t][k].req # r
          /\ (buffer[t][k].type = "SERVE" => buffer[t][k].req \in Requests)
      BY <3>1, <1>3, <1>5
    <3>3. buffer[t][k].type = "SERVE" =>
             on'[buffer[t][k].req] = t /\ fate'[buffer[t][k].req] = "sent"
      BY <3>1, <3>2, <1>3 DEF FrameOK
    <3>4. buffer[t][k].type = "DENY" => \A x \in Requests : on'[x] # t
      BY <3>1, <1>3, <2>1 DEF FrameOK
    <3> QED BY <3>1, <3>3, <3>4, <1>3 DEF FrameOK
  <2>2. CASE t = s /\ k = n + 1
    <3>1. buffer'[s][k].type = "SERVE" /\ buffer'[s][k].req = r
      BY <1>1, <1>2, <2>2
    <3>2. ASSUME NEW m \in 1..Len(buffer'[s]), buffer'[s][m].req = r PROVE m = k
      <4>1. m \in 1..n => buffer[s][m].req # r /\ buffer'[s][m] = buffer[s][m]
        BY <1>2, <1>3 DEF n
      <4> QED BY <4>1, <3>2, <1>2, <2>2
    <3> QED BY <3>1, <3>2, <1>3, <2>2 DEF FrameOK
  <2>3. CASE t = s /\ k # n + 1
    <3>1. k \in 1..n /\ buffer'[s][k] = buffer[s][k]
      BY <1>2, <1>6, <2>3
    <3>2. FrameOK(s, k) /\ buffer[s][k].req # r
      BY <3>1, <1>3 DEF FrameInv, n
    <3>3. buffer'[s][k].type \notin {"RECONNECT", "DENY"}
      BY <3>1, <3>2, <1>3 DEF FrameOK
    <3>4. ASSUME buffer'[s][k].type = "SERVE"
          PROVE  /\ on'[buffer'[s][k].req] = s
                 /\ fate'[buffer'[s][k].req] = "sent"
                 /\ \A m \in 1..Len(buffer'[s]) :
                       (buffer'[s][m].type = "SERVE"
                          /\ buffer'[s][m].req = buffer'[s][k].req) => m = k
      <4>1. /\ on[buffer[s][k].req] = s /\ fate[buffer[s][k].req] = "sent"
            /\ buffer[s][k].req \in Requests
            /\ \A m \in 1..n :
                  (buffer[s][m].type = "SERVE" /\ buffer[s][m].req = buffer[s][k].req)
                     => m = k
        BY <3>1, <3>2, <3>4, <1>5 DEF FrameOK, n
      <4>2. ASSUME NEW m \in 1..Len(buffer'[s]), buffer'[s][m].type = "SERVE",
                   buffer'[s][m].req = buffer'[s][k].req
            PROVE  m = k
        <5>1. m # n + 1
          BY <4>2, <3>1, <3>2, <1>1, <1>2
        <5>2. m \in 1..n /\ buffer'[s][m] = buffer[s][m]
          BY <5>1, <4>2, <1>2
        <5> QED BY <5>2, <4>1, <4>2, <3>1
      <4> QED BY <4>1, <4>2, <3>1, <3>2, <1>3
    <3> QED BY <3>3, <3>4, <2>3 DEF FrameOK
  <2> QED BY <2>1, <2>2, <2>3
<1>7. ASSUME NEW x \in Requests, fate'[x] = "sent"
      PROVE  /\ on'[x] \in Sockets /\ phase'[on'[x]] = "live"
             /\ \E k \in 1..Len(buffer'[on'[x]]) :
                   buffer'[on'[x]][k].type = "SERVE" /\ buffer'[on'[x]][k].req = x
  <2>1. CASE x = r
    <3>1. n + 1 \in 1..Len(buffer'[s])
      BY <1>2
    <3> QED BY <3>1, <2>1, <1>1, <1>2, <1>3, <1>4
  <2>2. CASE x # r
    <3>1. PICK k \in 1..Len(buffer[on[x]]) :
             /\ on[x] \in Sockets /\ phase[on[x]] = "live"
             /\ buffer[on[x]][k].type = "SERVE" /\ buffer[on[x]][k].req = x
      BY <1>7, <2>2, <1>3 DEF SentInv
    <3>2. k \in 1..Len(buffer'[on[x]]) /\ buffer'[on[x]][k] = buffer[on[x]][k]
      BY <3>1, <1>2 DEF n
    <3> QED BY <3>1, <3>2, <1>2, <1>3, <2>2
  <2> QED BY <2>1, <2>2
<1>8. FrameInv'
  BY <1>6 DEF FrameInv
<1> QED BY <1>7, <1>8 DEF SentInv

\* A buffer is not touched, and the requests that wait still wait.
LEMMA OtherKeeps ==
    ASSUME TypeOK, FrameInv, SentInv, UNCHANGED <<buffer, asked, on>>,
           \A r \in Requests : fate[r] = "sent" <=> fate'[r] = "sent",
           \A r \in Requests : fate[r] = "sent" => phase'[on[r]] = "live"
    PROVE  FrameInv' /\ SentInv'
<1>1. ASSUME NEW s \in Sockets, NEW k \in 1..Len(buffer[s]) PROVE FrameOK(s, k)'
  <2>1. FrameOK(s, k)
    BY DEF FrameInv
  <2>2. buffer[s][k].type = "SERVE" => buffer[s][k].req \in Requests
    BY LegFunctions, FrameKinds
  <2> QED BY <2>1, <2>2 DEF FrameOK
<1> QED BY <1>1 DEF FrameInv, SentInv

\* A free socket has a buffer that is emptied before it is used: nothing that
\* is sent waits in it, and its requests are on no socket then.
LEMMA EmptyKeeps ==
    ASSUME TypeOK, FrameInv, SentInv, NEW s \in Sockets,
           buffer' = [buffer EXCEPT ![s] = << >>],
           \A r \in Requests : on[r] = s => fate'[r] # "sent",
           \A r \in Requests : on[r] # s => (fate[r] = "sent" <=> fate'[r] = "sent"),
           \A r \in Requests : on'[r] = on[r] \/ (on[r] = s /\ on'[r] = None),
           \A t \in Sockets : t # s => (phase'[t] = phase[t] /\ (t \in asked => t \in asked'))
    PROVE  FrameInv' /\ SentInv'
<1>1. /\ Len(buffer'[s]) = 0
      /\ \A t \in Sockets : t # s => buffer'[t] = buffer[t]
  BY LegFunctions, EmptySeq
<1>2. ASSUME NEW t \in Sockets, NEW k \in 1..Len(buffer'[t]) PROVE FrameOK(t, k)'
  <2>1. t # s /\ buffer'[t] = buffer[t] /\ FrameOK(t, k) /\ k \in 1..Len(buffer[t])
    BY <1>1, <1>2 DEF FrameInv
  <2>2. buffer[t][k].type = "SERVE" => buffer[t][k].req \in Requests
    BY <2>1, LegFunctions, FrameKinds
  <2>3. \A r \in Requests : /\ on[r] = t => on'[r] = t
                            /\ on[r] # t => on'[r] # t
    BY <2>1, LegAssumption
  <2> QED BY <2>1, <2>2, <2>3 DEF FrameOK
<1>3. FrameInv'
  BY <1>2 DEF FrameInv
<1>4. ASSUME NEW r \in Requests, fate'[r] = "sent"
      PROVE  /\ on'[r] \in Sockets /\ phase'[on'[r]] = "live"
             /\ \E k \in 1..Len(buffer'[on'[r]]) :
                   buffer'[on'[r]][k].type = "SERVE" /\ buffer'[on'[r]][k].req = r
  <2>1. fate[r] = "sent" /\ on[r] # s /\ on[r] \in Sockets /\ on'[r] = on[r]
    BY <1>4 DEF SentInv
  <2> QED BY <2>1, <1>1 DEF SentInv
<1> QED BY <1>3, <1>4 DEF SentInv

\* Only a live socket has requests that are sent.
LEMMA SentIsLive ==
    ASSUME SentInv, NEW s \in Sockets, phase[s] # "live"
    PROVE  \A r \in Requests : on[r] = s => fate[r] # "sent"
BY DEF SentInv

\* The head of a buffer is one of its frames.
LEMMA HeadOK ==
    ASSUME TypeOK, FrameInv, NEW s \in Sockets, NEW type, Reads(s, type)
    PROVE  /\ FrameOK(s, 1) /\ buffer[s][1].type = type
           /\ Head(buffer[s]) = buffer[s][1]
           /\ type = "SERVE" => Head(buffer[s]).req \in Requests
<1>1. 1 \in 1..Len(buffer[s]) /\ buffer[s][1].type = type
      /\ Head(buffer[s]) = buffer[s][1] /\ Head(buffer[s]) \in Frames
  BY ReadDoes
<1> QED BY <1>1, FrameKinds DEF FrameInv

\* A RECONNECT or a DENY that is read leaves nothing to serve.
LEMMA NothingWaits ==
    ASSUME TypeOK, FrameInv, SentInv, NEW s \in Sockets,
           NEW type \in {"RECONNECT", "DENY"}, Reads(s, type)
    PROVE  \A r \in Requests : on[r] = s => fate[r] # "sent"
<1>1. /\ FrameOK(s, 1) /\ buffer[s][1].type = type
  BY HeadOK
<1>2. \A m \in 1..Len(buffer[s]) : buffer[s][m].type # "SERVE"
  BY <1>1 DEF FrameOK
<1> QED BY <1>2 DEF SentInv

\* What waits in the buffers is kept right.
LEMMA FrameStep ==
    ASSUME TypeOK, FrameInv, SentInv, AskedInv, [Next]_vars
    PROVE  FrameInv' /\ SentInv'
<1> USE DEF sockets, requests
<1>1. ASSUME NEW s \in Sockets, GatewayAsks(s) PROVE FrameInv' /\ SentInv'
  <2>1. PICK f \in {Reconnect, Deny} :
           Receive(s, f) /\ (f = Deny => \A r \in Requests : on[r] # s)
    BY <1>1 DEF GatewayAsks, Reconnect, Deny
  <2>2. f \in Frames /\ f.type \in {"RECONNECT", "DENY"}
        /\ (f.type = "DENY" => f = Deny)
    BY FrameKinds DEF Reconnect, Deny
  <2> QED BY <1>1, <2>1, <2>2, AskKeeps DEF GatewayAsks
<1>2. ASSUME NEW r \in Requests, GatewayCancels(r) PROVE FrameInv' /\ SentInv'
  <2>1. /\ on[r] \in Sockets /\ Receive(on[r], Cancel(r))
        /\ Cancel(r) \in Frames /\ Cancel(r).type = "CANCEL"
    BY <1>2, FrameKinds, LegFunctions DEF GatewayCancels, Cancel
  <2> QED BY <1>2, <2>1, AskKeeps DEF GatewayCancels
<1>3. ASSUME NEW s \in Sockets, Drops(s) \/ CloseCompletes(s) \/ Rotate(s)
      PROVE  FrameInv' /\ SentInv'
  <2>1. UNCHANGED <<phase, buffer, asked, on, fate>>
    BY <1>3 DEF Drops, CloseCompletes, Rotate, RotationIsDue, RotatesIdle, Bounces,
                RotatesDrained, Rotation
  <2> QED BY <2>1, OtherKeeps DEF SentInv
<1>4. ASSUME NEW s \in Sockets, Dials(s) PROVE FrameInv' /\ SentInv'
  <2>1. /\ phase[s] = "free" /\ buffer' = [buffer EXCEPT ![s] = << >>]
        /\ UNCHANGED fate
        /\ \A r \in Requests : on'[r] = on[r] \/ (on[r] = s /\ on'[r] = None)
        /\ \A t \in Sockets :
              t # s => (phase'[t] = phase[t] /\ (t \in asked => t \in asked'))
    BY <1>4, LegFunctions DEF Dials
  <2> QED BY <2>1, EmptyKeeps, SentIsLive
<1>5. ASSUME NEW s \in Sockets, Retires(s) PROVE FrameInv' /\ SentInv'
  <2>1. /\ phase[s] = "draining" /\ buffer' = [buffer EXCEPT ![s] = << >>]
        /\ UNCHANGED <<asked, fate, on>>
        /\ \A t \in Sockets : t # s => phase'[t] = phase[t]
    BY <1>5, LegFunctions DEF Retires
  <2> QED BY <2>1, EmptyKeeps, SentIsLive
<1>6. ASSUME NEW s \in Sockets, ReadsServe(s) PROVE FrameInv' /\ SentInv'
  <2> DEFINE h == Head(buffer[s]).req
  <2>1. PICK what \in Fates \ {"sent"} : Becomes({h}, what)
    BY <1>6 DEF ReadsServe, Fates, InProgress
  <2>2. Reads(s, "SERVE") /\ UNCHANGED <<phase, asked, on>>
    BY <1>6 DEF ReadsServe
  <2>3. /\ fate' \in [Requests -> Fates] /\ h \in Requests /\ fate[h] = "sent"
        /\ \A r \in Requests : fate'[r] = IF r = h THEN what ELSE fate[r]
    BY <2>1, <2>2, BecomesDoes, HeadOK DEF FrameOK
  <2> HIDE DEF h
  <2>4. \A r \in Requests : fate'[r] = "sent" => phase'[on[r]] = "live"
    BY <2>2, <2>3 DEF SentInv
  <2>5. \A r \in Requests :
           (fate[r] = "sent" \/ fate'[r] = "sent") =>
              \/ fate[r] = "sent" /\ fate'[r] = "sent"
              \/ r = h /\ fate'[r] # "sent"
    BY <2>3
  <2> QED BY <2>2, <2>3, <2>4, <2>5, ReadKeeps DEF h
<1>7. ASSUME NEW s \in Sockets, ReadsCancel(s) PROVE FrameInv' /\ SentInv'
  <2> DEFINE R == {Head(buffer[s]).req} \cap serving(s)
  <2>1. Reads(s, "CANCEL") /\ UNCHANGED <<phase, asked, on>> /\ Becomes(R, "none")
    BY <1>7 DEF ReadsCancel
  <2>2. /\ fate' \in [Requests -> Fates]
        /\ \A r \in Requests : fate'[r] = IF r \in R THEN "none" ELSE fate[r]
    BY <2>1, BecomesDoes DEF Fates
  <2>3. \A r \in Requests : fate[r] = "sent" <=> fate'[r] = "sent"
    BY <2>2 DEF serving
  <2>4. \A r \in Requests : fate'[r] = "sent" => phase'[on[r]] = "live"
    BY <2>1, <2>3 DEF SentInv
  <2> QED BY <2>1, <2>2, <2>3, <2>4, ReadKeeps
<1>8. ASSUME NEW s \in Sockets, ReadsReconnect(s) PROVE FrameInv' /\ SentInv'
  <2>1. Reads(s, "RECONNECT") /\ UNCHANGED <<asked, on, fate>>
        /\ phase' = [phase EXCEPT ![s] = "draining"]
    BY <1>8 DEF ReadsReconnect
  <2>2. \A r \in Requests : on[r] = s => fate[r] # "sent"
    BY <2>1, NothingWaits
  <2>3. \A r \in Requests : fate'[r] = "sent" => phase'[on[r]] = "live"
    BY <2>1, <2>2, LegFunctions DEF SentInv
  <2> QED BY <2>1, <2>3, ReadKeeps, LegFunctions
<1>9. ASSUME NEW s \in Sockets, Ends(s),
             \A r \in Requests : on[r] = s => fate[r] # "sent"
      PROVE  /\ fate' \in [Requests -> Fates] /\ UNCHANGED <<asked, on>>
             /\ \A r \in Requests : fate[r] = "sent" <=> fate'[r] = "sent"
             /\ \A r \in Requests : fate[r] = "sent" => phase'[on[r]] = "live"
  <2>1. /\ fate' \in [Requests -> Fates]
        /\ \A r \in Requests : fate'[r] = IF r \in serving(s) THEN "lost" ELSE fate[r]
    BY <1>9, BecomesDoes DEF Ends, Fates
  <2>2. \A r \in Requests : fate[r] = "sent" => phase'[on[r]] = "live"
    BY <1>9, LegFunctions DEF Ends, SentInv
  <2> QED BY <1>9, <2>1, <2>2 DEF Ends, serving
<1>10. ASSUME NEW s \in Sockets, ReadsDeny(s) PROVE FrameInv' /\ SentInv'
  <2>1. Reads(s, "DENY") /\ Ends(s)
    BY <1>10 DEF ReadsDeny
  <2>2. \A r \in Requests : on[r] = s => fate[r] # "sent"
    BY <2>1, NothingWaits
  <2> QED BY <2>1, <2>2, <1>9, ReadKeeps
<1>11. ASSUME NEW s \in Sockets, SessionEnds(s) PROVE FrameInv' /\ SentInv'
  <2>1. Ends(s) /\ UNCHANGED buffer /\ Len(buffer[s]) = 0
    BY <1>11, EmptySeq DEF SessionEnds
  <2>2. \A r \in Requests : on[r] = s => fate[r] # "sent"
    BY <2>1 DEF SentInv
  <2> QED BY <2>1, <2>2, <1>9, OtherKeeps
<1>12. ASSUME NEW r \in Requests, Finishes(r) PROVE FrameInv' /\ SentInv'
  <2>1. PICK what \in Fates \ {"sent"} : Becomes({r}, what)
    BY <1>12 DEF Finishes, Fates, InProgress
  <2>2. \A x \in Requests : fate'[x] = IF x = r THEN what ELSE fate[x]
    BY <2>1, BecomesDoes
  <2>3. UNCHANGED <<phase, buffer, asked, on>> /\ fate[r] = "serving"
    BY <1>12 DEF Finishes
  <2> QED BY <2>2, <2>3, OtherKeeps DEF SentInv
<1>13. ASSUME UNCHANGED vars PROVE FrameInv' /\ SentInv'
  BY <1>13, OtherKeeps DEF vars, SentInv
<1>14. ASSUME NEW s \in Sockets, PingFails(s) PROVE FrameInv' /\ SentInv'
  <2>1. /\ buffer' = [buffer EXCEPT ![s] = << >>] /\ UNCHANGED <<asked, on>>
        /\ \A t \in Sockets : t # s => phase'[t] = phase[t]
    BY <1>14, LegFunctions DEF PingFails
  <2>2. \A r \in Requests :
           fate'[r] = IF on[r] = s /\ fate[r] \in {"sent", "serving"} THEN "lost"
                      ELSE fate[r]
    BY <1>14, BecomesDoes DEF PingFails, Fates, InProgress
  <2>3. /\ \A r \in Requests : on[r] = s => fate'[r] # "sent"
        /\ \A r \in Requests : on[r] # s => (fate[r] = "sent" <=> fate'[r] = "sent")
    BY <2>2
  <2> QED BY <2>1, <2>3, EmptyKeeps
<1> QED
  BY ServeKeeps, <1>1, <1>2, <1>3, <1>4, <1>5, <1>6, <1>7, <1>8, <1>10, <1>11, <1>12,
     <1>13, <1>14 DEF Next, Gateway, Session

-----------------------------------------------------------------------------
(* Whose tasks a socket that cannot send has.                              *)

\* A socket in use that is not up was lost or cut, or has no task: a live one
\* then is at the end of its rotation, and takes no request any more.
LinkInv ==
    \A s \in Sockets :
        (phase[s] # "free" /\ link[s] # "up") =>
            \/ s \in broken
            \/ serving(s) = {} /\ (phase[s] = "live" => rot[s] = "rotated")

\* A drained socket was asked to reconnect.
LEMMA AskedStep ==
    ASSUME TypeOK, FrameInv, AskedInv, [Next]_vars
    PROVE  AskedInv'
<1> USE LegFunctions DEF AskedInv, sockets, requests
<1>1. ASSUME NEW s \in Sockets, ReadsReconnect(s) PROVE AskedInv'
  <2>1. Reads(s, "RECONNECT")
    BY <1>1 DEF ReadsReconnect
  <2>2. s \in asked
    BY <2>1, HeadOK DEF FrameOK
  <2> QED BY <1>1, <2>2 DEF ReadsReconnect
<1>2. ASSUME NEW s \in Sockets, Dials(s) PROVE AskedInv'
  BY <1>2 DEF Dials
<1>3. ASSUME NEW s \in Sockets, ReadsDeny(s) \/ SessionEnds(s) \/ PingFails(s)
      PROVE  AskedInv'
  BY <1>3 DEF ReadsDeny, SessionEnds, Ends, PingFails
<1>4. ASSUME NEW s \in Sockets, Retires(s) PROVE AskedInv'
  BY <1>4 DEF Retires
<1>5. ASSUME NEW s \in Sockets, GatewayAsks(s) \/ Drops(s) \/ CloseCompletes(s)
                                  \/ Rotate(s) \/ ReadsServe(s) \/ ReadsCancel(s)
      PROVE  AskedInv'
  <2>1. UNCHANGED phase /\ asked \subseteq asked'
    BY <1>5 DEF GatewayAsks, Receive, Drops, CloseCompletes, Rotate, RotationIsDue,
                RotatesIdle, Bounces, RotatesDrained, Rotation, ReadsServe, ReadsCancel
  <2> QED BY <2>1
<1>6. ASSUME NEW r \in Requests,
             \/ \E s \in Sockets : GatewayServes(s, r)
             \/ GatewayCancels(r) \/ Finishes(r)
      PROVE  AskedInv'
  <2>1. UNCHANGED <<phase, asked>>
    BY <1>6 DEF GatewayServes, GatewayCancels, Receive, Finishes
  <2> QED BY <2>1
<1>7. ASSUME UNCHANGED vars PROVE AskedInv'
  BY <1>7 DEF vars
<1> QED
  BY <1>1, <1>2, <1>3, <1>4, <1>5, <1>6, <1>7 DEF Next, Gateway, Session

\* No task starts, and what the sockets are stays or is accounted for.
LEMMA NoTaskStarts ==
    ASSUME TypeOK, LinkInv, TasksEndWithTheirSocket, UNCHANGED phase,
           asked \subseteq asked', broken \subseteq broken',
           \A r \in Requests : fate'[r] = "serving" => fate[r] = "serving" /\ on'[r] = on[r],
           \A s \in Sockets :
              (phase[s] # "free" /\ link'[s] # "up") =>
                 \/ s \in broken'
                 \/ link[s] # "up" /\ (rot[s] = "rotated" => rot'[s] = "rotated")
                 \/ serving(s) = {} /\ rot'[s] = "rotated"
    PROVE  LinkInv' /\ TasksEndWithTheirSocket'
<1>1. \A s \in Sockets : serving(s)' \subseteq serving(s)
  BY DEF serving
<1>2. ASSUME NEW s \in Sockets, phase'[s] # "free", link'[s] # "up", s \notin broken'
      PROVE  serving(s)' = {} /\ (phase'[s] = "live" => rot'[s] = "rotated")
  <2>1. s \notin broken /\ phase[s] # "free" /\ phase[s] = phase'[s]
    BY <1>2
  <2>2. CASE link[s] # "up" /\ (rot[s] = "rotated" => rot'[s] = "rotated")
    BY <2>1, <2>2, <1>1 DEF LinkInv
  <2>3. CASE serving(s) = {} /\ rot'[s] = "rotated"
    BY <2>3, <1>1
  <2> QED BY <1>2, <2>1, <2>2, <2>3
<1>3. LinkInv'
  BY <1>2 DEF LinkInv
<1>4. TasksEndWithTheirSocket'
  BY DEF TasksEndWithTheirSocket
<1> QED BY <1>3, <1>4

\* A socket is freed, with its tasks or cut from them.
LEMMA FreedKeeps ==
    ASSUME TypeOK, LinkInv, TasksEndWithTheirSocket, NEW s \in Sockets,
           phase' = [phase EXCEPT ![s] = "free"], UNCHANGED <<asked, on>>,
           \A t \in Sockets : t # s => link'[t] = link[t] /\ rot'[t] = rot[t],
           broken \subseteq broken',
           \A r \in Requests : fate'[r] = "serving" =>
              fate[r] = "serving" /\ (on[r] = s => s \in asked \cap broken')
    PROVE  LinkInv' /\ TasksEndWithTheirSocket'
<1>1. \A t \in Sockets : serving(t)' \subseteq serving(t)
  BY DEF serving
<1>2. /\ phase'[s] = "free"
      /\ \A t \in Sockets : t # s => phase'[t] = phase[t]
  BY LegFunctions
<1>3. LinkInv'
  <2>1. ASSUME NEW t \in Sockets, phase'[t] # "free", link'[t] # "up", t \notin broken'
        PROVE  serving(t)' = {} /\ (phase'[t] = "live" => rot'[t] = "rotated")
    <3>1. t # s /\ t \notin broken /\ phase[t] = phase'[t] /\ link[t] # "up"
          /\ rot'[t] = rot[t]
      BY <1>2, <2>1
    <3>2. serving(t) = {} /\ (phase[t] = "live" => rot[t] = "rotated")
      BY <2>1, <3>1 DEF LinkInv
    <3> QED BY <3>1, <3>2, <1>1
  <2> QED BY <2>1 DEF LinkInv
<1>4. TasksEndWithTheirSocket'
  <2>1. ASSUME NEW r \in Requests, fate'[r] = "serving", on[r] # None,
               phase'[on[r]] = "free"
        PROVE  on[r] \in asked \cap broken'
    <3>1. on[r] \in Sockets
      BY <2>1, LegFunctions
    <3> QED BY <2>1, <3>1, <1>2 DEF TasksEndWithTheirSocket
  <2> QED BY <2>1 DEF TasksEndWithTheirSocket
<1> QED BY <1>3, <1>4

\* A socket that cannot send has no task, or was lost or cut.
LEMMA LinkStep ==
    ASSUME TypeOK, FrameInv, AskedInv, LinkInv, TasksEndWithTheirSocket, [Next]_vars
    PROVE  LinkInv' /\ TasksEndWithTheirSocket'
<1> USE LegFunctions DEF sockets, requests, Fates, InProgress
<1>1. ASSUME NEW s \in Sockets, NEW r \in Requests, GatewayServes(s, r) PROVE LinkInv' /\ TasksEndWithTheirSocket'
  <2>1. UNCHANGED <<phase, link, rot, broken, asked>>
        /\ \A x \in Requests : fate'[x] = "serving" =>
              fate[x] = "serving" /\ on'[x] = on[x]
    BY <1>1 DEF GatewayServes, Receive
  <2> QED BY <2>1, NoTaskStarts
<1>2. ASSUME \/ \E s \in Sockets : GatewayAsks(s)
             \/ \E r \in Requests : GatewayCancels(r)
      PROVE  LinkInv' /\ TasksEndWithTheirSocket'
  <2>1. UNCHANGED <<phase, link, rot, broken, on, fate>> /\ asked \subseteq asked'
    BY <1>2 DEF GatewayAsks, GatewayCancels, Receive
  <2> QED BY <2>1, NoTaskStarts
<1>3. ASSUME NEW s \in Sockets, Drops(s) PROVE LinkInv' /\ TasksEndWithTheirSocket'
  <2>1. UNCHANGED <<phase, rot, asked, on, fate>> /\ broken' = broken \cup {s}
        /\ \A t \in Sockets : t # s => link'[t] = link[t]
    BY <1>3 DEF Drops
  <2> QED BY <2>1, NoTaskStarts
<1>4. ASSUME NEW s \in Sockets, CloseCompletes(s) PROVE LinkInv' /\ TasksEndWithTheirSocket'
  <2>1. UNCHANGED <<phase, rot, asked, broken, on, fate>> /\ link[s] # "up"
        /\ \A t \in Sockets : t # s => link'[t] = link[t]
    BY <1>4 DEF CloseCompletes
  <2> QED BY <2>1, NoTaskStarts
<1>5. ASSUME NEW s \in Sockets, Dials(s) PROVE LinkInv' /\ TasksEndWithTheirSocket'
  <2>1. /\ phase'[s] = "live" /\ link'[s] = "up"
        /\ \A t \in Sockets : t # s =>
              /\ phase'[t] = phase[t] /\ link'[t] = link[t]
              /\ t \in asked => t \in asked'
              /\ t \in broken => t \in broken'
        /\ \A r \in Requests : on'[r] = IF on[r] = s THEN None ELSE on[r]
        /\ UNCHANGED <<rot, fate>>
    BY <1>5 DEF Dials
  <2>2. \A t \in Sockets : serving(t)' \subseteq serving(t)
    BY <2>1, LegAssumption DEF serving
  <2>3. LinkInv'
    <3>1. ASSUME NEW t \in Sockets, phase'[t] # "free", link'[t] # "up",
                 t \notin broken'
          PROVE  serving(t)' = {} /\ (phase'[t] = "live" => rot'[t] = "rotated")
      <4>1. t # s /\ phase[t] = phase'[t] /\ link[t] # "up" /\ t \notin broken
        BY <2>1, <3>1
      <4> QED BY <4>1, <3>1, <2>1, <2>2 DEF LinkInv
    <3> QED BY <3>1 DEF LinkInv
  <2>4. TasksEndWithTheirSocket'
    <3>1. ASSUME NEW r \in Requests, fate[r] = "serving", on'[r] # None,
                 phase'[on'[r]] = "free"
          PROVE  on'[r] \in asked' \cap broken'
      <4>1. on'[r] = on[r] /\ on[r] # s /\ on[r] \in Sockets
        BY <2>1, <3>1
      <4> QED BY <2>1, <3>1, <4>1 DEF TasksEndWithTheirSocket
    <3> QED BY <2>1, <3>1 DEF TasksEndWithTheirSocket
  <2> QED BY <2>3, <2>4
<1>6. ASSUME NEW s \in Sockets, ReadsServe(s) PROVE LinkInv' /\ TasksEndWithTheirSocket'
  <2> DEFINE h == Head(buffer[s]).req
  <2> DEFINE what == IF rot[s] \notin {"bouncing", "rotated"} THEN "serving"
                     ELSE IF link[s] = "up" THEN "replied"
                     ELSE "lost"
  <2>1. Reads(s, "SERVE") /\ UNCHANGED <<phase, link, rot, asked, broken, on>>
        /\ Becomes({h}, what)
    BY <1>6 DEF ReadsServe
  <2>2. phase[s] = "live" /\ h \in Requests /\ on[h] = s
    BY <2>1, HeadOK, ReadDoes DEF FrameOK
  <2>3. \A r \in Requests : fate'[r] = IF r = h THEN what ELSE fate[r]
    BY <2>1, BecomesDoes
  <2> HIDE DEF h
  <2>4. CASE what = "serving"
    <3>1. \A r \in Requests : r # h => fate'[r] = fate[r]
      BY <2>3
    <3>2. rot[s] # "rotated"
      BY <2>4
    <3>3. LinkInv'
      <4>1. ASSUME NEW t \in Sockets, phase[t] # "free", link[t] # "up", t \notin broken
            PROVE  serving(t)' = {} /\ (phase[t] = "live" => rot[t] = "rotated")
        <5>1. serving(t) = {} /\ (phase[t] = "live" => rot[t] = "rotated")
          BY <4>1 DEF LinkInv
        <5>2. t # s
          BY <5>1, <3>2, <2>2
        <5>3. serving(t)' \subseteq serving(t)
          BY <5>2, <2>1, <2>2, <3>1 DEF serving
        <5> QED BY <5>1, <5>3
      <4> QED BY <4>1, <2>1 DEF LinkInv
    <3>4. TasksEndWithTheirSocket'
      BY <2>1, <2>2, <3>1 DEF TasksEndWithTheirSocket
    <3> QED BY <3>3, <3>4
  <2>5. CASE what # "serving"
    <3>1. \A r \in Requests : fate'[r] = "serving" => fate[r] = "serving"
      BY <2>3, <2>5
    <3> QED BY <2>1, <3>1, NoTaskStarts
  <2> QED BY <2>4, <2>5
<1>7. ASSUME NEW s \in Sockets, ReadsCancel(s) PROVE LinkInv' /\ TasksEndWithTheirSocket'
  <2>1. UNCHANGED <<phase, link, rot, asked, broken, on>>
        /\ Becomes({Head(buffer[s]).req} \cap serving(s), "none")
    BY <1>7 DEF ReadsCancel
  <2>2. \A r \in Requests : fate'[r] = "serving" => fate[r] = "serving"
    BY <2>1, BecomesDoes
  <2> QED BY <2>1, <2>2, NoTaskStarts
<1>8. ASSUME NEW s \in Sockets, ReadsReconnect(s) PROVE LinkInv' /\ TasksEndWithTheirSocket'
  <2>1. /\ UNCHANGED <<link, asked, broken, on, fate>> /\ phase[s] = "live"
        /\ phase'[s] = "draining"
        /\ \A t \in Sockets : t # s => phase'[t] = phase[t] /\ rot'[t] = rot[t]
    BY <1>8 DEF ReadsReconnect, Reads
  <2>2. \A t \in Sockets : serving(t)' = serving(t)
    BY <2>1 DEF serving
  <2>3. LinkInv'
    BY <2>1, <2>2 DEF LinkInv
  <2>4. TasksEndWithTheirSocket'
    BY <2>1 DEF TasksEndWithTheirSocket
  <2> QED BY <2>3, <2>4
<1>9. ASSUME NEW s \in Sockets, Ends(s) PROVE LinkInv' /\ TasksEndWithTheirSocket'
  <2>1. \A r \in Requests : fate'[r] = IF r \in serving(s) THEN "lost" ELSE fate[r]
    BY <1>9, BecomesDoes DEF Ends
  <2>2. \A r \in Requests : fate'[r] = "serving" => fate[r] = "serving" /\ on[r] # s
    BY <2>1 DEF serving
  <2> QED BY <1>9, <2>2, FreedKeeps DEF Ends
<1>10. ASSUME NEW s \in Sockets, Retires(s) PROVE LinkInv' /\ TasksEndWithTheirSocket'
  <2>1. s \in asked
    BY <1>10 DEF Retires, AskedInv
  <2>2. \A r \in Requests : (fate[r] = "serving" /\ on[r] = s) => s \in broken'
    BY <1>10 DEF Retires, serving
  <2>3. /\ phase' = [phase EXCEPT ![s] = "free"] /\ UNCHANGED <<rot, asked, on, fate>>
        /\ \A t \in Sockets : t # s => link'[t] = link[t]
        /\ broken \subseteq broken'
    BY <1>10 DEF Retires
  <2> QED BY <2>1, <2>2, <2>3, FreedKeeps
<1>11. ASSUME NEW s \in Sockets, Rotate(s) PROVE LinkInv' /\ TasksEndWithTheirSocket'
  <2>1. /\ UNCHANGED <<phase, asked, on, fate>> /\ broken \subseteq broken'
        /\ \A t \in Sockets : t # s => link'[t] = link[t] /\ rot'[t] = rot[t]
    BY <1>11 DEF Rotate, RotationIsDue, RotatesIdle, Bounces, RotatesDrained, Rotation,
                 Closing
  <2>2. \/ s \in broken'
        \/ link'[s] = link[s] /\ rot[s] # "rotated"
        \/ serving(s) = {} /\ rot'[s] = "rotated"
    BY <1>11 DEF Rotate, RotationIsDue, RotatesIdle, Bounces, RotatesDrained, Rotation
  <2> QED BY <2>1, <2>2, NoTaskStarts
<1>12. ASSUME NEW r \in Requests, Finishes(r) PROVE LinkInv' /\ TasksEndWithTheirSocket'
  <2>1. PICK what \in Fates \ {"serving"} : Becomes({r}, what)
    BY <1>12 DEF Finishes
  <2>2. \A x \in Requests : fate'[x] = "serving" => fate[x] = "serving"
    BY <2>1, BecomesDoes
  <2> QED BY <1>12, <2>2, NoTaskStarts DEF Finishes
<1>13. ASSUME UNCHANGED vars PROVE LinkInv' /\ TasksEndWithTheirSocket'
  BY <1>13, NoTaskStarts DEF vars
<1>14. ASSUME NEW s \in Sockets, Session(s) PROVE LinkInv' /\ TasksEndWithTheirSocket'
  BY <1>6, <1>7, <1>8, <1>9, <1>14 DEF Session, ReadsDeny, SessionEnds
<1>15. ASSUME NEW s \in Sockets, Gateway(s) PROVE LinkInv' /\ TasksEndWithTheirSocket'
  BY <1>1, <1>2, <1>3, <1>4, <1>15 DEF Gateway
<1>16. ASSUME NEW s \in Sockets, PingFails(s) PROVE LinkInv' /\ TasksEndWithTheirSocket'
  <2>1. \A r \in Requests :
           fate'[r] = IF on[r] = s /\ fate[r] \in {"sent", "serving"} THEN "lost"
                      ELSE fate[r]
    BY <1>16, BecomesDoes DEF PingFails
  <2>2. \A r \in Requests : fate'[r] = "serving" => fate[r] = "serving" /\ on[r] # s
    BY <2>1
  <2> QED BY <1>16, <2>2, FreedKeeps DEF PingFails
<1>17. CASE Next
  BY <1>2, <1>5, <1>10, <1>11, <1>12, <1>14, <1>15, <1>16, <1>17 DEF Next
<1> QED BY <1>13, <1>17

-----------------------------------------------------------------------------
(* The theorems.                                                           *)

\* What a leg keeps to at each step.
LegInv ==
    /\ TypeOK
    /\ FrameInv /\ SentInv /\ AskedInv
    /\ LinkInv /\ TasksEndWithTheirSocket

\* A leg starts with nothing.
LEMMA LegInit == Init => LegInv
<1> SUFFICES ASSUME Init PROVE LegInv
  OBVIOUS
<1>1. TypeOK
  <2>1. << >> \in Seq(Frames) /\ Len(<< >>) <= MaxBuffer
    BY LegAssumption, EmptySeq
  <2> QED BY <2>1 DEF Init, TypeOK, Fates
<1>2. \A s \in Sockets : Len(buffer[s]) = 0
  BY EmptySeq DEF Init
<1>3. FrameInv /\ SentInv /\ AskedInv
  BY <1>2 DEF Init, FrameInv, SentInv, AskedInv
<1>4. LinkInv /\ TasksEndWithTheirSocket
  BY DEF Init, LinkInv, TasksEndWithTheirSocket
<1> QED BY <1>1, <1>3, <1>4 DEF LegInv

\* What a leg keeps to, at every moment.
LEMMA LegKept == Spec => []LegInv
<1>1. LegInv /\ [Next]_vars => LegInv'
  BY TypeStep, FrameStep, AskedStep, LinkStep DEF LegInv
<1> QED BY LegInit, <1>1, PTL DEF Spec

\* The variables keep their types (_session, _LegRotation, _retire), and a
\* socket that no task has is closed.
THEOREM TypeCorrect == Spec => []TypeOK
<1>1. LegInv => TypeOK
  BY DEF LegInv
<1> QED BY <1>1, LegKept, PTL

\* A drain loses nothing, started or not: when _session hands its socket to
\* _retire, every SERVE that came on it has been read.
THEOREM DrainsLoseNothing == Spec => []DrainLosesNothing
<1>1. LegInv => DrainLosesNothing
  BY SentIsLive DEF LegInv, DrainLosesNothing
<1> QED BY <1>1, LegKept, PTL

\* Only a task _retire gives up on outlives its socket: the session that ends
\* any other way cancels what it was serving.
THEOREM TasksEnd == Spec => []TasksEndWithTheirSocket
<1>1. LegInv => TasksEndWithTheirSocket
  BY DEF LegInv
<1> QED BY <1>1, LegKept, PTL

\* A rotation or a drain does not cut a request the leg has started: it is lost
\* only with a socket the network took or a time cap of _LegRotation or _retire
\* cut.
THEOREM AcceptedNotCut == Spec => AcceptedIsNotCut
<1> USE DEF sockets, requests
<1>1. ASSUME LegInv, [Next]_vars, NEW r \in Requests,
             fate[r] = "serving", fate'[r] = "lost"
      PROVE  on[r] \in broken \cup {None}
  <2> USE <1>1 DEF LegInv
  <2>1. ASSUME NEW s \in Sockets, ReadsServe(s) PROVE FALSE
    <3>1. Reads(s, "SERVE") /\ \E what \in Fates : Becomes({Head(buffer[s]).req}, what)
      BY <2>1 DEF ReadsServe, Fates, InProgress
    <3>2. fate[Head(buffer[s]).req] = "sent"
      BY <3>1, HeadOK DEF FrameOK
    <3> QED BY <3>1, <3>2, BecomesDoes
  <2>2. ASSUME NEW s \in Sockets, ReadsCancel(s) PROVE FALSE
    <3>1. Becomes({Head(buffer[s]).req} \cap serving(s), "none") /\ "none" \in Fates
      BY <2>2 DEF ReadsCancel, Fates
    <3> QED BY <3>1, BecomesDoes
  <2>3. ASSUME NEW s \in Sockets, Ends(s) PROVE on[r] = s
    <3>1. Becomes(serving(s), "lost") /\ "lost" \in Fates
      BY <2>3 DEF Ends, Fates
    <3> QED BY <3>1, BecomesDoes DEF serving
  <2>4. ASSUME NEW s \in Sockets, ReadsDeny(s) PROVE FALSE
    <3>1. Reads(s, "DENY") /\ Ends(s)
      BY <2>4 DEF ReadsDeny
    <3> QED BY <3>1, <2>3, HeadOK DEF FrameOK
  <2>5. ASSUME NEW s \in Sockets, SessionEnds(s) PROVE on[r] \in broken
    <3>1. on[r] = s /\ phase[s] = "live" /\ link[s] = "closed"
      BY <2>5, <2>3 DEF SessionEnds
    <3> QED BY <3>1 DEF LinkInv, serving
  <2>6. ASSUME NEW x \in Requests, Finishes(x) PROVE on[r] \in broken \cup {None}
    <3>1. ASSUME on[r] # None PROVE link[on[r]] # "up"
      <4>1. CASE link[on[x]] = "up" /\ on[x] # None
        <5>1. Becomes({x}, "replied") /\ "replied" \in Fates
          BY <2>6, <4>1 DEF Finishes, Fates
        <5> QED BY <5>1, BecomesDoes
      <4>2. CASE ~(link[on[x]] = "up" /\ on[x] # None)
        <5>1. Becomes({x}, "lost") /\ "lost" \in Fates
          BY <2>6, <4>2 DEF Finishes, Fates
        <5>2. r = x
          BY <5>1, BecomesDoes
        <5> QED BY <5>2, <4>2, <3>1
      <4> QED BY <4>1, <4>2
    <3>2. on[r] \in Sockets \cup {None}
      BY LegFunctions
    <3> QED BY <3>1, <3>2 DEF LinkInv, serving, TasksEndWithTheirSocket
  <2>7. ASSUME NEW s \in Sockets, NEW x \in Requests, GatewayServes(s, x) PROVE FALSE
    BY <2>7, LegFunctions DEF GatewayServes
  <2>8. CASE UNCHANGED fate
    BY <2>8
  <2>9. ASSUME NEW s \in Sockets,
               GatewayAsks(s) \/ Drops(s) \/ CloseCompletes(s) \/ Dials(s)
                  \/ ReadsReconnect(s) \/ Retires(s) \/ Rotate(s)
        PROVE  UNCHANGED fate
    BY <2>9 DEF GatewayAsks, Drops, CloseCompletes, Dials, ReadsReconnect, Retires,
                Rotate, RotationIsDue, RotatesIdle, Bounces, RotatesDrained, Rotation
  <2>10. ASSUME NEW x \in Requests, GatewayCancels(x) PROVE UNCHANGED fate
    BY <2>10 DEF GatewayCancels
  <2>11. CASE UNCHANGED vars
    BY <2>11 DEF vars
  <2>12. ASSUME NEW s \in Sockets, PingFails(s) PROVE on[r] \in broken
    <3>1. on[r] = s
      BY <2>12, BecomesDoes DEF PingFails, Fates
    <3>2. phase[s] = "live" /\ link[s] # "up" /\ r \in serving(s)
      BY <2>12, <3>1 DEF PingFails, serving
    <3> QED BY <3>1, <3>2 DEF LinkInv
  <2> QED
    BY <2>1, <2>2, <2>4, <2>5, <2>6, <2>7, <2>8, <2>9, <2>10, <2>11, <2>12
       DEF Next, Gateway, Session
<1>2. LegInv /\ [Next]_vars
         => (\A r \in Requests : (fate[r] = "serving" /\ fate'[r] = "lost")
                => on[r] \in broken \cup {None})
  BY <1>1
<1> QED BY <1>2, LegKept, PTL DEF Spec, AcceptedIsNotCut

=============================================================================
