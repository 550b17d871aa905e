-------------------------------- MODULE Buyer --------------------------------
(***************************************************************************)
(* What the reference miner promises the buyer of a request, with threads, *)
(* serve calls, chunks and queues left out: the tokens of one answer, told *)
(* in order if they are streamed, then the answer, which is what was told; *)
(* and no answer to a buyer who has left.                                  *)
(***************************************************************************)
EXTENDS Integers, Sequences

CONSTANTS Requests, None

VARIABLES
    asked,   \* request -> [max, eos, stream], or None
    told,    \* request -> the tokens streamed so far
    reply,   \* request -> the end of it: a response, an error, or nothing yet
    left,    \* requests whose buyer left while they were generated
    folded   \* requests whose first token was folded into the prompt

buyerVars == <<asked, told, reply, left, folded>>

NoReply == [how |-> "none", tokens |-> << >>]

\* Tokens are named by their position, as in EngyChunks.
Tokens(first, last) == [i \in 1..(last - first + 1) |-> first + i - 1]

\* How long the answer is: the budget, or less if the model stops before.
Whole(c) == IF asked[c].max <= asked[c].eos THEN asked[c].max ELSE asked[c].eos

BuyerInit ==
    /\ told = [c \in Requests |-> << >>]
    /\ reply = [c \in Requests |-> NoReply]
    /\ left = {}
    /\ folded = {}

\* What is streamed is the answer, from its beginning on.
Tell(c) ==
    /\ asked[c] # None /\ asked[c].stream
    /\ reply[c] = NoReply
    /\ \E n \in Len(told[c])..Whole(c) :
          told' = [told EXCEPT ![c] = Tokens(1, n)]
    /\ UNCHANGED <<asked, reply, left, folded>>

\* The buyer leaves before the answer is complete.
Leave(c) ==
    /\ reply[c] = NoReply
    /\ left' = left \cup {c}
    /\ UNCHANGED <<asked, told, reply, folded>>

\* The serve had the whole prompt cached, and answered without a first row.
Fold(c) ==
    /\ reply[c] = NoReply
    /\ folded' = folded \cup {c}
    /\ UNCHANGED <<asked, told, reply, left>>

\* The answer is whole, and nothing that was told is missing from it or was
\* not told.  One with a folded token lacks that, and may be short.
Respond(c) ==
    /\ asked[c] # None
    /\ reply[c] = NoReply
    /\ c \notin left
    /\ \E n \in 0..Whole(c) :
          /\ IF c \in folded THEN n >= 1 ELSE n = Whole(c)
          /\ asked[c].stream => told[c] = Tokens(1, n)
          /\ reply' = [reply EXCEPT ![c] =
                           [how |-> "response",
                            tokens |-> Tokens(IF c \in folded THEN 2 ELSE 1, n)]]
    /\ UNCHANGED <<asked, told, left, folded>>

Fail(c) ==
    /\ reply[c] = NoReply
    /\ reply' = [reply EXCEPT ![c] = [how |-> "error", tokens |-> << >>]]
    /\ UNCHANGED <<asked, told, left, folded>>

BuyerNext ==
    \E c \in Requests : Tell(c) \/ Leave(c) \/ Fold(c) \/ Respond(c) \/ Fail(c)

BuyerSpec == BuyerInit /\ [][BuyerNext]_buyerVars

=============================================================================
