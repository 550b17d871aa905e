----------------------------- MODULE MCEngyJob -----------------------------
(* Small instances of EngyJob for TLC: one request of any shape by itself, *)
(* or a short one beside another.                                          *)
EXTENDS EngyJob, TLC

CONSTANTS r1, r2, MaxTokens

ByItself ==
    {s \in [max : 0..MaxTokens, eos : 1..(MaxTokens + 1), stream : BOOLEAN] :
        s.eos <= s.max + 1}

Plain == [max |-> 1, eos |-> 2, stream |-> FALSE]
Streamed == [max |-> 1, eos |-> 2, stream |-> TRUE]

MCLoads ==
    {(r1 :> s) @@ (r2 :> None) : s \in ByItself}
    \cup {(r1 :> s) @@ (r2 :> Plain) : s \in {Plain, Streamed}}
=============================================================================
