---------------------------- MODULE MCValidator ----------------------------
(* Small instances of Validator for TLC: three hotkeys, the owner among    *)
(* them; each epoch's result pays one miner, so whether it lands turns on  *)
(* that miner's registration.  The first has a row without weight, the     *)
(* second two rows of the same miner, whose shares do not come out even.   *)
EXTENDS Validator, TLC

CONSTANTS o, m1, m2

MCHotkeys == {o, m1, m2}
MCUid == o :> 0 @@ m1 :> 1 @@ m2 :> 2
MCRows == [e \in Epochs |-> IF e = 1 THEN <<<<m1, 2>>, <<o, 0>>>>
                                     ELSE <<<<m2, 1>>, <<m2, 2>>>>]

\* One block, twelve seconds.
SteadyPace == {<<1, 1>>}
=============================================================================
