------------------------------ MODULE MCDoors ------------------------------
(* Doors with its sequences of doors written out.                          *)
EXTENDS Doors

CONSTANTS lb, spare

\* One primary, configured twice.
TwoSlots == <<lb, lb>>
OnePrimary == <<lb>>
OneBackup == <<spare>>

=============================================================================
