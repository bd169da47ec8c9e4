-------------------------- MODULE MCCommandDispatch --------------------------
(* Instances of CommandDispatch for TLC. *)
EXTENDS CommandDispatch

CONSTANTS g1, g2, c1, c2, d1

OneCommand == {c1}
TwoCommands == {c1, c2}
OneDevice == {d1}
AllOnD1 == [c \in Commands |-> d1]
=============================================================================
