----------------------------- MODULE MCPlayer2 -----------------------------
(* The player has no parameters: its whole state space is checked.         *)
EXTENDS Player2
=============================================================================
