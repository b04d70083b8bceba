------------------------------ MODULE MCDrift ------------------------------
(* Two nodes up to five milliseconds early or late, three requests.  An    *)
(* answer may come within the millisecond.                                 *)
EXTENDS Drift

MCSkew == {-5, -3, 0, 2}
MCDelay == {0, 1, 3}
MCWork == {0, 1}
=============================================================================
