---------------------------- MODULE MCKeyframes ----------------------------
(* A heap of four cells and three times: long enough for an old key, a key *)
(* at the same time, and cells that are freed and handed out again.        *)
EXTENDS Keyframes

MCTime == 0 .. 2
=============================================================================
