----------------------------- MODULE MCRegistry -----------------------------
(* Three nodes, so that two channels can be shared out unevenly.           *)
EXTENDS Registry, TLC

Interchangeable == Permutations(Node)
=============================================================================
