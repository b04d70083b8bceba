-------------------------- MODULE MCBaseAnimation --------------------------
(* Two channels of one to four keys, every non-decreasing choice of their  *)
(* times.                                                                  *)
EXTENDS BaseAnimation

CONSTANTS MinKeys, MaxKeys

MCChannel == 0 .. 1
MCPageSize == 1 .. 3

MCKeys ==
  {keys \in UNION {[1 .. n -> 0 .. KEYTIME_MAX - 1] : n \in MinKeys .. MaxKeys} :
     \A i \in 1 .. Len(keys) - 1 : keys[i] <= keys[i + 1]}

MCAnimation == [MCChannel -> MCKeys]
=============================================================================
