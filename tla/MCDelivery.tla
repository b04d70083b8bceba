----------------------------- MODULE MCDelivery -----------------------------
(* Three channels of one to MaxKeys keys, all at different times.            *)
EXTENDS Delivery

CONSTANT MaxKeys

MCKey == 0 .. KEYTIME_MAX - 1

MCDrawn ==
  {[ch \in 0 .. NChannels - 1 |->
      [i \in 1 .. n[ch] |-> NChannels * i + ch]] :
   n \in [0 .. NChannels - 1 -> 1 .. MaxKeys]}
=============================================================================
