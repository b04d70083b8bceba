---------------------------- MODULE MCStreaming ----------------------------
(* Two channels: keys at an even distance, in bursts, and few far apart,   *)
(* so that each comes to be the one that needs the next page first.        *)
EXTENDS Streaming

MCChannel == 0 .. 1

Even == <<0, 2, 4, 6, 8>>
Bursts == <<0, 1, 4, 5, 8>>
Far == <<0, 4, 8>>
Late == <<0, 5, 6, 7>>

Channels(first, second) == [ch \in MCChannel |-> IF ch = 0 THEN first ELSE second]

MCAnimation ==
  {Channels(Even, Bursts), Channels(Bursts, Far), Channels(Far, Late),
   Channels(Late, Even)}
=============================================================================
