-------------------------------- MODULE Song --------------------------------
(***************************************************************************)
(* What an IPlayer promises of one audio file: it sounds after play(),     *)
(* ends by itself or when it is stopped, and at most one buffer is heard   *)
(* after stop().                                                           *)
(***************************************************************************)
EXTENDS Naturals

VARIABLES phase,   \* "silent", "sounding" or "over"
          stopped, \* stop() was called
          tail     \* buffers heard since then

songVars == <<phase, stopped, tail>>

Init == phase = "silent" /\ stopped = FALSE /\ tail = 0

Start == phase = "silent" /\ phase' = "sounding" /\ UNCHANGED <<stopped, tail>>

LastBuffer ==
  phase = "sounding" /\ stopped /\ tail = 0 /\ tail' = 1 /\ UNCHANGED <<phase, stopped>>

End == phase = "sounding" /\ phase' = "over" /\ UNCHANGED <<stopped, tail>>

Stop == stopped' = TRUE /\ UNCHANGED <<phase, tail>>

Next == Start \/ LastBuffer \/ End \/ Stop

SafeSpec == Init /\ [][Next]_songVars

(* A song may be endless, a stopped one is not.                            *)
Spec == SafeSpec /\ WF_songVars(stopped /\ End)
=============================================================================
