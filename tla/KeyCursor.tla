------------------------------ MODULE KeyCursor ------------------------------
(***************************************************************************)
(* What the reader of an animation is promised: a cursor per channel that  *)
(* counts the keyframes handed out so far.  A page of n advances every     *)
(* cursor by n, or to the end of its channel; nothing else moves it but a  *)
(* reset, which rewinds all of them.  BaseAnimation implements this with   *)
(* "index of the last key sent", an END mark and a flag.                   *)
(***************************************************************************)
EXTENDS Integers, Sequences

CONSTANTS Channel,    \* the channels of the animation
          PageSize    \* the values of keysPerChannel that callers use

VARIABLES data,       \* the keyframe times of every channel
          delivered   \* how many keys of every channel were handed out

cursorVars == <<data, delivered>>

AtMost(n, limit) == IF n < limit THEN n ELSE limit

CursorInit == delivered = [ch \in Channel |-> 0]

Page(n) ==
  /\ delivered' = [ch \in Channel |->
                     AtMost(delivered[ch] + n, Len(data[ch]))]
  /\ UNCHANGED data

Rewind ==
  /\ delivered' = [ch \in Channel |-> 0]
  /\ UNCHANGED data

CursorNext == Rewind \/ \E n \in PageSize : Page(n)

CursorSpec == CursorInit /\ [][CursorNext]_cursorVars
==============================================================================
