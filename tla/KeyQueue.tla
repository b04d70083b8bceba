------------------------------ MODULE KeyQueue ------------------------------
(***************************************************************************)
(* What the keyframe list of a node promises: a queue of keyframes ordered *)
(* by time.  A key that is older than the newest one is dropped, keys      *)
(* leave only at the front.  Keyframes implements it with a linked list;   *)
(* Firmware is built on it.                                                *)
(*                                                                         *)
(* A keyframe is its time; the colours are never looked at by the list.    *)
(***************************************************************************)
EXTENDS Integers, Sequences

CONSTANT Time           \* the times a keyframe may have

ASSUME TimeAssumption == Time \subseteq Nat

VARIABLE keys           \* the times in the queue, oldest first

Newest == keys[Len(keys)]

Accepts(t) == keys = << >> \/ Newest <= t

EmptyQueue == keys = << >>

Insert(t) == keys' = IF Accepts(t) THEN Append(keys, t) ELSE keys

DropFirst == keys # << >> /\ keys' = Tail(keys)

QueueNext == DropFirst \/ \E t \in Time : Insert(t)

QueueSpec == EmptyQueue /\ [][QueueNext]_keys

(* Keys are played in the order of their times, so the list must be in     *)
(* that order whatever arrives.                                            *)
InOrder == \A i, j \in 1 .. Len(keys) : i < j => keys[i] <= keys[j]
=============================================================================
