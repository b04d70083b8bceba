------------------------------- MODULE Drift -------------------------------
(***************************************************************************)
(* NodeController::correctDrift() with Node::sendSyncRequest(): after the  *)
(* nodes were told to play, the controller asks one of them four times how *)
(* long it has been playing, takes the answer with the shortest round trip *)
(* and broadcasts a correction, which every node takes as its timeDrift.   *)
(*                                                                         *)
(* Times are whole milliseconds, as in the code.  A request is sent at     *)
(* time 0: only differences of times are used.  skew[n] is how far the     *)
(* elapsed time of node n is ahead of the controller's; a delayed "pl"     *)
(* makes it negative.                                                      *)
(***************************************************************************)
EXTENDS Integers, Sequences, SequencesExt

CONSTANTS PlayingNode, \* the nodes that were told to play
          Skew,      \* how far a node may be ahead
          Delay,     \* how long a datagram may travel
          Work,      \* how long a node may take to answer: the code assumes 1
          Pings,     \* requests: 4 in the code
          Tolerance, \* offsets that are not corrected: 10 in the code
          MaxInt     \* std::numeric_limits<int32_t>::max()

ASSUME DriftAssumption ==
  /\ PlayingNode # {}
  /\ Skew \subseteq Int
  /\ Delay \subseteq Nat
  /\ Work \subseteq Nat
  /\ Pings \in Nat
  /\ Tolerance \in Nat
  /\ MaxInt \in Nat

VARIABLES node,       \* the first of nodeIdToNode_, in no particular order
          skew,
          timeDrift,  \* of each node, 0 since startKeyframeAnimation()
          asked,      \* requests made
          data,       \* the answers: offset and round trip
          selected,   \* the answer that was taken
          told        \* the nodes that took the correction

driftVars == <<node, skew, timeDrift, asked, data, selected, told>>

Abs(n) == IF n < 0 THEN -n ELSE n

(* Division rounds towards zero.                                           *)
Half(n) == IF n < 0 THEN -((-n) \div 2) ELSE n \div 2

NotYet == [offset |-> 0, rt |-> -2]
NoAnswer == [offset |-> 0, rt |-> MaxInt]

Done == selected # NotYet
Corrected == Done /\ Abs(selected.offset) > Tolerance
------------------------------------------------------------------------------
DriftInit ==
  /\ node \in PlayingNode
  /\ skew \in [PlayingNode -> Skew]
  /\ timeDrift = [n \in PlayingNode |-> 0]
  /\ asked = 0
  /\ data = << >>
  /\ selected = NotYet
  /\ told = {}

(* sendSyncRequest(): t0 and t3 are read here, t1 comes from the node, t2  *)
(* is made up.                                                             *)
AnswerOneWay(t1, t3) == [offset |-> t1, rt |-> t3 - 1]

Answer(t1, t3) ==
  LET t0 == 0
      t2 == t1 + 1
  IN  [offset |-> Half((t1 - t0) + (t2 - t3)), rt |-> (t3 - t0) - (t2 - t1)]

SyncRequest ==
  /\ asked < Pings
  /\ \E up, down \in Delay, work \in Work :
       data' = Append(data, Answer(up + skew[node] + timeDrift[node],
                                   up + work + down))
  /\ asked' = asked + 1
  /\ UNCHANGED <<node, skew, timeDrift, selected, told>>

(* No answer within 250 ms.  A late one finds its socket closed.           *)
SyncRequestLost ==
  /\ asked < Pings
  /\ asked' = asked + 1
  /\ UNCHANGED <<node, skew, timeDrift, data, selected, told>>

(* Round trips are stored as unsigned numbers, and minRound is converted   *)
(* to one to be compared with them.                                        *)
Unsigned(n) == IF n < 0 THEN n + 2 * (MaxInt + 1) ELSE n

Counts(p) == Unsigned(p.rt) < MaxInt

MinorAnyOf(p) == p \in ToSet(data) /\ Counts(p)

(* The loop keeps the first of the pairs with the smallest round trip: two *)
(* pairs with the same round trip differ in the offset.                    *)
Minor(p) ==
  \E i \in 1 .. Len(data) :
    /\ p = data[i] /\ Counts(p)
    /\ \A j \in 1 .. Len(data) :
         Counts(data[j]) => \/ p.rt < data[j].rt
                            \/ p.rt = data[j].rt /\ i <= j

(* The correction reaches any of the nodes.                                *)
Apply(p) ==
  /\ selected' = p
  /\ IF Abs(p.offset) > Tolerance
       THEN /\ told' \in SUBSET PlayingNode
            /\ timeDrift' = [n \in PlayingNode |->
                               IF n \in told' THEN -p.offset ELSE timeDrift[n]]
       ELSE UNCHANGED <<told, timeDrift>>
  /\ UNCHANGED <<node, skew, asked, data>>

CorrectDrift ==
  /\ asked = Pings /\ ~Done
  /\ \/ \E p \in ToSet(data) : Minor(p) /\ Apply(p)
     \/ (\A p \in ToSet(data) : ~Counts(p)) /\ Apply(NoAnswer)

DriftNext == SyncRequest \/ SyncRequestLost \/ CorrectDrift

DriftSpec == DriftInit /\ [][DriftNext]_driftVars
------------------------------------------------------------------------------
Pair == [offset : Int, rt : Int]

DriftTypeOK ==
  /\ node \in PlayingNode
  /\ skew \in [PlayingNode -> Skew]
  /\ timeDrift \in [PlayingNode -> Int]
  /\ asked \in 0 .. Pings
  /\ data \in Seq(Pair) /\ Len(data) <= asked
  /\ selected \in Pair
  /\ told \in SUBSET PlayingNode

(* A node that takes the correction is then as far from the controller as  *)
(* it was from the node that was asked, give or take half of any round     *)
(* trip that counted and a rounding of 3/2 ms.                             *)
ToldNodesAreInTime ==
  \A n \in told, p \in ToSet(data) :
    Counts(p) => 2 * Abs(skew[n] + timeDrift[n])
                   <= 2 * Abs(skew[n] - skew[node]) + p.rt + 3

(* When no correction is sent although an answer counted, the node that    *)
(* was asked needed none: it is at most Tolerance away, give or take the   *)
(* same error.                                                             *)
NoCorrectionIsNeeded ==
  Done /\ ~Corrected =>
    \A p \in ToSet(data) :
      Counts(p) => 2 * Abs(skew[node]) <= 2 * Tolerance + p.rt + 3
=============================================================================
