-------------------------- MODULE Controller_proofs --------------------------
(***************************************************************************)
(* What AnimationController stands on: the two halves of NodeController    *)
(* and the player.                                                         *)
(*                                                                         *)
(* Registry, for any nodes and channels, whatever fails and whenever a     *)
(* node joins: the lists hold known nodes, each in one list; a remap lists *)
(* every node but those that join at the wrong moment; a node that took    *)
(* its calls is on the channel of its list; and none is left behind        *)
(* receiving.                                                              *)
(*                                                                         *)
(* Drift, for any nodes, skews, delays and number of requests: how good    *)
(* the correction is.  The invariant that carries it, AnswersAreClose, is  *)
(* the argument of the algorithm: the offset of an answer is wrong by at   *)
(* most half its round trip, because the two ways a datagram takes add up  *)
(* to the round trip but enter the offset with opposite signs.             *)
(*                                                                         *)
(* Player2, however its two threads and a stop interleave: the player      *)
(* outlives its thread, play() returns when the thread is ready, and what  *)
(* is heard is a song, but for that it ends, which needs fairness.         *)
(***************************************************************************)
EXTENDS Registry, Drift, Player2, SequenceTheorems, TLAPS

Remapping == {"all", "auto"}

(* The parameter of each loop.                                             *)
Args ==
  /\ op \in {"all"} \cup Uploads => arg \in Channel
  /\ op = "auto" => arg \in 1 .. NChannels
  /\ op = "map" => \A n \in todo : channelMap_[n] # NoChannel
  /\ remaking => /\ op \in Remaps /\ removeList = {}
                 /\ \A n \in todo \cup newcomers : channelMap_[n] # NoChannel

TypeInv == TypeOK /\ Args

(* removeDeadNode() on lists that hold a node once: it leaves all of them. *)
LEMMA ForgetLeavesAllLists ==
  ASSUME TypeInv, OneListPerNode, NEW n \in Node, Forget(n)
  PROVE  channelToNodes_' = [c \in Channel |-> channelToNodes_[c] \ {n}]
PROOF
<1>. DEFINE lists == {c \in Channel : n \in channelToNodes_[c]}
            first == CHOOSE c \in lists : TRUE
<1>. USE DEF TypeInv, TypeOK, OneListPerNode
<1>1. channelToNodes_' = IF lists = {} THEN channelToNodes_
           ELSE [channelToNodes_ EXCEPT ![first] = @ \ {n}]
  BY DEF Forget
<1>2. CASE lists = {}
  BY <1>1, <1>2
<1>3. CASE lists # {}
  <2>1. first \in lists
    BY <1>3
  <2>2. \A c \in Channel : n \in channelToNodes_[c] => c = first
    BY <2>1
  <2>3. first \in Channel
    BY <2>1
  <2>. HIDE DEF lists, first
  <2>4. channelToNodes_' = [channelToNodes_ EXCEPT ![first] = @ \ {n}]
    BY <1>1, <1>3
  <2>5. \A c \in Channel : c # first => channelToNodes_[c] = channelToNodes_[c] \ {n}
    BY <2>2
  <2>. QED
    BY <2>3, <2>4, <2>5
<1>. QED
  BY <1>2, <1>3

LEMMA ForgetTypes ==
  ASSUME TypeInv, NEW n \in Node, Forget(n)
  PROVE  /\ nodeIdToNode_' \in SUBSET Node
         /\ channelToNodes_' \in [Channel -> SUBSET Node]
PROOF
<1>. DEFINE lists == {c \in Channel : n \in channelToNodes_[c]}
            first == CHOOSE c \in lists : TRUE
<1>1. channelToNodes_' = IF lists = {} THEN channelToNodes_
           ELSE [channelToNodes_ EXCEPT ![first] = @ \ {n}]
  BY DEF Forget
<1>2. lists # {} => first \in Channel
  OBVIOUS
<1>3. nodeIdToNode_' \in SUBSET Node
  BY DEF Forget, TypeInv, TypeOK
<1>. HIDE DEF lists, first
<1>. QED
  BY <1>1, <1>2, <1>3 DEF TypeInv, TypeOK

LEMMA ChannelIsANumber == 0 \in Channel /\ NoChannel \notin Channel
  BY RegistryAssumption DEF Channel, NoChannel

LEMMA AutoChannelIsAChannel ==
  TypeInv /\ op = "auto" => AutoChannel \in Channel
PROOF
<1>. SUFFICES ASSUME TypeInv, op = "auto" PROVE AutoChannel \in Channel
  OBVIOUS
<1>1. arg \in 1 .. NChannels /\ idx \in Nat
  BY DEF TypeInv, TypeOK, Args
<1>2. idx % arg \in 0 .. arg - 1
  BY <1>1, RegistryAssumption
<1>. QED
  BY <1>1, <1>2, RegistryAssumption DEF AutoChannel, Channel

LEMMA InitType == Init => TypeInv
PROOF
<1>. SUFFICES ASSUME Init PROVE TypeInv
  OBVIOUS
<1>. USE RegistryAssumption, ChannelIsANumber DEF Init
<1>1. channelMap_ \in [Node -> Channel \cup {NoChannel}]
  OBVIOUS
<1>2. channel_id \in [Node -> Channel] /\ raced \in SUBSET Node
  OBVIOUS
<1>3. channelToNodes_ \in [Channel -> SUBSET Node]
  OBVIOUS
<1>4. remaking \in BOOLEAN /\ inserted \in BOOLEAN
  BY Zenon
<1>5. TypeOK
  BY <1>1, <1>2, <1>3, <1>4 DEF TypeOK
<1>6. Args
  BY DEF Args, Remaps, Uploads
<1>. QED
  BY <1>5, <1>6 DEF TypeInv

LEMMA TypeStep == TypeInv /\ [Next]_vars => TypeInv'
PROOF
<1>. SUFFICES ASSUME TypeInv, [Next]_vars PROVE TypeInv'
  OBVIOUS
<1>. USE RegistryAssumption, ChannelIsANumber
     DEF TypeInv, TypeOK, Args, Remaps, Uploads, Loop, LoopEnds, Visit,
         Gives, SetChannel, Insert, Phase, loopVars, discoveryVars, historyVars
<1>1. CASE SetChannelMap
  BY <1>1 DEF SetChannelMap
<1>2. CASE SetAllToChannel
  BY <1>2 DEF SetAllToChannel, Channel
<1>3. CASE SetChannelAuto
  BY <1>3 DEF SetChannelAuto
<1>4. CASE RemakeChannelToNodes
  BY <1>4 DEF RemakeChannelToNodes
<1>5. CASE SendInitialKeys
  BY <1>5 DEF SendInitialKeys, Channel
<1>6. CASE PhaseEnds
  <2>1. op \in Uploads /\ arg \in Channel /\ ~remaking /\ Channel \subseteq 0 .. NChannels
    BY <1>6 DEF PhaseEnds, Channel
  <2>2. ASSUME NEW phase \in Uploads, NEW c \in Channel, Phase(phase, c)
        PROVE  TypeInv'
    BY <2>1, <2>2
  <2>3. CASE LoopEnds /\ UNCHANGED <<nodeIdToNode_, channelMap_, channelToNodes_,
               discoveryVars, channel_id, receiving, astray, historyVars>>
    <3>1. remaking' = FALSE /\ inserted' = inserted
      BY <2>3
    <3>2. remaking' \in BOOLEAN /\ inserted' \in BOOLEAN
      BY <3>1, Zenon
    <3>3. TypeOK'
      BY <2>3, <3>2
    <3>4. Args'
      BY <2>3
    <3>. QED
      BY <3>3, <3>4
  <2>. QED
    BY <1>6, <2>1, <2>2, <2>3 DEF PhaseEnds
<1>7. ASSUME NEW n \in Node, MapUnknown(n) PROVE TypeInv'
  BY <1>7 DEF MapUnknown
<1>8. ASSUME NEW n \in Node, MapNode(n) PROVE TypeInv'
  <2>1. channelMap_[n] \in Channel
    BY <1>8 DEF MapNode
  <2>. QED
    BY <1>8, <2>1, ForgetTypes DEF MapNode
<1>9. ASSUME NEW n \in Node, AllNode(n) PROVE TypeInv'
  BY <1>9 DEF AllNode
<1>10. ASSUME NEW n \in Node, AutoNode(n) PROVE TypeInv'
  BY <1>10, AutoChannelIsAChannel DEF AutoNode
<1>11. ASSUME NEW n \in Node, RemoveDeadNode(n) PROVE TypeInv'
  BY <1>11, ForgetTypes DEF RemoveDeadNode
<1>12. ASSUME NEW n \in Node, UploadToNode(n) PROVE TypeInv'
  BY <1>12 DEF UploadToNode
<1>13. ASSUME NEW n \in Node, Discover(n) PROVE TypeInv'
  BY <1>13 DEF Discover
<1>14. ASSUME NEW n \in Node, InsertChannel(n) PROVE TypeInv'
  BY <1>14 DEF InsertChannel
<1>15. ASSUME NEW n \in Node, InsertNode(n) PROVE TypeInv'
  BY <1>15 DEF InsertNode
<1>16. ASSUME NEW n \in Node, Boot(n) PROVE TypeInv'
  BY <1>16 DEF Boot
<1>17. ASSUME NEW n \in Node, ListNode(n) PROVE TypeInv'
  <2>1. channelMap_[n] \in Channel
    BY <1>17 DEF ListNode
  <2>. QED
    BY <1>17, <2>1 DEF ListNode
<1>18. CASE RemakeEnds
  <2>1. op' = "none" /\ arg' = 0 /\ idx' = 0 /\ newcomers' = {} /\ late' = {}
    BY <1>18 DEF RemakeEnds
  <2>2. remaking' = FALSE /\ inserted' = inserted
    BY <1>18 DEF RemakeEnds
  <2>3. remaking' \in BOOLEAN /\ inserted' \in BOOLEAN
    BY <2>2, Zenon
  <2>4. TypeOK'
    BY <1>18, <2>1, <2>3 DEF RemakeEnds
  <2>5. Args'
    BY <2>1, <2>2
  <2>. QED
    BY <2>4, <2>5
<1>19. CASE UNCHANGED vars
  BY <1>19 DEF vars
<1>. QED
  BY <1>1, <1>2, <1>3, <1>4, <1>5, <1>6, <1>7, <1>8, <1>9, <1>10, <1>11,
     <1>12, <1>13, <1>14, <1>15, <1>16, <1>17, <1>18, <1>19 DEF Next
------------------------------------------------------------------------------
(* The lists and who is in them.  While they are made again, a node is in  *)
(* the list of its channel.                                                *)
Rebuilt ==
  remaking => \A c \in Channel : \A n \in channelToNodes_[c] : channelMap_[n] = c

Lists == ListedNodesAreKnown /\ OneListPerNode /\ Rebuilt

Members ==
  /\ joining \cap nodeIdToNode_ = {}
  /\ \A m, n \in joining : m = n
  /\ joining = {} => ~inserted
  /\ op \in Uploads \/ Gives("all") \/ Gives("auto") =>
       todo \cup newcomers \cup removeList \subseteq nodeIdToNode_
  /\ op \in Uploads => todo \subseteq channelToNodes_[arg] /\ newcomers = {}

(* A remap that begins with an empty map leaves no visited node without a  *)
(* channel, but for those that are late: nor one that joins meanwhile.     *)
(* Each of them will be listed, or is.                                     *)
Mapped ==
  op \in Remapping =>
    /\ ~remaking =>
         /\ inserted => \A n \in joining \ late : channelMap_[n] # NoChannel
         /\ \A n \in nodeIdToNode_ \ (todo \cup removeList \cup late) :
              channelMap_[n] # NoChannel
    /\ remaking =>
         \A n \in nodeIdToNode_ \ late :
           /\ channelMap_[n] \in Channel
           /\ n \in todo \cup channelToNodes_[channelMap_[n]]

ListInv == TypeInv /\ Lists /\ Members /\ Mapped

LEMMA InitLists == Init => Lists /\ Members /\ Mapped
PROOF
<1>. SUFFICES ASSUME Init PROVE Lists /\ Members /\ Mapped
  OBVIOUS
<1>. USE DEF Init
<1>1. Lists
  BY DEF Lists, ListedNodesAreKnown, OneListPerNode, Rebuilt
<1>2. Members /\ Mapped
  BY DEF Members, Mapped, Remapping, Uploads, Gives
<1>. QED
  BY <1>1, <1>2

(* Known nodes and lists change in few ways only.                          *)
LEMMA ListsMove ==
  ASSUME TypeInv, [Next]_vars
  PROVE  \/ UNCHANGED <<nodeIdToNode_, channelToNodes_>>
         \/ ~remaking /\ \E n \in Node : Forget(n)
         \/ \E n \in joining : /\ nodeIdToNode_' = nodeIdToNode_ \cup {n}
                               /\ UNCHANGED channelToNodes_
         \/ RemakeChannelToNodes
         \/ \E n \in Node : ListNode(n)
PROOF
<1>. USE DEF Loop, LoopEnds, Visit, Phase
<1>1. CASE SetChannelMap \/ SetAllToChannel \/ SetChannelAuto
  BY <1>1 DEF SetChannelMap, SetAllToChannel, SetChannelAuto
<1>2. CASE SendInitialKeys \/ PhaseEnds \/ RemakeEnds
  BY <1>2 DEF SendInitialKeys, PhaseEnds, RemakeEnds
<1>3. ASSUME NEW n \in Node,
             \/ MapUnknown(n) \/ AllNode(n) \/ AutoNode(n)
             \/ UploadToNode(n) \/ Discover(n) \/ InsertChannel(n) \/ Boot(n)
      PROVE  UNCHANGED <<nodeIdToNode_, channelToNodes_>>
  BY <1>3 DEF MapUnknown, AllNode, AutoNode, UploadToNode, Discover,
              InsertChannel, Boot
<1>4. ASSUME NEW n \in Node, MapNode(n)
      PROVE  \/ UNCHANGED <<nodeIdToNode_, channelToNodes_>>
             \/ ~remaking /\ Forget(n)
  BY <1>4 DEF MapNode, Gives
<1>5. ASSUME NEW n \in Node, RemoveDeadNode(n) PROVE ~remaking /\ Forget(n)
  BY <1>5 DEF RemoveDeadNode, TypeInv, TypeOK, Args
<1>6. ASSUME NEW n \in Node, InsertNode(n)
      PROVE  /\ n \in joining
             /\ nodeIdToNode_' = nodeIdToNode_ \cup {n}
             /\ UNCHANGED channelToNodes_
  BY <1>6 DEF InsertNode
<1>7. CASE UNCHANGED vars
  BY <1>7 DEF vars
<1>. QED
  BY <1>1, <1>2, <1>3, <1>4, <1>5, <1>6, <1>7 DEF Next

(* The map of channels changes in the loop that makes the lists again only *)
(* for a node that had no channel.                                         *)
LEMMA RebuiltStep == TypeInv /\ Rebuilt /\ [Next]_vars => Rebuilt'
PROOF
<1>. SUFFICES ASSUME TypeInv, Rebuilt, [Next]_vars PROVE Rebuilt'
  OBVIOUS
<1>. USE ChannelIsANumber
     DEF TypeInv, TypeOK, Args, Rebuilt, Remaps, Uploads, Loop, LoopEnds, Visit,
         Gives, Insert, Phase, loopVars, discoveryVars, historyVars
<1>1. CASE SetChannelMap \/ SetAllToChannel \/ SetChannelAuto
  BY <1>1 DEF SetChannelMap, SetAllToChannel, SetChannelAuto
<1>2. CASE SendInitialKeys \/ PhaseEnds \/ RemakeEnds \/ RemakeChannelToNodes
  BY <1>2 DEF SendInitialKeys, PhaseEnds, RemakeEnds, RemakeChannelToNodes
<1>3. ASSUME NEW n \in Node,
             \/ MapUnknown(n) \/ MapNode(n) \/ AllNode(n) \/ AutoNode(n)
             \/ RemoveDeadNode(n) \/ UploadToNode(n)
      PROVE  Rebuilt'
  BY <1>3 DEF MapUnknown, MapNode, AllNode, AutoNode, RemoveDeadNode,
              UploadToNode
<1>4. ASSUME NEW n \in Node, Discover(n) \/ InsertNode(n) \/ Boot(n)
      PROVE  Rebuilt'
  BY <1>4 DEF Discover, InsertNode, Boot
<1>5. ASSUME NEW n \in Node, InsertChannel(n) PROVE Rebuilt'
  <2>1. \A m \in Node : channelMap_[m] # NoChannel => channelMap_'[m] = channelMap_[m]
    BY <1>5 DEF InsertChannel
  <2>. QED
    BY <1>5, <2>1 DEF InsertChannel
<1>6. ASSUME NEW n \in Node, ListNode(n) PROVE Rebuilt'
  <2>1. channelMap_[n] \in Channel
    BY <1>6 DEF ListNode
  <2>. QED
    BY <1>6, <2>1 DEF ListNode
<1>7. CASE UNCHANGED vars
  BY <1>7 DEF vars
<1>. QED
  BY <1>1, <1>2, <1>3, <1>4, <1>5, <1>6, <1>7 DEF Next

LEMMA ListsStep == TypeInv /\ Lists /\ [Next]_vars => Lists'
PROOF
<1>. SUFFICES ASSUME TypeInv, Lists, [Next]_vars
              PROVE  ListedNodesAreKnown' /\ OneListPerNode'
  BY RebuiltStep DEF Lists
<1>. USE DEF Lists, ListedNodesAreKnown, OneListPerNode
<1>1. CASE UNCHANGED <<nodeIdToNode_, channelToNodes_>>
  BY <1>1
<1>2. ASSUME NEW n \in Node, Forget(n)
      PROVE  ListedNodesAreKnown' /\ OneListPerNode'
  <2>1. channelToNodes_' = [c \in Channel |-> channelToNodes_[c] \ {n}]
    BY <1>2, ForgetLeavesAllLists
  <2>2. nodeIdToNode_' = nodeIdToNode_ \ {n}
    BY <1>2 DEF Forget
  <2>. QED
    BY <2>1, <2>2
<1>3. ASSUME NEW n \in joining, nodeIdToNode_' = nodeIdToNode_ \cup {n},
             UNCHANGED channelToNodes_
      PROVE  ListedNodesAreKnown' /\ OneListPerNode'
  BY <1>3
<1>4. CASE RemakeChannelToNodes
  BY <1>4 DEF RemakeChannelToNodes
<1>5. ASSUME NEW n \in Node, ListNode(n)
      PROVE  ListedNodesAreKnown' /\ OneListPerNode'
  <2>1. CASE n \notin nodeIdToNode_
    BY <1>5, <2>1 DEF ListNode
  <2>2. CASE n \in nodeIdToNode_
    <3>. DEFINE its == channelMap_[n]
    <3>1. its \in Channel
      BY <1>5 DEF ListNode, TypeInv, TypeOK, Args
    <3>2. /\ channelToNodes_' = [channelToNodes_ EXCEPT ![its] = @ \cup {n}]
          /\ nodeIdToNode_' = nodeIdToNode_
      BY <1>5, <2>2 DEF ListNode
    <3>3. \A c \in Channel : n \in channelToNodes_[c] => c = its
      BY <1>5 DEF ListNode, Rebuilt
    <3>. HIDE DEF its
    <3>4. \A c \in Channel : channelToNodes_'[c] =
            IF c = its THEN channelToNodes_[c] \cup {n} ELSE channelToNodes_[c]
      BY <3>1, <3>2 DEF TypeInv, TypeOK
    <3>. QED
      BY <2>2, <3>2, <3>3, <3>4
  <2>. QED
    BY <2>1, <2>2
<1>. QED
  BY <1>1, <1>2, <1>3, <1>4, <1>5, ListsMove

LEMMA MembersStep == TypeInv /\ Lists /\ Members /\ [Next]_vars => Members'
PROOF
<1>. SUFFICES ASSUME TypeInv, Lists, Members, [Next]_vars PROVE Members'
  OBVIOUS
<1>. USE DEF TypeInv, TypeOK, Args, Members, Remapping, Remaps, Uploads, Loop,
             LoopEnds, Visit, Gives, Phase, loopVars, discoveryVars, historyVars
<1>1. CASE SetChannelMap
  BY <1>1 DEF SetChannelMap
<1>2. CASE SetAllToChannel
  BY <1>2 DEF SetAllToChannel
<1>3. CASE SetChannelAuto
  BY <1>3 DEF SetChannelAuto
<1>4. CASE RemakeChannelToNodes
  BY <1>4 DEF RemakeChannelToNodes
<1>5. CASE SendInitialKeys
  BY <1>5 DEF SendInitialKeys, Lists, ListedNodesAreKnown
<1>6. CASE PhaseEnds
  BY <1>6 DEF PhaseEnds, Lists, ListedNodesAreKnown
<1>7. ASSUME NEW n \in Node, MapUnknown(n) PROVE Members'
  BY <1>7 DEF MapUnknown
<1>8. ASSUME NEW n \in Node, MapNode(n) PROVE Members'
  <2>1. /\ op = "map" /\ op' = op /\ ~remaking'
        /\ joining' = joining /\ inserted' = inserted
    BY <1>8 DEF MapNode
  <2>2. nodeIdToNode_' \subseteq nodeIdToNode_
    BY <1>8 DEF MapNode, Forget
  <2>. QED
    BY <2>1, <2>2
<1>9. ASSUME NEW n \in Node, AllNode(n) PROVE Members'
  BY <1>9 DEF AllNode
<1>10. ASSUME NEW n \in Node, AutoNode(n) PROVE Members'
  BY <1>10 DEF AutoNode
<1>11. ASSUME NEW n \in Node, RemoveDeadNode(n) PROVE Members'
  <2>1. nodeIdToNode_' = nodeIdToNode_ \ {n}
    BY <1>11 DEF RemoveDeadNode, Forget
  <2>. QED
    BY <1>11, <2>1 DEF RemoveDeadNode
<1>12. ASSUME NEW n \in Node, UploadToNode(n) PROVE Members'
  BY <1>12 DEF UploadToNode
<1>13. ASSUME NEW n \in Node, Discover(n) PROVE Members'
  BY <1>13 DEF Discover
<1>14. ASSUME NEW n \in Node, InsertNode(n) PROVE Members'
  BY <1>14 DEF InsertNode
<1>15. ASSUME NEW n \in Node, Boot(n) PROVE Members'
  BY <1>15 DEF Boot
<1>16. ASSUME NEW n \in Node, InsertChannel(n) PROVE Members'
  BY <1>16 DEF InsertChannel
<1>17. ASSUME NEW n \in Node, ListNode(n) PROVE Members'
  BY <1>17 DEF ListNode
<1>18. CASE RemakeEnds
  BY <1>18 DEF RemakeEnds
<1>19. CASE UNCHANGED vars
  BY <1>19 DEF vars
<1>. QED
  BY <1>1, <1>2, <1>3, <1>4, <1>5, <1>6, <1>7, <1>8, <1>9, <1>10, <1>11,
     <1>12, <1>13, <1>14, <1>15, <1>16, <1>17, <1>18, <1>19 DEF Next

LEMMA MappedStep == TypeInv /\ Lists /\ Members /\ Mapped /\ [Next]_vars => Mapped'
PROOF
<1>. SUFFICES ASSUME TypeInv, Lists, Members, Mapped, [Next]_vars PROVE Mapped'
  OBVIOUS
<1>. USE ChannelIsANumber
     DEF TypeInv, TypeOK, Args, Members, Mapped, Remapping, Remaps, Uploads,
         Loop, LoopEnds, Visit, Gives, Phase, Insert, loopVars, discoveryVars,
         historyVars
<1>1. CASE SetChannelMap \/ SetAllToChannel \/ SetChannelAuto
  BY <1>1 DEF SetChannelMap, SetAllToChannel, SetChannelAuto
<1>2. CASE RemakeEnds \/ SendInitialKeys \/ PhaseEnds
  BY <1>2 DEF RemakeEnds, SendInitialKeys, PhaseEnds
<1>3. ASSUME NEW n \in Node, MapUnknown(n) \/ MapNode(n) PROVE Mapped'
  BY <1>3 DEF MapUnknown, MapNode
<1>4. ASSUME NEW n \in Node, AllNode(n) PROVE Mapped'
  BY <1>4 DEF AllNode
<1>5. ASSUME NEW n \in Node, AutoNode(n) PROVE Mapped'
  BY <1>5, AutoChannelIsAChannel DEF AutoNode
<1>6. ASSUME NEW n \in Node, RemoveDeadNode(n) PROVE Mapped'
  <2>1. nodeIdToNode_' = nodeIdToNode_ \ {n}
    BY <1>6 DEF RemoveDeadNode, Forget
  <2>. QED
    BY <1>6, <2>1 DEF RemoveDeadNode
<1>7. ASSUME NEW n \in Node, UploadToNode(n) \/ Discover(n) \/ Boot(n)
      PROVE  Mapped'
  <2>1. inserted' = inserted /\ (inserted => joining' = joining)
    BY <1>7 DEF UploadToNode, Discover, Boot
  <2>. QED
    BY <1>7, <2>1 DEF UploadToNode, Discover, Boot
<1>8. ASSUME NEW n \in Node, InsertChannel(n) PROVE Mapped'
  <2>1. n \notin nodeIdToNode_ /\ joining' = joining /\ joining = {n}
    BY <1>8 DEF InsertChannel
  <2>2. /\ channelMap_' \in [Node -> Channel \cup {NoChannel}]
        /\ \A m \in Node : m # n => channelMap_'[m] = channelMap_[m]
        /\ \A m \in Node : channelMap_[m] # NoChannel => channelMap_'[m] # NoChannel
        /\ channelMap_'[n] # NoChannel
    BY <1>8 DEF InsertChannel
  <2>. QED
    BY <1>8, <2>1, <2>2 DEF InsertChannel
<1>9. ASSUME NEW n \in Node, InsertNode(n) PROVE Mapped'
  BY <1>9 DEF InsertNode
<1>10. CASE RemakeChannelToNodes
  BY <1>10 DEF RemakeChannelToNodes
<1>11. ASSUME NEW n \in Node, ListNode(n) PROVE Mapped'
  <2>1. channelMap_[n] \in Channel
    BY <1>11 DEF ListNode
  <2>2. /\ \A c \in Channel : channelToNodes_[c] \subseteq channelToNodes_'[c]
        /\ n \in nodeIdToNode_ => n \in channelToNodes_'[channelMap_[n]]
    BY <1>11, <2>1 DEF ListNode
  <2>. QED
    BY <1>11, <2>1, <2>2 DEF ListNode
<1>12. CASE UNCHANGED vars
  BY <1>12 DEF vars
<1>. QED
  BY <1>1, <1>2, <1>3, <1>4, <1>5, <1>6, <1>7, <1>8, <1>9, <1>10, <1>11,
     <1>12 DEF Next

LEMMA ListInvariance == Spec => []ListInv
PROOF
<1>1. Init => ListInv
  BY InitType, InitLists DEF ListInv
<1>2. ListInv /\ [Next]_vars => ListInv'
  BY TypeStep, ListsStep, MembersStep, MappedStep DEF ListInv
<1>. QED
  BY <1>1, <1>2, PTL DEF Spec

(* The state stays well typed; a device is never set to a channel that the *)
(* animation does not have.                                                *)
THEOREM TypeCorrect == Spec => []TypeOK
  BY ListInvariance, PTL DEF ListInv, TypeInv

(* Whatever fails in the middle of a loop, the lists hold known nodes.     *)
THEOREM ListsHoldKnownNodes == Spec => []ListedNodesAreKnown
  BY ListInvariance, PTL DEF ListInv, Lists

(* No node is in two lists, which removeDeadNode() relies on.              *)
THEOREM ListsAreDisjoint == Spec => []OneListPerNode
  BY ListInvariance, PTL DEF ListInv, Lists

(* A remap over all nodes lists all of them, and those that the discovery  *)
(* thread adds while it runs unless they are late: one of their insertions *)
(* came before the map was cleared or after the lists began to be rebuilt. *)
THEOREM RemapsListEveryNode == Spec => EveryKnownNodeIsListed
PROOF
<1>1. ASSUME ListInv, [Next]_vars, op' = "none", op \in Remapping
      PROVE  nodeIdToNode_' \ late \subseteq
               UNION {channelToNodes_'[c] : c \in Channel}
  <2>1. RemakeEnds
    BY <1>1 DEF Next, vars, Remapping, Remaps, Uploads, SetChannelMap,
      SetAllToChannel, SetChannelAuto, RemakeChannelToNodes, ListNode,
      SendInitialKeys, PhaseEnds, MapUnknown, MapNode, AllNode, AutoNode,
      RemoveDeadNode, UploadToNode, Discover, InsertChannel, InsertNode,
      Boot, Visit, loopVars
  <2>2. \A n \in nodeIdToNode_ \ late :
          channelMap_[n] \in Channel /\ n \in channelToNodes_[channelMap_[n]]
    BY <1>1, <2>1 DEF ListInv, Mapped, RemakeEnds
  <2>3. UNCHANGED <<nodeIdToNode_, channelToNodes_>>
    BY <2>1 DEF RemakeEnds
  <2>. QED
    BY <2>2, <2>3
<1>2. ListInv /\ [Next]_vars =>
        [op' = "none" /\ op \in {"all", "auto"} =>
           nodeIdToNode_' \ late \subseteq
             UNION {channelToNodes_'[c] : c \in Channel}]_vars
  BY <1>1 DEF Remapping
<1>. QED
  BY <1>2, ListInvariance, PTL DEF Spec, EveryKnownNodeIsListed
------------------------------------------------------------------------------
(* What the devices were told, but for nodes that join: one that was       *)
(* visited and did not miss its call is on the channel that the map has    *)
(* for it, and one that is still to be visited has none.                   *)
Told ==
  op \in Remaps =>
    /\ newcomers \subseteq raced
    /\ Gives("all") \/ Gives("auto") =>
         \A n \in todo \ raced : channelMap_[n] = NoChannel
    /\ \A n \in nodeIdToNode_ \ (astray \cup raced) :
         channelMap_[n] \in Channel =>
           \/ channel_id[n] = channelMap_[n]
           \/ ~remaking /\ n \in todo \cup removeList

Tuned == Told /\ ListedNodesAreOnTheirChannel

(* Nodes that are receiving keys and did not miss a call are still being   *)
(* uploaded to.                                                            *)
Received ==
  /\ joining \cap receiving \subseteq astray
  /\ \A n \in nodeIdToNode_ \cap receiving :
       \/ n \in astray
       \/ op \in {"in", "keys"} /\ n \in channelToNodes_[arg]
       \/ op = "en" /\ n \in todo \cup removeList

LEMMA InitTuned == Init => Tuned /\ Received
PROOF
<1>. SUFFICES ASSUME Init PROVE Tuned /\ Received
  OBVIOUS
<1>1. Tuned
  BY DEF Init, Tuned, Told, ListedNodesAreOnTheirChannel, Remaps
<1>2. Received
  BY DEF Init, Received
<1>. QED
  BY <1>1, <1>2

LEMMA TunedStep == ListInv /\ Tuned /\ [Next]_vars => Tuned'
PROOF
<1>. SUFFICES ASSUME ListInv, Tuned, [Next]_vars PROVE Tuned'
  OBVIOUS
<1>. USE ChannelIsANumber
     DEF ListInv, TypeInv, TypeOK, Args, Lists, Members, ListedNodesAreKnown,
         Tuned, Told, ListedNodesAreOnTheirChannel, Remapping, Remaps, Uploads,
         Gives, Loop, LoopEnds, Visit, Phase, loopVars, discoveryVars,
         historyVars
<1>1. CASE SetChannelMap
  BY <1>1 DEF SetChannelMap
<1>2. CASE SetAllToChannel
  BY <1>2 DEF SetAllToChannel
<1>3. CASE SetChannelAuto
  BY <1>3 DEF SetChannelAuto
<1>4. CASE RemakeChannelToNodes
  BY <1>4 DEF RemakeChannelToNodes
<1>5. CASE SendInitialKeys
  BY <1>5 DEF SendInitialKeys
<1>6. CASE PhaseEnds
  BY <1>6 DEF PhaseEnds
<1>7. ASSUME NEW n \in Node, MapUnknown(n) PROVE Tuned'
  BY <1>7 DEF MapUnknown
<1>8. ASSUME NEW n \in Node, MapNode(n) PROVE Tuned'
  <2>1. PICK ok \in BOOLEAN :
          /\ SetChannel(n, channelMap_[n], ok)
          /\ IF ok THEN UNCHANGED <<nodeIdToNode_, channelToNodes_>> ELSE Forget(n)
    BY <1>8 DEF MapNode
  <2>2. /\ op = "map" /\ op' = op /\ raced' = raced /\ todo' = todo \ {n}
        /\ newcomers' = newcomers \ {n} /\ ~remaking /\ ~remaking'
        /\ UNCHANGED <<channelMap_, removeList>>
    BY <1>8 DEF MapNode
  <2>3. nodeIdToNode_' \subseteq nodeIdToNode_
    BY <2>1 DEF Forget
  <2>4. ASSUME NEW m \in nodeIdToNode_', m \notin astray' \cup raced,
               m \notin todo' \cup removeList', channelMap_[m] \in Channel
        PROVE  channel_id'[m] = channelMap_[m]
    BY <2>1, <2>2, <2>3, <2>4 DEF SetChannel
  <2>. QED
    BY <2>2, <2>4
<1>9. ASSUME NEW n \in Node, AllNode(n) PROVE Tuned'
  <2>1. arg \in Channel /\ n \in nodeIdToNode_
    BY <1>9 DEF AllNode
  <2>2. n \in raced \/ (n \in todo /\ channelMap_[n] = NoChannel)
    <3>1. /\ newcomers \subseteq raced
          /\ \A m \in todo \ raced : channelMap_[m] = NoChannel
      BY <1>9 DEF AllNode
    <3>2. n \in todo \cup newcomers
      BY <1>9 DEF AllNode
    <3>. QED
      BY <3>1, <3>2
  <2>3. CASE SetChannel(n, arg, TRUE) /\ Insert(n, arg) /\ UNCHANGED removeList
    BY <1>9, <2>1, <2>2, <2>3 DEF AllNode, SetChannel, Insert
  <2>4. CASE SetChannel(n, arg, FALSE) /\ UNCHANGED channelMap_
             /\ removeList' = removeList \cup {n}
    BY <1>9, <2>1, <2>4 DEF AllNode, SetChannel
  <2>. QED
    BY <1>9, <2>3, <2>4 DEF AllNode
<1>10. ASSUME NEW n \in Node, AutoNode(n) PROVE Tuned'
  <2>. DEFINE dstCh == AutoChannel
  <2>1. dstCh \in Channel /\ n \in nodeIdToNode_
    BY <1>10, AutoChannelIsAChannel DEF AutoNode
  <2>2. n \in raced \/ (n \in todo /\ channelMap_[n] = NoChannel)
    <3>1. /\ newcomers \subseteq raced
          /\ \A m \in todo \ raced : channelMap_[m] = NoChannel
      BY <1>10 DEF AutoNode
    <3>2. n \in todo \cup newcomers
      BY <1>10 DEF AutoNode
    <3>. QED
      BY <3>1, <3>2
  <2>3. \/ SetChannel(n, dstCh, TRUE) /\ Insert(n, dstCh) /\ UNCHANGED removeList
        \/ /\ SetChannel(n, dstCh, FALSE)
           /\ removeList' = removeList \cup {n}
           /\ UNCHANGED channelMap_
    BY <1>10 DEF AutoNode
  <2>. HIDE DEF dstCh
  <2>4. CASE SetChannel(n, dstCh, TRUE) /\ Insert(n, dstCh) /\ UNCHANGED removeList
    BY <1>10, <2>1, <2>2, <2>4 DEF AutoNode, SetChannel, Insert
  <2>5. CASE SetChannel(n, dstCh, FALSE) /\ UNCHANGED channelMap_
             /\ removeList' = removeList \cup {n}
    BY <1>10, <2>1, <2>5 DEF AutoNode, SetChannel
  <2>. QED
    BY <2>3, <2>4, <2>5
<1>11. ASSUME NEW n \in Node, RemoveDeadNode(n) PROVE Tuned'
  <2>1. nodeIdToNode_' = nodeIdToNode_ \ {n}
    BY <1>11 DEF RemoveDeadNode, Forget
  <2>2. channelToNodes_' = [c \in Channel |-> channelToNodes_[c] \ {n}]
    BY <1>11, ForgetLeavesAllLists DEF RemoveDeadNode
  <2>. QED
    BY <1>11, <2>1, <2>2 DEF RemoveDeadNode
<1>12. ASSUME NEW n \in Node, UploadToNode(n) PROVE Tuned'
  BY <1>12 DEF UploadToNode
<1>13. ASSUME NEW n \in Node, Discover(n) PROVE Tuned'
  BY <1>13 DEF Discover, SetChannel
<1>14. ASSUME NEW n \in Node, InsertNode(n) PROVE Tuned'
  BY <1>14 DEF InsertNode
<1>15. ASSUME NEW n \in Node, InsertChannel(n) PROVE Tuned'
  <2>1. n \notin nodeIdToNode_
    BY <1>15 DEF InsertChannel
  <2>2. \A m \in Node : m # n => channelMap_'[m] = channelMap_[m]
    BY <1>15 DEF InsertChannel, Insert
  <2>. QED
    BY <1>15, <2>1, <2>2 DEF InsertChannel
<1>16. ASSUME NEW n \in Node, Boot(n) PROVE Tuned'
  BY <1>16 DEF Boot
<1>17. ASSUME NEW n \in Node, ListNode(n) PROVE Tuned'
  BY <1>17 DEF ListNode
<1>18. CASE RemakeEnds
  <2>1. \A c \in Channel : \A n \in channelToNodes_[c] :
          n \in nodeIdToNode_ /\ channelMap_[n] = c
    BY <1>18 DEF RemakeEnds, Rebuilt
  <2>. QED
    BY <1>18, <2>1 DEF RemakeEnds
<1>19. CASE UNCHANGED vars
  BY <1>19 DEF vars
<1>. QED
  BY <1>1, <1>2, <1>3, <1>4, <1>5, <1>6, <1>7, <1>8, <1>9, <1>10, <1>11,
     <1>12, <1>13, <1>14, <1>15, <1>16, <1>17, <1>18, <1>19 DEF Next

LEMMA ReceivedStep == ListInv /\ Received /\ [Next]_vars => Received'
PROOF
<1>. SUFFICES ASSUME ListInv, Received, [Next]_vars PROVE Received'
  OBVIOUS
<1>. USE DEF ListInv, TypeInv, TypeOK, Args, Lists, Members, Received,
             Remapping, Remaps, Uploads, Gives, Loop, LoopEnds, Visit, Phase,
             loopVars, discoveryVars, historyVars
<1>1. CASE SetChannelMap \/ SetAllToChannel \/ SetChannelAuto
  BY <1>1 DEF SetChannelMap, SetAllToChannel, SetChannelAuto
<1>2. CASE RemakeChannelToNodes
  BY <1>2 DEF RemakeChannelToNodes
<1>3. CASE SendInitialKeys
  BY <1>3 DEF SendInitialKeys
<1>4. CASE PhaseEnds
  BY <1>4 DEF PhaseEnds
<1>5. ASSUME NEW n \in Node, MapUnknown(n) PROVE Received'
  BY <1>5 DEF MapUnknown
<1>6. ASSUME NEW n \in Node, MapNode(n) PROVE Received'
  <2>1. nodeIdToNode_' \subseteq nodeIdToNode_
    BY <1>6 DEF MapNode, Forget
  <2>. QED
    BY <1>6, <2>1 DEF MapNode, SetChannel
<1>7. ASSUME NEW n \in Node, AllNode(n) PROVE Received'
  BY <1>7 DEF AllNode, SetChannel
<1>8. ASSUME NEW n \in Node, AutoNode(n) PROVE Received'
  BY <1>8 DEF AutoNode, SetChannel
<1>9. ASSUME NEW n \in Node, RemoveDeadNode(n) PROVE Received'
  <2>1. nodeIdToNode_' = nodeIdToNode_ \ {n}
    BY <1>9 DEF RemoveDeadNode, Forget
  <2>2. channelToNodes_' = [c \in Channel |-> channelToNodes_[c] \ {n}]
    BY <1>9, ForgetLeavesAllLists DEF RemoveDeadNode
  <2>. QED
    BY <1>9, <2>1, <2>2 DEF RemoveDeadNode
<1>10. ASSUME NEW n \in Node, UploadToNode(n) PROVE Received'
  BY <1>10 DEF UploadToNode
<1>11. ASSUME NEW n \in Node, Discover(n) PROVE Received'
  BY <1>11 DEF Discover, SetChannel
<1>12. ASSUME NEW n \in Node, InsertNode(n) PROVE Received'
  BY <1>12 DEF InsertNode
<1>13. ASSUME NEW n \in Node, Boot(n) PROVE Received'
  BY <1>13 DEF Boot
<1>14. ASSUME NEW n \in Node, InsertChannel(n) \/ ListNode(n) PROVE Received'
  BY <1>14 DEF InsertChannel, ListNode
<1>15. CASE RemakeEnds
  BY <1>15 DEF RemakeEnds
<1>16. CASE UNCHANGED vars
  BY <1>16 DEF vars
<1>. QED
  BY <1>1, <1>2, <1>3, <1>4, <1>5, <1>6, <1>7, <1>8, <1>9, <1>10, <1>11,
     <1>12, <1>13, <1>14, <1>15, <1>16 DEF Next

(* Whoever took the last call is on the channel whose keys it is sent,     *)
(* unless it joined in the middle of the remap.                            *)
THEOREM ListedNodesAreTuned == Spec => []ListedNodesAreOnTheirChannel
PROOF
<1>1. Init => Tuned
  BY InitTuned
<1>. QED
  BY <1>1, TunedStep, ListInvariance, PTL DEF Spec, Tuned

(* A call that fails in the middle of an upload leaves no known node in    *)
(* RECEIVING_KEYFRAMES.                                                    *)
THEOREM UploadsAreEnded == Spec => []NoKnownNodeIsLeftReceiving
PROOF
<1>1. Init => Received
  BY InitTuned
<1>2. Received => NoKnownNodeIsLeftReceiving
  BY DEF Received, NoKnownNodeIsLeftReceiving, Uploads
<1>. QED
  BY <1>1, <1>2, ReceivedStep, ListInvariance, PTL DEF Spec
------------------------------------------------------------------------------
(* Before the correction the node that is asked has no drift; the offset   *)
(* of each answer is its skew up to half the round trip.                   *)
AnswersAreClose ==
  \A p \in ToSet(data) : 2 * Abs(p.offset - skew[node]) <= p.rt + 3

NotCorrectedYet ==
  /\ ~Done => timeDrift = [n \in PlayingNode |-> 0] /\ told = {}
  /\ Done => asked = Pings

DriftInv == DriftTypeOK /\ NotCorrectedYet /\ AnswersAreClose
------------------------------------------------------------------------------
(* A number and twice its half differ by one at most: rounding costs half  *)
(* a millisecond.                                                          *)
LEMMA HalfRounds ==
  ASSUME NEW n \in Int
  PROVE  /\ Half(n) \in Int
         /\ 2 * Half(n) - n <= 1
         /\ n - 2 * Half(n) <= 1
  BY DEF Half

(* An answer is as close to the skew as its round trip allows.             *)
LEMMA AnswerIsClose ==
  ASSUME NEW s \in Int, NEW up \in Nat, NEW down \in Nat, NEW work \in Nat
  PROVE  LET p == Answer(up + s, up + work + down)
         IN  /\ p \in Pair
             /\ 2 * Abs(p.offset - s) <= p.rt + 3
PROOF
<1> DEFINE p == Answer(up + s, up + work + down)
           sum == 2 * s + up + 1 - work - down
<1>1. p.rt = up + work + down - 1
  BY DEF Answer
<1>2. p.offset = Half(sum)
  <2>1. sum = ((up + s) - 0) + (((up + s) + 1) - (up + work + down))
    OBVIOUS
  <2>. QED
    BY <2>1 DEF Answer
<1>3. /\ Half(sum) \in Int
      /\ 2 * Half(sum) - sum <= 1
      /\ sum - 2 * Half(sum) <= 1
  BY HalfRounds
<1>4. p \in Pair
  BY <1>2, <1>3 DEF Answer, Pair
<1>5. 2 * Abs(p.offset - s) <= p.rt + 3
  BY <1>1, <1>2, <1>3 DEF Abs
<1>. QED
  BY <1>4, <1>5

(* The answer that is taken counts, and no answer that counts has a        *)
(* shorter round trip.                                                     *)
LEMMA MinorIsMinimal ==
  ASSUME data \in Seq(Pair), NEW p \in ToSet(data), Minor(p),
         NEW q \in ToSet(data), Counts(q)
  PROVE  p.rt <= q.rt
PROOF
<1>1. PICK j \in 1 .. Len(data) : q = data[j]
  BY DEF ToSet
<1>2. data[j] \in Pair
  BY <1>1, ElementOfSeq
<1>3. PICK i \in 1 .. Len(data) :
        /\ p = data[i]
        /\ \A k \in 1 .. Len(data) :
             Counts(data[k]) => \/ p.rt < data[k].rt
                                \/ p.rt = data[k].rt /\ i <= k
  BY DEF Minor
<1>4. data[i] \in Pair
  BY <1>3, ElementOfSeq
<1>. QED
  BY <1>1, <1>2, <1>3, <1>4 DEF Pair

(* The elements of a sequence after Append.                                *)
LEMMA ToSetAppend ==
  ASSUME NEW S, NEW s \in Seq(S), NEW x \in S
  PROVE  ToSet(Append(s, x)) = ToSet(s) \cup {x}
PROOF
<1>1. /\ Len(Append(s, x)) = Len(s) + 1
      /\ \A i \in 1 .. Len(s) : Append(s, x)[i] = s[i]
      /\ Append(s, x)[Len(s) + 1] = x
  BY AppendProperties
<1>. QED
  BY <1>1, LenProperties DEF ToSet
------------------------------------------------------------------------------
LEMMA DriftInitInv == DriftInit => DriftInv
PROOF
<1>. SUFFICES ASSUME DriftInit PROVE DriftInv
  OBVIOUS
<1>. USE DEF DriftInit
<1>1. Len(data) = 0
  BY EmptySeq
<1>2. data \in Seq(Pair)
  BY EmptySeq
<1>3. ToSet(data) = {}
  BY <1>1 DEF ToSet
<1>4. DriftTypeOK
  BY <1>1, <1>2, DriftAssumption DEF DriftTypeOK, NotYet, Pair
<1>5. NotCorrectedYet
  BY DEF NotCorrectedYet, Done
<1>6. AnswersAreClose
  BY <1>3 DEF AnswersAreClose
<1>. QED
  BY <1>4, <1>5, <1>6 DEF DriftInv

LEMMA SyncRequestInv == DriftInv /\ SyncRequest => DriftInv'
PROOF
<1>. SUFFICES ASSUME DriftInv, SyncRequest PROVE DriftInv'
  OBVIOUS
<1>. USE DEF DriftInv
<1>1. /\ asked < Pings /\ asked' = asked + 1
      /\ UNCHANGED <<node, skew, timeDrift, selected, told>>
  BY DEF SyncRequest
<1>2. PICK up \in Delay, down \in Delay, work \in Work :
        data' = Append(data, Answer(up + skew[node] + timeDrift[node],
                                    up + work + down))
  BY DEF SyncRequest
<1>3. ~Done
  BY <1>1, DriftAssumption DEF NotCorrectedYet, DriftTypeOK
<1>4. skew[node] \in Int /\ timeDrift[node] = 0
  BY <1>3, DriftAssumption DEF NotCorrectedYet, DriftTypeOK
<1>. DEFINE p == Answer(up + skew[node], up + work + down)
<1>5. up \in Nat /\ down \in Nat /\ work \in Nat
  BY DriftAssumption
<1>6. p \in Pair /\ 2 * Abs(p.offset - skew[node]) <= p.rt + 3
  BY <1>4, <1>5, AnswerIsClose
<1>7. data' = Append(data, p)
  BY <1>2, <1>4, <1>5
<1>. HIDE DEF p
<1>8. data' \in Seq(Pair) /\ Len(data') = Len(data) + 1
  BY <1>6, <1>7, AppendProperties DEF DriftTypeOK
<1>9. ToSet(data)' = ToSet(data) \cup {p}
  BY <1>6, <1>7, ToSetAppend DEF DriftTypeOK
<1>10. DriftTypeOK'
  BY <1>1, <1>8, DriftAssumption, LenProperties DEF DriftTypeOK
<1>11. NotCorrectedYet'
  BY <1>1, <1>3 DEF NotCorrectedYet, Done
<1>12. AnswersAreClose'
  BY <1>1, <1>6, <1>9 DEF AnswersAreClose
<1>. QED
  BY <1>10, <1>11, <1>12

LEMMA SyncRequestLostInv == DriftInv /\ SyncRequestLost => DriftInv'
PROOF
<1>. SUFFICES ASSUME DriftInv, SyncRequestLost PROVE DriftInv'
  OBVIOUS
<1>. USE DEF DriftInv, SyncRequestLost
<1>1. ~Done
  BY DriftAssumption DEF NotCorrectedYet, DriftTypeOK
<1>2. DriftTypeOK'
  BY DriftAssumption, LenProperties DEF DriftTypeOK
<1>3. NotCorrectedYet'
  BY <1>1 DEF NotCorrectedYet, Done
<1>4. AnswersAreClose'
  BY DEF AnswersAreClose, ToSet
<1>. QED
  BY <1>2, <1>3, <1>4

LEMMA ApplyInv ==
  ASSUME DriftInv, CorrectDrift, NEW p \in Pair, p # NotYet, Apply(p)
  PROVE  DriftInv'
PROOF
<1>. USE DEF DriftInv
<1>1. /\ selected' = p
      /\ UNCHANGED <<node, skew, asked, data>>
      /\ asked = Pings
  BY DEF Apply, CorrectDrift
<1>2. told' \in SUBSET PlayingNode /\ timeDrift' \in [PlayingNode -> Int]
  <2>1. CASE Abs(p.offset) > Tolerance
    <3>1. told' \in SUBSET PlayingNode
      BY <2>1 DEF Apply
    <3>2. timeDrift' = [n \in PlayingNode |-> IF n \in told' THEN -p.offset
                                                     ELSE timeDrift[n]]
      BY <2>1 DEF Apply
    <3>. QED
      BY <3>1, <3>2 DEF DriftTypeOK, Pair
  <2>2. CASE ~(Abs(p.offset) > Tolerance)
    BY <2>2 DEF Apply, DriftTypeOK
  <2>. QED
    BY <2>1, <2>2
<1>3. DriftTypeOK'
  BY <1>1, <1>2 DEF DriftTypeOK
<1>4. NotCorrectedYet'
  BY <1>1 DEF NotCorrectedYet, Done
<1>5. AnswersAreClose'
  BY <1>1 DEF AnswersAreClose, ToSet
<1>. QED
  BY <1>3, <1>4, <1>5

(* What is applied is an answer that counts or the pair that stands for    *)
(* no answer.                                                              *)
LEMMA CorrectDriftApplies ==
  ASSUME DriftInv, CorrectDrift
  PROVE  \E p \in Pair :
           /\ p # NotYet
           /\ Apply(p)
           /\ \/ p \in ToSet(data) /\ Minor(p)
              \/ p = NoAnswer /\ \A q \in ToSet(data) : ~Counts(q)
PROOF
<1>. USE DEF DriftInv
<1>1. CASE \E p \in ToSet(data) : Minor(p) /\ Apply(p)
  <2>1. PICK p \in ToSet(data) : Minor(p) /\ Apply(p)
    BY <1>1
  <2>2. p \in Pair
    BY ElementOfSeq DEF DriftTypeOK, ToSet
  <2>3. p # NotYet
    \* No answer has a round trip of -2.
    <3>1. 2 * Abs(p.offset - skew[node]) <= p.rt + 3
      BY DEF AnswersAreClose
    <3>2. Counts(p)
      BY <2>1 DEF Minor
    <3>3. p.rt = -2 => ~Counts(p)
      BY DriftAssumption DEF Counts, Unsigned
    <3>. QED
      BY <3>2, <3>3 DEF NotYet
  <2>. QED
    BY <2>1, <2>2, <2>3
<1>2. CASE (\A q \in ToSet(data) : ~Counts(q)) /\ Apply(NoAnswer)
  <2>1. NoAnswer \in Pair /\ NoAnswer # NotYet
    BY DriftAssumption DEF NoAnswer, NotYet, Pair
  <2>. QED
    BY <1>2, <2>1
<1>. QED
  BY <1>1, <1>2 DEF CorrectDrift

LEMMA DriftNextInv == DriftInv /\ [DriftNext]_driftVars => DriftInv'
PROOF
<1>. SUFFICES ASSUME DriftInv, [DriftNext]_driftVars PROVE DriftInv'
  OBVIOUS
<1>1. CASE SyncRequest
  BY <1>1, SyncRequestInv
<1>2. CASE SyncRequestLost
  BY <1>2, SyncRequestLostInv
<1>3. CASE CorrectDrift
  BY <1>3, CorrectDriftApplies, ApplyInv
<1>4. CASE UNCHANGED driftVars
  BY <1>4 DEF driftVars, DriftInv, DriftTypeOK, NotCorrectedYet, AnswersAreClose, Done, ToSet
<1>. QED
  BY <1>1, <1>2, <1>3, <1>4 DEF DriftNext

(* The state stays well typed: no more answers than requests.              *)
THEOREM DriftTypeCorrect == DriftSpec => []DriftTypeOK
PROOF
<1>1. DriftInv => DriftTypeOK
  BY DEF DriftInv
<1>. QED
  BY <1>1, DriftInitInv, DriftNextInv, PTL DEF DriftSpec
------------------------------------------------------------------------------
Results == ToldNodesAreInTime /\ NoCorrectionIsNeeded

LEMMA ApplyResults ==
  ASSUME DriftInv, CorrectDrift, NEW p \in Pair, p # NotYet, Apply(p),
         \/ p \in ToSet(data) /\ Minor(p)
         \/ p = NoAnswer /\ \A q \in ToSet(data) : ~Counts(q)
  PROVE  Results'
PROOF
<1>. USE DEF DriftInv
<1>1. /\ selected' = p
      /\ UNCHANGED <<node, skew, data>>
      /\ ~Done
  BY DEF Apply, CorrectDrift
<1>2. skew \in [PlayingNode -> Int] /\ skew' = skew /\ node \in PlayingNode /\ node' = node
  BY <1>1, DriftAssumption DEF DriftTypeOK
<1>3. ToSet(data)' = ToSet(data)
  BY <1>1 DEF ToSet
\* No result is about answers unless one counts.
<1>4. CASE p = NoAnswer /\ \A q \in ToSet(data) : ~Counts(q)
  BY <1>3, <1>4 DEF Results, ToldNodesAreInTime, NoCorrectionIsNeeded
<1>5. CASE p \in ToSet(data) /\ Minor(p)
  <2>1. 2 * Abs(p.offset - skew[node]) <= p.rt + 3
    BY <1>5 DEF AnswersAreClose
  <2>2. p.offset \in Int /\ p.rt \in Int
    BY DEF Pair
  <2>3. ASSUME NEW q \in ToSet(data), Counts(q)
        PROVE  q.rt \in Int /\ p.rt <= q.rt
    <3>1. q \in Pair
      BY ElementOfSeq DEF DriftTypeOK, ToSet
    <3>2. p.rt <= q.rt
      BY <1>5, <2>3, MinorIsMinimal DEF DriftTypeOK
    <3>. QED
      BY <3>1, <3>2 DEF Pair
  <2>4. ToldNodesAreInTime'
    <3>. SUFFICES ASSUME NEW n \in told', NEW q \in ToSet(data), Counts(q)
                  PROVE  2 * Abs(skew[n] + timeDrift'[n])
                           <= 2 * Abs(skew[n] - skew[node]) + q.rt + 3
      BY <1>2, <1>3 DEF ToldNodesAreInTime
    <3>1. CASE Abs(p.offset) > Tolerance
      <4>1. n \in PlayingNode /\ timeDrift'[n] = -p.offset
        BY <3>1 DEF Apply
      <4>2. skew[n] \in Int /\ skew[node] \in Int
        BY <1>2, <4>1
      <4>3. q.rt \in Int /\ p.rt <= q.rt
        BY <2>3
      <4>. QED
        BY <2>1, <2>2, <4>1, <4>2, <4>3 DEF Abs
    <3>2. CASE ~(Abs(p.offset) > Tolerance)
      BY <1>1, <3>2 DEF Apply, NotCorrectedYet
    <3>. QED
      BY <3>1, <3>2
  <2>5. NoCorrectionIsNeeded'
    <3>. SUFFICES ASSUME ~(Abs(p.offset) > Tolerance),
                         NEW q \in ToSet(data), Counts(q)
                  PROVE  2 * Abs(skew[node]) <= 2 * Tolerance + q.rt + 3
      BY <1>1, <1>2, <1>3 DEF NoCorrectionIsNeeded, Corrected, Done
    <3>1. q.rt \in Int /\ p.rt <= q.rt
      BY <2>3
    <3>2. skew[node] \in Int
      BY <1>2
    <3>. QED
      BY <2>1, <2>2, <3>1, <3>2, DriftAssumption DEF Abs
  <2>. QED
    BY <2>4, <2>5 DEF Results
<1>. QED
  BY <1>4, <1>5

LEMMA NextResults == DriftInv /\ Results /\ [DriftNext]_driftVars => Results'
PROOF
<1>. SUFFICES ASSUME DriftInv, Results, [DriftNext]_driftVars PROVE Results'
  OBVIOUS
\* Before the correction nobody was told and nothing was left uncorrected.
<1>1. CASE SyncRequest \/ SyncRequestLost
  <2>1. ~Done /\ UNCHANGED <<told, selected>>
    BY <1>1, DriftAssumption
    DEF SyncRequest, SyncRequestLost, DriftInv, NotCorrectedYet, DriftTypeOK
  <2>2. told' = {} /\ ~Done'
    BY <2>1 DEF DriftInv, NotCorrectedYet, Done
  <2>. QED
    BY <2>2 DEF Results, ToldNodesAreInTime, NoCorrectionIsNeeded
<1>2. CASE CorrectDrift
  BY <1>2, CorrectDriftApplies, ApplyResults
<1>3. CASE UNCHANGED driftVars
  BY <1>3 DEF driftVars, Results, ToldNodesAreInTime, NoCorrectionIsNeeded,
              Corrected, Done, ToSet
<1>. QED
  BY <1>1, <1>2, <1>3 DEF DriftNext

LEMMA InitResults == DriftInit => Results
  BY DEF DriftInit, Results, ToldNodesAreInTime, NoCorrectionIsNeeded, Done

(* A node that takes the correction is afterwards as far from the master   *)
(* as from the node that was asked, up to half the best round trip.        *)
THEOREM CorrectionIsPrecise == DriftSpec => []ToldNodesAreInTime
PROOF
<1>1. Results => ToldNodesAreInTime
  BY DEF Results
<1>. QED
  BY <1>1, DriftInitInv, DriftNextInv, InitResults, NextResults, PTL DEF DriftSpec

(* When correctDrift() sends nothing although an answer counted, the node  *)
(* it asked was within the tolerance, up to half the best round trip.      *)
THEOREM NothingIsLeftUncorrected == DriftSpec => []NoCorrectionIsNeeded
PROOF
<1>1. Results => NoCorrectionIsNeeded
  BY DEF Results
<1>. QED
  BY <1>1, DriftInitInv, DriftNextInv, InitResults, NextResults, PTL DEF DriftSpec
------------------------------------------------------------------------------
(* Where the two threads may be at one time, what that says of the flags   *)
(* they share, and that a buffer after stop() is the last one: the loop    *)
(* tests stop_ before it reads another.                                    *)
PlacesAgree ==
  /\ owner = "constructed" => bck_ = "none"
  /\ owner \in {"locking", "checking", "notReady", "asleep", "waiting",
                "destroying"} => Joinable
  /\ owner = "gone" => ~Joinable

Ready == bck_ \in {"none", "starting", "locked"} => playing_ = FALSE

DeviceClosed == bck_ \in {"deleting", "ended", "joined"} => dev_ = "closed"

LastHeard ==
  tail = 1 => stop_ /\ bck_ \in {"looping", "closing", "deleting", "ended", "joined"}

PlayerInv == PlayerTypeOK /\ PlacesAgree /\ Ready /\ DeviceClosed /\ LastHeard

LEMMA PlayerInitInv == PlayerInit => PlayerInv
<1> SUFFICES ASSUME PlayerInit PROVE PlayerInv
  OBVIOUS
<1> USE DEF PlayerInit
<1>1. playing_ \in BOOLEAN /\ stop_ \in BOOLEAN
  OBVIOUS
<1>2. PlayerTypeOK
  BY <1>1 DEF PlayerTypeOK
<1>3. PlacesAgree /\ DeviceClosed /\ LastHeard
  BY DEF PlacesAgree, DeviceClosed, LastHeard, Joinable
<1>4. Ready
  BY DEF Ready
<1> QED
  BY <1>2, <1>3, <1>4 DEF PlayerInv

LEMMA OwnerKeeps == PlayerInv /\ Owner => PlayerInv'
<1> SUFFICES ASSUME PlayerInv, Owner PROVE PlayerInv'
  OBVIOUS
<1> USE DEF PlayerInv, PlayerTypeOK, PlacesAgree, Ready, DeviceClosed, LastHeard, Joinable,
            Goto, BckGoto
<1>1. CASE Play
  BY <1>1 DEF Play
<1>2. CASE Lock \/ Check \/ Sleep
  BY <1>2 DEF Lock, Check, Sleep
<1>3. CASE WaitForFinish \/ Finished
  BY <1>3 DEF WaitForFinish, Finished
<1>4. CASE Destroy \/ Destroyed
  BY <1>4 DEF Destroy, Destroyed
<1> QED
  BY <1>1, <1>2, <1>3, <1>4 DEF Owner

LEMMA ThreadKeeps == PlayerInv /\ PlayInternal => PlayerInv'
<1> SUFFICES ASSUME PlayerInv, PlayInternal PROVE PlayerInv'
  OBVIOUS
<1> USE DEF PlayerInv, PlayerTypeOK, PlacesAgree, Ready, DeviceClosed, LastHeard, Joinable,
            Goto, BckGoto
<1>1. CASE LockAndUnlock \/ SetPlaying
  BY <1>1 DEF LockAndUnlock, SetPlaying
<1>2. CASE Notify
  BY <1>2 DEF Notify
<1>3. CASE PlayLoop \/ Read
  BY <1>3 DEF PlayLoop, Read
<1>4. CASE WriteBuffer
  BY <1>4 DEF WriteBuffer
<1>5. CASE CloseDevice \/ DeleteDecoder
  BY <1>5 DEF CloseDevice, DeleteDecoder
<1> QED
  BY <1>1, <1>2, <1>3, <1>4, <1>5 DEF PlayInternal

LEMMA PlayerNextInv == PlayerInv /\ [PlayerNext]_playerVars => PlayerInv'
<1> SUFFICES ASSUME PlayerInv, [PlayerNext]_playerVars PROVE PlayerInv'
  OBVIOUS
<1> USE DEF PlayerInv, PlayerTypeOK, PlacesAgree, Ready, DeviceClosed, LastHeard, Joinable
<1>1. CASE SpuriousWakeUp
  BY <1>1 DEF SpuriousWakeUp, Goto
<1>2. CASE Stop
  BY <1>2 DEF Stop
<1>3. CASE UNCHANGED playerVars
  BY <1>3 DEF playerVars
<1> QED
  BY <1>1, <1>2, <1>3, OwnerKeeps, ThreadKeeps DEF PlayerNext

LEMMA PlayerIsSound == PlayerSpec => []PlayerInv
BY PlayerInitInv, PlayerNextInv, PTL DEF PlayerSpec

(* The two threads are only ever where they may be together, and at most   *)
(* one buffer is played after stop().                                      *)
THEOREM PlayerTypeCorrect == PlayerSpec => []PlayerTypeOK
<1>1. PlayerInv => PlayerTypeOK
  BY DEF PlayerInv
<1> QED
  BY <1>1, PlayerIsSound, PTL

(* However play(), stop() and the destructor interleave with the audio     *)
(* thread, the player is never destroyed before the thread was joined, and *)
(* a thread that was joined has closed the device.                         *)
THEOREM PlayerOutlivesThread == PlayerSpec => []PlayerOutlivesItsThread
<1>1. PlayerInv => PlayerOutlivesItsThread
  BY DEF PlayerInv, PlacesAgree, DeviceClosed, Joinable, PlayerTypeOK, PlayerOutlivesItsThread
<1> QED
  BY <1>1, PlayerIsSound, PTL

(* play() returns from its wait only when the thread has said that it is   *)
(* about to play, whatever woke it before.                                 *)
THEOREM ReadyWhenPlayReturns == PlayerSpec => PlayReturnsAfterTheThreadIsReady
<1>1. PlayerInv /\ [PlayerNext]_playerVars
        => [owner' = "returned" /\ owner = "checking"
              => bck_ \notin {"none", "starting", "locked"}]_playerVars
  <2> SUFFICES ASSUME PlayerInv, PlayerNext, owner' = "returned", owner = "checking"
               PROVE  bck_ \notin {"none", "starting", "locked"}
    OBVIOUS
  <2>1. playing_
    BY DEF PlayerNext, Owner, PlayInternal, Play, Lock, Check, Sleep, WaitForFinish,
       Finished, Destroy, Destroyed, SpuriousWakeUp, Stop, LockAndUnlock,
       SetPlaying, Notify, PlayLoop, Read, WriteBuffer, CloseDevice, DeleteDecoder,
       Goto, BckGoto
  <2> QED
    BY <2>1 DEF PlayerInv, Ready
<1> QED
  BY <1>1, PlayerIsSound, PTL DEF PlayerSpec, PlayReturnsAfterTheThreadIsReady

LEMMA PlayerStepIsSongStep ==
  PlayerInv /\ [PlayerNext]_playerVars => [Song!Next]_(Song!songVars)
<1> SUFFICES ASSUME PlayerInv, [PlayerNext]_playerVars
             PROVE  Song!Next \/ UNCHANGED Song!songVars
  OBVIOUS
<1> USE DEF Song!Next, Song!songVars, Goto, BckGoto, PlayerInv
<1>1. CASE Owner \/ SpuriousWakeUp \/ Stop
  BY <1>1 DEF Owner, SpuriousWakeUp, Stop, Play, Lock, Check, Sleep, WaitForFinish,
     Finished, Destroy, Destroyed, Song!Stop, PlacesAgree
<1>2. CASE LockAndUnlock \/ SetPlaying \/ PlayLoop \/ Read \/ CloseDevice
  BY <1>2 DEF LockAndUnlock, SetPlaying, PlayLoop, Read, CloseDevice
<1>3. CASE Notify
  BY <1>3 DEF Notify, Song!Start
<1>4. CASE WriteBuffer
  BY <1>4 DEF WriteBuffer, Song!LastBuffer, LastHeard, PlayerTypeOK
<1>5. CASE DeleteDecoder
  BY <1>5 DEF DeleteDecoder, Song!End
<1>6. CASE UNCHANGED playerVars
  BY <1>6 DEF playerVars
<1> QED
  BY <1>1, <1>2, <1>3, <1>4, <1>5, <1>6 DEF PlayerNext, PlayInternal

(* A player is a song: it sounds once, and of what is played after stop()  *)
(* one buffer is heard at most.                                            *)
THEOREM PlayerIsASafeSong == PlayerSpec => Song!SafeSpec
<1>1. PlayerInit => Song!Init
  BY DEF PlayerInit, Song!Init
<1> QED
  BY <1>1, PlayerStepIsSongStep, PlayerIsSound, PTL DEF PlayerSpec, Song!SafeSpec
=============================================================================
