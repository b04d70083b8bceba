------------------------------ MODULE Registry ------------------------------
(***************************************************************************)
(* NodeController.cpp: which nodes are known, which channel each has, and  *)
(* the lists by which keys are uploaded.  Two threads use it at once:      *)
(*   - the one that plays: the constructor of an animation gives channels  *)
(*     to the nodes (setChannelMap, setAllToChannel or setChannelAuto) and *)
(*     its play thread uploads keys (sendInitialKeys);                     *)
(*   - the discovery thread, which adds nodes that have just booted.       *)
(* Nothing is locked, and the steps of the two threads interleave.  A call *)
(* over the network is a step, each of the two insertions of a new node is *)
(* one, and so is each pass of the loop that rebuilds the lists.           *)
(* There are fewer nodes than a rehash of the maps takes, so an insertion  *)
(* leaves the loops of the other thread alone: a loop may or may not visit *)
(* what was inserted meanwhile.                                            *)
(*                                                                         *)
(* A call may be taken by the node, be ignored by it (it plays, or what    *)
(* was sent was lost after the connection was made) or fail.               *)
(***************************************************************************)
EXTENDS Naturals, FiniteSets

CONSTANTS Node,      \* the nodes' ids
          NChannels, \* channels of the largest animation
          MaxBoots   \* bound: how often nodes boot

ASSUME RegistryAssumption == NChannels \in Nat \ {0} /\ MaxBoots \in Nat

Channel == 0 .. NChannels - 1
NoChannel == NChannels

VARIABLES
  nodeIdToNode_,    \* the ids of the known nodes
  channelMap_,      \* id |-> channel, NoChannel for ids that are not in it
  channelToNodes_,  \* channel |-> the nodes in its list
  op,               \* the loop that runs, "none" outside
  arg,              \* its parameter
  idx,              \* setChannelAuto's count
  todo,             \* nodes the loop has yet to visit
  newcomers,        \* nodes inserted meanwhile, that it may visit
  removeList,       \* nodes whose call has failed
  remaking,         \* the loop is the one of remakeChannelToNodes()
  joining,          \* the discovery thread's newNode
  inserted,         \* ... which is in channelMap_, but not yet known
  channel_id,       \* of each device
  receiving,        \* devices that are in RECEIVING_KEYFRAMES
  announced,        \* datagrams of nodes that have booted
  boots,            \* nodes that have booted so far
  astray,           \* history: devices that missed the last call or rebooted
  raced,            \* history: nodes inserted anywhere in the last remap
  late              \* history: nodes that were inserted in one of the maps
                    \* when this remap cleared it, or while it rebuilds
                    \* the lists

loopVars == <<op, arg, idx, todo, newcomers, removeList, remaking>>
discoveryVars == <<joining, inserted, announced, boots>>
historyVars == <<raced, late>>
vars == <<nodeIdToNode_, channelMap_, channelToNodes_, loopVars,
          discoveryVars, channel_id, receiving, astray, historyVars>>

Remaps == {"map", "all", "auto"}
Uploads == {"in", "keys", "en"}

(* After init(): the nodes that answered are on channel 0, and no list is  *)
(* made.                                                                   *)
Init ==
  /\ nodeIdToNode_ \in SUBSET Node
  /\ channelMap_ = [n \in Node |-> IF n \in nodeIdToNode_ THEN 0 ELSE NoChannel]
  /\ channelToNodes_ = [c \in Channel |-> {}]
  /\ op = "none" /\ arg = 0 /\ idx = 0
  /\ todo = {} /\ newcomers = {} /\ removeList = {} /\ remaking = FALSE
  /\ joining = {} /\ inserted = FALSE /\ announced = {} /\ boots = 0
  /\ channel_id = [n \in Node |-> 0] /\ receiving = {}
  /\ astray = {} /\ raced = {} /\ late = {}
------------------------------------------------------------------------------
(* unordered_map::insert() leaves an id alone that is there already.       *)
Insert(n, c) ==
  channelMap_' = IF channelMap_[n] = NoChannel
                   THEN [channelMap_ EXCEPT ![n] = c]
                   ELSE channelMap_

(* Node::setChannel() and whether it returns true.  The device ignores it  *)
(* while it receives keys, or plays.                                       *)
SetChannel(n, c, ok) ==
  \/ /\ ok /\ n \notin receiving
     /\ channel_id' = [channel_id EXCEPT ![n] = c]
     /\ astray' = astray \ {n}
  \/ /\ astray' = astray \cup {n}
     /\ UNCHANGED channel_id

(* removeDeadNode(): out of the map, and out of the first list that has    *)
(* it.  CHOOSE stands for the order of channelToNodes_.                    *)
ForgetButForTheLists(n) ==
  /\ nodeIdToNode_' = nodeIdToNode_ \ {n}
  /\ UNCHANGED channelToNodes_

ForgetInTheListsOnly(n) ==
  /\ channelToNodes_' = [c \in Channel |-> channelToNodes_[c] \ {n}]
  /\ UNCHANGED nodeIdToNode_

Forget(n) ==
  /\ nodeIdToNode_' = nodeIdToNode_ \ {n}
  /\ LET lists == {c \in Channel : n \in channelToNodes_[c]}
         first == CHOOSE c \in lists : TRUE
     IN  channelToNodes_' = IF lists = {} THEN channelToNodes_
           ELSE [channelToNodes_ EXCEPT ![first] = @ \ {n}]

Loop(kind, parameter, nodes) ==
  /\ op' = kind /\ arg' = parameter /\ idx' = 0
  /\ todo' = nodes /\ newcomers' = {} /\ removeList' = {}
  /\ IF kind \in Remaps
       THEN raced' = {} /\ late' = IF inserted THEN joining ELSE {}
       ELSE UNCHANGED historyVars
  /\ UNCHANGED remaking

(* The loop's own variables are forgotten.                                 *)
LoopEnds ==
  /\ op' = "none" /\ arg' = 0 /\ idx' = 0
  /\ newcomers' = {} /\ remaking' = FALSE
  /\ UNCHANGED <<todo, removeList>>

Visit(n) ==
  /\ todo' = todo \ {n} /\ newcomers' = newcomers \ {n}
  /\ UNCHANGED <<op, arg, remaking, discoveryVars, historyVars>>

Gives(kind) == op = kind /\ ~remaking
------------------------------------------------------------------------------
(* setChannelMap(): the map is taken as it is, unknown ids included.       *)
SetChannelMap ==
  /\ op = "none"
  /\ \E map \in [Node -> Channel \cup {NoChannel}] :
       /\ channelMap_' = map
       /\ Loop("map", 0, {n \in Node : map[n] # NoChannel})
  /\ UNCHANGED <<nodeIdToNode_, channelToNodes_, discoveryVars, channel_id,
                 receiving, astray>>

MapUnknown(n) ==
  /\ Gives("map") /\ n \in todo /\ n \notin nodeIdToNode_
  /\ Visit(n)
  /\ UNCHANGED <<nodeIdToNode_, channelMap_, channelToNodes_, idx, removeList,
                 channel_id, receiving, astray>>

MapNode(n) ==
  /\ Gives("map") /\ n \in todo /\ n \in nodeIdToNode_
  /\ Visit(n)
  /\ \E ok \in BOOLEAN :
       /\ SetChannel(n, channelMap_[n], ok)
       /\ IF ok THEN UNCHANGED <<nodeIdToNode_, channelToNodes_>> ELSE Forget(n)
  /\ UNCHANGED <<channelMap_, idx, removeList, receiving>>

SetAllKeepingTheMap ==
  /\ op = "none"
  /\ \E c \in Channel : Loop("all", c, nodeIdToNode_)
  /\ UNCHANGED <<nodeIdToNode_, channelMap_, channelToNodes_, discoveryVars,
                 channel_id, receiving, astray>>

(* setAllToChannel().                                                      *)
SetAllToChannel ==
  /\ op = "none"
  /\ channelMap_' = [n \in Node |-> NoChannel]
  /\ \E c \in Channel : Loop("all", c, nodeIdToNode_)
  /\ UNCHANGED <<nodeIdToNode_, channelToNodes_, discoveryVars, channel_id,
                 receiving, astray>>

AllNodeIgnoringFailure(n) ==
  /\ Gives("all") /\ n \in todo \cup newcomers
  /\ Visit(n)
  /\ \/ SetChannel(n, arg, TRUE) /\ Insert(n, arg)
     \/ SetChannel(n, arg, FALSE) /\ UNCHANGED channelMap_
  /\ UNCHANGED <<nodeIdToNode_, channelToNodes_, idx, removeList, receiving>>

AllNode(n) ==
  /\ Gives("all") /\ n \in todo \cup newcomers
  /\ Visit(n)
  /\ \/ SetChannel(n, arg, TRUE) /\ Insert(n, arg) /\ UNCHANGED removeList
     \/ /\ SetChannel(n, arg, FALSE)
        /\ removeList' = removeList \cup {n}
        /\ UNCHANGED channelMap_
  /\ UNCHANGED <<nodeIdToNode_, channelToNodes_, idx, receiving>>

AutoChannel == idx % arg

(* setChannelAuto(); an animation has at least one channel.                *)
SetChannelAuto ==
  /\ op = "none"
  /\ channelMap_' = [n \in Node |-> NoChannel]
  /\ \E numOfChannels \in 1 .. NChannels :
       Loop("auto", numOfChannels, nodeIdToNode_)
  /\ UNCHANGED <<nodeIdToNode_, channelToNodes_, discoveryVars, channel_id,
                 receiving, astray>>

AutoNode(n) ==
  /\ Gives("auto") /\ n \in todo \cup newcomers
  /\ Visit(n)
  /\ LET dstCh == AutoChannel IN
       \/ /\ SetChannel(n, dstCh, TRUE)
          /\ Insert(n, dstCh)
          /\ idx' = idx + 1
          /\ UNCHANGED removeList
       \/ /\ SetChannel(n, dstCh, FALSE)
          /\ removeList' = removeList \cup {n}
          /\ UNCHANGED <<channelMap_, idx>>
  /\ UNCHANGED <<nodeIdToNode_, channelToNodes_, receiving>>

(* The loop over removeList that ends each of the others.                  *)
RemoveDeadNode(n) ==
  /\ todo = {} /\ n \in removeList
  /\ Forget(n)
  /\ removeList' = removeList \ {n} /\ newcomers' = {}
  /\ UNCHANGED <<channelMap_, op, arg, idx, todo, remaking, discoveryVars,
                 channel_id, receiving, astray, historyVars>>

RemakeWithoutClear ==
  /\ op \in Remaps /\ ~remaking /\ todo = {} /\ removeList = {}
  /\ remaking' = TRUE
  /\ todo' = {n \in Node : channelMap_[n] # NoChannel} /\ newcomers' = {}
  /\ UNCHANGED <<nodeIdToNode_, channelMap_, channelToNodes_, op, arg, idx,
                 removeList, discoveryVars, channel_id, receiving, astray,
                 historyVars>>

(* remakeChannelToNodes() ends them: the lists are cleared, and made again *)
(* in a loop over channelMap_.                                             *)
RemakeChannelToNodes ==
  /\ op \in Remaps /\ ~remaking /\ todo = {} /\ removeList = {}
  /\ remaking' = TRUE
  /\ channelToNodes_' = [c \in Channel |-> {}]
  /\ todo' = {n \in Node : channelMap_[n] # NoChannel} /\ newcomers' = {}
  /\ UNCHANGED <<nodeIdToNode_, channelMap_, op, arg, idx, removeList,
                 discoveryVars, channel_id, receiving, astray, historyVars>>

ListNode(n) ==
  /\ remaking /\ n \in todo \cup newcomers
  /\ Visit(n)
  /\ IF n \in nodeIdToNode_
       THEN channelToNodes_' =
              [channelToNodes_ EXCEPT ![channelMap_[n]] = @ \cup {n}]
       ELSE UNCHANGED channelToNodes_
  /\ UNCHANGED <<nodeIdToNode_, channelMap_, idx, removeList, channel_id,
                 receiving, astray>>

RemakeEnds ==
  /\ remaking /\ todo = {}
  /\ LoopEnds
  /\ late' = {}
  /\ UNCHANGED <<nodeIdToNode_, channelMap_, channelToNodes_, discoveryVars,
                 channel_id, receiving, astray, raced>>
------------------------------------------------------------------------------
(* sendInitialKeys(), from channel to channel; those without keys are      *)
(* passed over.  Each phase is a loop over the channel's list, and each    *)
(* packet of keys a phase of its own.                                      *)
Phase(phase, c) ==
  /\ Loop(phase, c, channelToNodes_[c])
  /\ UNCHANGED <<nodeIdToNode_, channelMap_, channelToNodes_, discoveryVars,
                 channel_id, receiving, astray>>

SendInitialKeys == op = "none" /\ \E c \in Channel : Phase("in", c)

(* putNodeInKeyIn(), sendKeyframesInKeyframeMode(), exitNodeFromKeyIn().   *)
UploadToNode(n) ==
  /\ op \in Uploads /\ n \in todo
  /\ Visit(n)
  /\ \/ /\ receiving' = CASE op = "in" -> receiving \cup {n}
                          [] op = "keys" -> receiving
                          [] op = "en" -> receiving \ {n}
        /\ UNCHANGED <<astray, removeList>>
     \/ astray' = astray \cup {n} /\ UNCHANGED <<receiving, removeList>>
     \/ removeList' = removeList \cup {n} /\ UNCHANGED <<astray, receiving>>
  /\ UNCHANGED <<nodeIdToNode_, channelMap_, channelToNodes_, idx, channel_id>>

PhaseEnds ==
  /\ op \in Uploads /\ todo = {} /\ removeList = {}
  /\ \/ op = "in" /\ Phase("keys", arg)
     \/ op = "keys" /\ Phase("keys", arg)
     \/ op = "keys" /\ Phase("en", arg)
     \/ op = "en" /\ \E c \in Channel : c > arg /\ Phase("in", c)
     \/ /\ op = "en"
        /\ LoopEnds
        /\ UNCHANGED <<nodeIdToNode_, channelMap_, channelToNodes_,
                       discoveryVars, channel_id, receiving, astray,
                       historyVars>>
------------------------------------------------------------------------------
(* internal_discovery(): an id that is known is ignored, another is set to *)
(* channel 0, whatever comes of it, ...                                    *)
Discover(n) ==
  /\ joining = {} /\ n \in announced
  /\ announced' = announced \ {n}
  /\ IF n \in nodeIdToNode_
       THEN UNCHANGED <<joining, channel_id, astray>>
       ELSE /\ joining' = {n}
            /\ \E ok \in BOOLEAN : SetChannel(n, 0, ok)
  /\ UNCHANGED <<nodeIdToNode_, channelMap_, channelToNodes_, loopVars,
                 inserted, boots, receiving, historyVars>>

(* ... inserted into the map of channels, ...                              *)
InsertChannel(n) ==
  /\ n \in joining /\ ~inserted
  /\ inserted' = TRUE
  /\ Insert(n, 0)
  /\ newcomers' = IF remaking /\ channelMap_[n] = NoChannel
                    THEN newcomers \cup {n} ELSE newcomers
  /\ raced' = IF op \in Remaps THEN raced \cup {n} ELSE raced
  /\ late' = IF remaking THEN late \cup {n} ELSE late
  /\ UNCHANGED <<nodeIdToNode_, channelToNodes_, op, arg, idx, todo, removeList,
                 remaking, joining, announced, boots, channel_id, receiving,
                 astray>>

(* ... and then into the one of nodes.                                     *)
InsertNode(n) ==
  /\ n \in joining /\ inserted
  /\ joining' = {} /\ inserted' = FALSE
  /\ nodeIdToNode_' = nodeIdToNode_ \cup {n}
  /\ newcomers' = IF Gives("all") \/ Gives("auto")
                    THEN newcomers \cup {n} ELSE newcomers
  /\ raced' = IF op \in Remaps THEN raced \cup {n} ELSE raced
  /\ late' = IF remaking THEN late \cup {n} ELSE late
  /\ UNCHANGED <<channelMap_, channelToNodes_, op, arg, idx, todo, removeList,
                 remaking, announced, boots, channel_id, receiving, astray>>

(* A node boots: it is idle, on channel 0, and sends one datagram, which   *)
(* may be lost.                                                            *)
Boot(n) ==
  /\ boots < MaxBoots /\ boots' = boots + 1
  /\ channel_id' = [channel_id EXCEPT ![n] = 0]
  /\ receiving' = receiving \ {n}
  /\ astray' = astray \cup {n}
  /\ \/ announced' = announced \cup {n}
     \/ UNCHANGED announced
  /\ UNCHANGED <<nodeIdToNode_, channelMap_, channelToNodes_, loopVars, joining,
                 inserted, historyVars>>

Next ==
  \/ SetChannelMap \/ SetAllToChannel \/ SetChannelAuto
  \/ RemakeChannelToNodes \/ RemakeEnds \/ SendInitialKeys \/ PhaseEnds
  \/ \E n \in Node :
       \/ MapUnknown(n) \/ MapNode(n) \/ AllNode(n) \/ AutoNode(n)
       \/ RemoveDeadNode(n) \/ ListNode(n) \/ UploadToNode(n)
       \/ Discover(n) \/ InsertChannel(n) \/ InsertNode(n) \/ Boot(n)

Spec == Init /\ [][Next]_vars
------------------------------------------------------------------------------
TypeOK ==
  /\ nodeIdToNode_ \in SUBSET Node
  /\ channelMap_ \in [Node -> Channel \cup {NoChannel}]
  /\ channelToNodes_ \in [Channel -> SUBSET Node]
  /\ op \in {"none"} \cup Remaps \cup Uploads
  /\ arg \in 0 .. NChannels /\ idx \in Nat
  /\ todo \in SUBSET Node /\ newcomers \in SUBSET Node
  /\ removeList \in SUBSET Node
  /\ remaking \in BOOLEAN
  /\ joining \in SUBSET Node /\ inserted \in BOOLEAN
  /\ announced \in SUBSET Node
  /\ boots \in 0 .. MaxBoots
  /\ channel_id \in [Node -> Channel]
  /\ receiving \in SUBSET Node /\ astray \in SUBSET Node
  /\ raced \in SUBSET Node /\ late \in SUBSET Node

(* Keys are uploaded to known nodes only: whenever a node is found dead,   *)
(* it leaves its list with the map, and no list brings it back.            *)
ListedNodesAreKnown == \A c \in Channel : channelToNodes_[c] \subseteq nodeIdToNode_

(* A node is in one list at most, so removeDeadNode(), which stops at the  *)
(* first, leaves none behind, and no node gets two channels' keys.         *)
OneListPerNode ==
  \A c, d \in Channel : channelToNodes_[c] \cap channelToNodes_[d] # {} => c = d

(* A device that took its last call is on the channel in whose list it is, *)
(* unless it joined while the channels were given.                         *)
ListedNodesAreOnTheirChannel ==
  op \notin Remaps =>
    \A c \in Channel : \A n \in channelToNodes_[c] \ (astray \cup raced) :
      channel_id[n] = c

(* setAllToChannel() and setChannelAuto() reach every node: what is known  *)
(* when they end is listed.  That holds for a node that joins meanwhile    *)
(* too, if both its insertions come after the map is cleared and before    *)
(* the lists are rebuilt; otherwise it may be known and in no list.        *)
EveryKnownNodeIsListed ==
  [][op' = "none" /\ op \in {"all", "auto"} =>
       nodeIdToNode_' \ late \subseteq UNION {channelToNodes_'[c] : c \in Channel}]_vars

(* A known node is not left behind in RECEIVING_KEYFRAMES: the upload ends *)
(* it, or the node is forgotten until it has booted.                       *)
NoKnownNodeIsLeftReceiving ==
  op \notin Uploads => nodeIdToNode_ \cap receiving \subseteq astray
=============================================================================
