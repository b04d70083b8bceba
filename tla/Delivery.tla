------------------------------ MODULE Delivery ------------------------------
(***************************************************************************)
(* The way of the keys from an animation file to the nodes: FileAnimation, *)
(* BaseAnimation's pages, NodeController::sendInitialKeys() and sendKeys() *)
(* with KeyframeData, and the node that reads its own keys in what it      *)
(* gets.  Here no packet is lost or late and each comes in one piece (see  *)
(* Streaming for the time it takes and Registry for nodes that fail).      *)
(* One node per channel; an upload ends with the animation on its nodes    *)
(* if it is a CYCLE, and is followed by pages of all channels if it is a   *)
(* SINGLE.                                                                 *)
(***************************************************************************)
EXTENDS KeyframeData, AnimFile

CONSTANTS Drawn,                          \* the animations that are exported
          N_KEYS_ON_INIT,                 \* keys of the upload, per channel
          MAX_KEYS_PER_PACKET_INIT_MODE,  \* and of one of its packets
          KEYTIME_MAX, SIZE_MAX

(* Keys are times, and those of an exported channel are in order.          *)
(* Channels without a key, which the exporter writes for curves without    *)
(* points, are left out: the play thread ends in an exception with them.   *)
(* The built-in circle has as many keys as channels and one more.  There   *)
(* are not so many channels that a page has no room for one key of each.   *)
ASSUME DeliveryAssumption ==
  /\ KEYTIME_MAX \in Nat \ {0} /\ SIZE_MAX \in Nat
  /\ Key = 0 .. KEYTIME_MAX - 1
  /\ Drawn \subseteq [Channel -> Seq(Key)]
  /\ \A drawn \in Drawn : \A ch \in Channel :
       /\ \A i, j \in 1 .. Len(drawn[ch]) : i < j => drawn[ch][i] <= drawn[ch][j]
       /\ Len(drawn[ch]) \in 1 .. SIZE_MAX - 1
  /\ NChannels < KEYTIME_MAX /\ NChannels + 1 < SIZE_MAX
  /\ N_KEYS_ON_INIT \in 1 .. SIZE_MAX /\ KeysPerPage \in 1 .. SIZE_MAX
  /\ MAX_KEYS_PER_PACKET_INIT_MODE \in 1 .. CountMod - 1

VARIABLES
  data, keyframePositions, started, sent,   \* BaseAnimation
  pc,        \* where AnimationController::internal_start() is
  type,      \* getAnimType()
  list,      \* its local list
  chNum,     \* the channel that sendInitialKeys() sends, ...
  packets,   \* and what it still sends of it
  received   \* the keys that the node of each channel has inserted

animVars == <<data, keyframePositions, started, sent>>
sendVars == <<list, chNum, packets>>
vars == <<animVars, bufferVars, pc, type, sendVars, received>>

Anim == INSTANCE BaseAnimation
          WITH Animation <- Drawn,
               PageSize <- {N_KEYS_ON_INIT, KeysPerPage}, Garbage <- Garbage

(* AnimationFactory::createAnimation()                                     *)
Init ==
  /\ \/ /\ type = "SINGLE"
        /\ \E drawn \in Drawn : data = Load(Save(drawn, NChannels))
     \/ /\ type = "CYCLE"
        /\ data = Circle(NChannels, 1)
  /\ keyframePositions = [ch \in Channel |-> 0]
  /\ started = FALSE
  /\ sent = [ch \in Channel |-> << >>]
  /\ BufferInit
  /\ pc = "start"
  /\ list = Empty /\ chNum = 0 /\ packets = << >>
  /\ received = [ch \in Channel |-> << >>]
------------------------------------------------------------------------------
TakeFirstPage ==
  /\ pc = "start"
  /\ Anim!GetNKeys(N_KEYS_ON_INIT)
  /\ list' = [ch \in Channel |-> Anim!PageOf(ch, N_KEYS_ON_INIT)]
  /\ pc' = "choosing"
  /\ UNCHANGED <<bufferVars, type, chNum, packets, received>>

(* sendInitialKeys(): full packets, then one with what remains.            *)
SplitWithoutRest(keys) ==
  LET n == MAX_KEYS_PER_PACKET_INIT_MODE
  IN  IF keys # << >> /\ Len(keys) < n THEN <<keys>>
      ELSE [i \in 1 .. Len(keys) \div n |->
              SubSeq(keys, n * (i - 1) + 1, n * i)]

Split(keys) ==
  LET n == MAX_KEYS_PER_PACKET_INIT_MODE
      full == [i \in 1 .. Len(keys) \div n |->
                 SubSeq(keys, n * (i - 1) + 1, n * i)]
      lastSent == n * (Len(keys) \div n)
  IN  IF keys # << >> /\ Len(keys) < n THEN <<keys>>
      ELSE IF Len(keys) % n > 0
        THEN Append(full, SubSeq(keys, lastSent + 1, Len(keys)))
        ELSE full

ChooseChannel ==
  /\ pc = "choosing" /\ chNum < NChannels
  /\ packets' = Split(list[chNum])
  /\ pc' = "uploading"
  /\ UNCHANGED <<animVars, bufferVars, type, list, chNum, received>>

(* sendToChannel(): one TCP connection, one packet.                        *)
SendPacket ==
  /\ pc = "uploading" /\ packets # << >>
  /\ received' = [received EXCEPT ![chNum] =
                    @ \o ReadSingle(Single(Head(packets)))]
  /\ packets' = Tail(packets)
  /\ UNCHANGED <<animVars, bufferVars, pc, type, list, chNum>>

EndChannel ==
  /\ pc = "uploading" /\ packets = << >>
  /\ chNum' = chNum + 1
  /\ pc' = "choosing"
  /\ UNCHANGED <<animVars, bufferVars, type, list, packets, received>>

EndUpload ==
  /\ pc = "choosing" /\ chNum = NChannels
  /\ pc' = IF type = "SINGLE" THEN "streaming" ELSE "done"
  /\ UNCHANGED <<animVars, bufferVars, type, sendVars, received>>

(* The loop that follows for a SINGLE: the next page of every channel ...  *)
TakeNextPage ==
  /\ pc = "streaming" /\ Anim!FirstKeyout # KEYTIME_MAX
  /\ Anim!GetNKeys(KeysPerPage)
  /\ Construct([ch \in Channel |-> Anim!PageOf(ch, KeysPerPage)])
  /\ pc' = "sending"
  /\ UNCHANGED <<type, sendVars, received>>

BuildPage ==
  /\ pc = "sending"
  /\ Build
  /\ UNCHANGED <<animVars, pc, type, sendVars, received>>

(* ... is one datagram for all nodes, of which each reads its channel.     *)
SendKeys ==
  /\ pc = "sending"
  /\ received' = [ch \in Channel |-> received[ch] \o ReadPage(data_, ch)]
  /\ Release
  /\ pc' = "streaming"
  /\ UNCHANGED <<animVars, type, sendVars>>

EndShow ==
  /\ pc = "streaming" /\ Anim!FirstKeyout = KEYTIME_MAX
  /\ pc' = "done"
  /\ UNCHANGED <<animVars, bufferVars, type, sendVars, received>>

Next ==
  \/ TakeFirstPage \/ ChooseChannel \/ SendPacket \/ EndChannel
  \/ EndUpload \/ TakeNextPage \/ BuildPage \/ SendKeys \/ EndShow

(* The play thread does one thing after the other and waits for nothing.   *)
Spec == Init /\ [][Next]_vars /\ WF_vars(Next)
------------------------------------------------------------------------------
(* What FileAnimation reads is what was exported.                          *)
FilesAreReadAsWritten == type = "SINGLE" => data \in Drawn

(* When the play thread has sent the last page, and that it does in the    *)
(* end, all of the animation is on the nodes.                              *)
EverythingArrives == <>(pc = "done" /\ received = data)
=============================================================================
