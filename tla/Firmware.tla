------------------------------ MODULE Firmware ------------------------------
(***************************************************************************)
(* firmware/src/main.cpp: one node.  A node is in one of four states:      *)
(* IDLE, RECEIVING_KEYFRAMES (between the commands "in" and "en"), RUNNING *)
(* (played once, keys are freed as they pass) and CYCLING.  Its loop()     *)
(* handles at most one datagram and one TCP connection, then draws a frame *)
(* when one is due.  k1 and k2 are the keys the current frame lies         *)
(* between; they point into the list of KeyQueue, and are here the         *)
(* positions of those keys, counted from the front of the list: a position *)
(* below 1 is a key that was freed.                                        *)
(*                                                                         *)
(* Handlers run one at a time.  The two loops that change the list take a  *)
(* step for each pass, and no handler runs before they are finished: the   *)
(* one that reads the keys of a packet, and the one of generateFrame()     *)
(* that moves on to the next keys.                                         *)
(*                                                                         *)
(* Times are multiples of the frame period.  millis() - startTime and the  *)
(* drift are 32 bit numbers that wrap; here they wrap at W.                *)
(***************************************************************************)
EXTENDS KeyQueue

CONSTANTS NULL,       \* nullptr
          ChannelId,  \* the values of channel_id; a node starts with 0
          Packet,     \* key datagrams: one sequence of times per channel
          Upload,     \* key messages over TCP: a sequence of times
          Garbage,    \* the keys parsed from bytes that never arrived
          Drift,      \* the corrections a master sends, modulo W
          W,          \* 2^32 in the code
          MaxLate,    \* the longest time between two frames
          MaxKeys     \* bound: keys a node holds at once

ASSUME FirmwareAssumption ==
  /\ NULL \notin Int
  /\ ChannelId \subseteq Nat /\ 0 \in ChannelId
  /\ Packet \subseteq Seq(Seq(Time))
  /\ Upload \subseteq Seq(Time)
  /\ Garbage \subseteq Seq(Time)
  /\ W \in Nat \ {0}
  /\ Drift \subseteq 0 .. W - 1
  /\ MaxLate \in Nat \ {0}

VARIABLES currentState, channel_id, k1, k2, timeDrift,
          clock,     \* millis() - startTime
          frameDue,  \* a frame period has passed since the last frame
          pending,   \* the keys of the current packet still to be read
  skipping,  \* generateFrame() is in its do-while loop
  moved      \* history: k1 and k2 are not the first keys of the animation

frameVars == <<frameDue, skipping, moved>>
vars == <<keys, currentState, channel_id, k1, k2, timeDrift, clock,
          frameVars, pending>>

States == {"IDLE", "RUNNING", "CYCLING", "RECEIVING_KEYFRAMES"}

Playing == currentState \in {"RUNNING", "CYCLING"}

Elapsed == (clock + timeDrift) % W

NoHandlerRuns == pending = << >> /\ ~skipping
------------------------------------------------------------------------------
Init ==
  /\ EmptyQueue
  /\ currentState = "IDLE"
  /\ channel_id = 0
  /\ k1 = NULL /\ k2 = NULL
  /\ timeDrift = 0 /\ clock = 0
  /\ frameDue = FALSE
  /\ pending = << >>
  /\ skipping = FALSE /\ moved = FALSE

(* startKeyframeAnimation().  How long ago the last frame was drawn is     *)
(* not known.                                                              *)
StartKeyframeAnimation ==
  /\ k1' = 1 /\ k2' = 2
  /\ timeDrift' = 0 /\ clock' = 0
  /\ frameDue' \in BOOLEAN
  /\ moved' = FALSE

(* playKeyframes() and cycleKeyframes().                                   *)
Play(state) ==
  /\ Len(keys) >= 2
  /\ currentState' = state
  /\ StartKeyframeAnimation
  /\ UNCHANGED <<keys, channel_id, pending, skipping>>

StopKeepingPointers ==
  /\ currentState' = "IDLE"
  /\ UNCHANGED <<keys, channel_id, k1, k2, timeDrift, clock, frameVars, pending>>

StopCurrentAnimation ==
  /\ k1' = NULL /\ k2' = NULL
  /\ currentState' = "IDLE"
  /\ UNCHANGED <<keys, channel_id, timeDrift, clock, frameVars, pending>>

EnterState(state) ==
  /\ currentState' = state
  /\ UNCHANGED <<keys, channel_id, k1, k2, timeDrift, clock, frameVars, pending>>

ClearAll ==
  /\ keys' = << >>
  /\ UNCHANGED <<currentState, channel_id, k1, k2, timeDrift, clock, frameVars,
                 pending>>

SetChannel(ch) ==
  /\ channel_id' = ch
  /\ UNCHANGED <<keys, currentState, k1, k2, timeDrift, clock, frameVars, pending>>

SetDrift(d) ==
  /\ timeDrift' = d
  /\ UNCHANGED <<keys, currentState, channel_id, k1, k2, clock, frameVars, pending>>

(* The head of parseAndAddKeyframes() and parseKeyframes_tcp(): from here  *)
(* on the keys are read one by one.                                        *)
Parse(batch) ==
  /\ Len(keys) + Len(batch) <= MaxKeys
  /\ pending' = batch
  /\ UNCHANGED <<keys, currentState, channel_id, k1, k2, timeDrift, clock,
                 frameVars>>

ParseKey ==
  /\ pending # << >>
  /\ Insert(Head(pending))
  /\ pending' = Tail(pending)
  /\ UNCHANGED <<currentState, channel_id, k1, k2, timeDrift, clock, frameVars>>
------------------------------------------------------------------------------
(* receiver(): a datagram of two bytes.  What is not listed is ignored or  *)
(* only answered.  A node that receives keyframes takes everything but     *)
(* "en" for a key packet, although the datagram is read empty by then.     *)
UdpCommand(cmd) ==
  /\ NoHandlerRuns
  /\ \/ currentState = "IDLE" /\ cmd = "in" /\ EnterState("RECEIVING_KEYFRAMES")
     \/ currentState = "IDLE" /\ cmd = "cl" /\ ClearAll
     \/ currentState = "IDLE" /\ cmd = "pl" /\ Play("RUNNING")
     \/ currentState = "IDLE" /\ cmd = "cy" /\ Play("CYCLING")
     \/ currentState = "RECEIVING_KEYFRAMES" /\ cmd = "en" /\ EnterState("IDLE")
     \/ /\ currentState = "RECEIVING_KEYFRAMES" /\ cmd # "en"
        /\ \E batch \in Garbage : Parse(batch)
     \/ Playing /\ cmd = "sp" /\ StopCurrentAnimation
     \/ Playing /\ cmd = "ud" /\ SetDrift((timeDrift + 1) % W)
     \/ Playing /\ cmd = "du" /\ SetDrift((timeDrift + W - 1) % W)

(* receiver(): the six bytes of a drift correction.                        *)
UdpSync(d) ==
  /\ NoHandlerRuns
  /\ \/ Playing /\ SetDrift(d)
     \/ /\ currentState = "RECEIVING_KEYFRAMES"
        /\ \E batch \in Garbage : Parse(batch)

(* receiver(): a key packet.  The node reads the list of its channel, or   *)
(* bytes that are no index at all when the packet has no such channel.     *)
UdpKeys(packet) ==
  /\ NoHandlerRuns
  /\ Playing \/ currentState = "RECEIVING_KEYFRAMES"
  /\ IF channel_id < Len(packet)
       THEN Parse(packet[channel_id + 1])
       ELSE \E batch \in Garbage : Parse(batch)

(* receiver_tcp(): up to four bytes.                                       *)
TcpCommand(cmd) ==
  /\ NoHandlerRuns
  /\ \/ currentState = "IDLE" /\ cmd = "in" /\ EnterState("RECEIVING_KEYFRAMES")
     \/ currentState = "IDLE" /\ cmd = "cl" /\ ClearAll
     \/ currentState = "RECEIVING_KEYFRAMES" /\ cmd = "en" /\ EnterState("IDLE")
     \/ /\ currentState = "RECEIVING_KEYFRAMES" /\ cmd # "en"
        /\ \E batch \in Garbage : Parse(batch)
     \/ Playing /\ cmd = "sp" /\ StopCurrentAnimation

TcpSetChannel(ch) ==
  /\ NoHandlerRuns
  /\ \/ currentState = "IDLE" /\ SetChannel(ch)
     \/ /\ currentState = "RECEIVING_KEYFRAMES"
        /\ \E batch \in Garbage : Parse(batch)

(* receiver_tcp(): more than four bytes.  Only RECEIVING_KEYFRAMES expects *)
(* them; the rest of a message that has not arrived yet is read as         *)
(* garbage.  Otherwise cmd is compared without having been written: it     *)
(* may look like any command.                                              *)
TcpKeys(upload) ==
  /\ NoHandlerRuns
  /\ \/ /\ currentState = "RECEIVING_KEYFRAMES"
        /\ \/ Parse(upload)
           \/ \E arrived \in 0 .. Len(upload), rest \in Garbage :
                Parse(SubSeq(upload, 1, arrived) \o rest)
     \/ currentState = "IDLE" /\ EnterState("RECEIVING_KEYFRAMES")
     \/ currentState = "IDLE" /\ ClearAll
     \/ currentState = "IDLE" /\ \E ch \in ChannelId : SetChannel(ch)
     \/ Playing /\ StopCurrentAnimation
------------------------------------------------------------------------------
(* A frame period, or several when the loop is late.                       *)
Tick ==
  /\ Playing /\ ~frameDue /\ ~skipping
  /\ \E late \in 1 .. MaxLate : clock' = (clock + late) % W
  /\ frameDue' = TRUE
  /\ UNCHANGED <<keys, currentState, channel_id, k1, k2, timeDrift, pending,
                 skipping, moved>>

FrameStarts ==
  /\ NoHandlerRuns
  /\ Playing /\ frameDue
  /\ frameDue' = FALSE

DrawFrameSettingStartTime ==
  /\ FrameStarts
  /\ Elapsed <= keys[k2]
  /\ clock' = 0
  /\ UNCHANGED <<keys, currentState, channel_id, k1, k2, timeDrift, pending,
                 skipping, moved>>

(* generateFrame(): elapsed has not passed k2, draw between k1 and k2.     *)
(* With first keys of equal times the interpolation divides by zero, which *)
(* ends in an exception: see Reboot.                                       *)
DrawFrame ==
  /\ FrameStarts
  /\ Elapsed <= keys[k2]
  /\ UNCHANGED <<keys, currentState, channel_id, k1, k2, timeDrift, clock,
                 pending, skipping, moved>>

(* removeFirst(), for an animation that is played only once.  The          *)
(* positions shift with it.                                                *)
FreeTwo == keys' = SubSeq(keys, 3, Len(keys))

FreeFirst == keys' = Tail(keys)

Shift == IF currentState = "RUNNING" THEN 1 ELSE 0

(* The body of the do-while loop of generateFrame().                       *)
PassKey ==
  /\ k1' = k2 - Shift
  /\ k2' = IF k2 < Len(keys) THEN k2 + 1 - Shift ELSE NULL
  /\ IF currentState = "RUNNING" THEN FreeFirst ELSE UNCHANGED keys
  /\ moved' = TRUE
  /\ UNCHANGED <<currentState, channel_id, timeDrift, clock, pending>>

(* generateFrame(): elapsed has passed k2, the loop is entered, ...        *)
NextKey ==
  /\ FrameStarts
  /\ Elapsed > keys[k2]
  /\ PassKey
  /\ skipping' = TRUE

K2IsNeverLate == FALSE

K2IsLate == k2 # NULL /\ keys[k2] < Elapsed

(* ... skips the keys that are late, ...                                   *)
SkipKey ==
  /\ skipping /\ K2IsLate
  /\ PassKey
  /\ UNCHANGED <<frameDue, skipping>>

(* ... and ends at a key to draw the frame before, ...                     *)
DrawNextFrame ==
  /\ skipping /\ k2 # NULL /\ ~K2IsLate
  /\ skipping' = FALSE
  /\ UNCHANGED <<keys, currentState, channel_id, k1, k2, timeDrift, clock,
                 frameDue, pending, moved>>

(* ... or at the end of the list: restartOrEndAnimation().  A cycle starts *)
(* again, a run has freed all keys but the last and ends.                  *)
EndOfKeys ==
  /\ skipping /\ k2 = NULL
  /\ skipping' = FALSE
  /\ \/ /\ currentState = "CYCLING"
        /\ k1' = 1 /\ k2' = 2
        /\ timeDrift' = 0 /\ clock' = 0
        /\ moved' = FALSE
        /\ UNCHANGED currentState
     \/ /\ currentState = "RUNNING"
        /\ k1' = NULL /\ k2' = NULL
        /\ currentState' = "IDLE"
        /\ UNCHANGED <<timeDrift, clock, moved>>
  /\ UNCHANGED <<keys, channel_id, frameDue, pending>>

GenerateFrame == DrawFrame \/ NextKey \/ SkipKey \/ DrawNextFrame \/ EndOfKeys

(* setup(): nothing survives a power cycle, not even the channel, which is *)
(* no longer read from the EEPROM.  An exception restarts a node too.      *)
Reboot ==
  /\ keys' = << >>
  /\ currentState' = "IDLE"
  /\ channel_id' = 0
  /\ k1' = NULL /\ k2' = NULL
  /\ timeDrift' = 0 /\ clock' = 0
  /\ frameDue' = FALSE
  /\ pending' = << >>
  /\ skipping' = FALSE /\ moved' = FALSE
------------------------------------------------------------------------------
Command == {"in", "en", "cl", "pl", "cy", "sp", "ud", "du", "dd"}

Next ==
  \/ \E cmd \in Command : UdpCommand(cmd)
  \/ \E d \in Drift : UdpSync(d)
  \/ \E packet \in Packet : UdpKeys(packet)
  \/ \E cmd \in {"in", "en", "cl", "sp"} : TcpCommand(cmd)
  \/ \E ch \in ChannelId : TcpSetChannel(ch)
  \/ \E upload \in Upload : TcpKeys(upload)
  \/ ParseKey
  \/ Tick
  \/ GenerateFrame
  \/ Reboot

Spec == Init /\ [][Next]_vars

(* loop() comes round for ever, its loops end, and time passes.            *)
FairSpec ==
  Spec /\ WF_vars(ParseKey) /\ WF_vars(Tick) /\ WF_vars(GenerateFrame)
------------------------------------------------------------------------------
TypeOK ==
  /\ keys \in Seq(Time)
  /\ currentState \in States
  /\ channel_id \in ChannelId
  /\ k1 \in (Nat \ {0}) \cup {NULL}
  /\ k2 \in (Nat \ {0}) \cup {NULL}
  /\ timeDrift \in 0 .. W - 1
  /\ clock \in 0 .. W - 1
  /\ frameDue \in BOOLEAN
  /\ pending \in Seq(Time)
  /\ skipping \in BOOLEAN /\ moved \in BOOLEAN

(* While a node plays, k1 and k2 are two neighbours on the list, and in a  *)
(* run k1 is its first key, so that the removeFirst() that goes with a     *)
(* step of k2 never frees a key k1 or k2 points to.  Only a frame that has *)
(* come to the end of the list has no k2, and a cycle can start again from *)
(* there.  Otherwise both are null: clearAll() cannot leave them dangling. *)
PlayheadOnTheList ==
  /\ ~Playing => k1 = NULL /\ k2 = NULL
  /\ Playing => /\ k1 \in 1 .. Len(keys)
                /\ k2 = IF k1 < Len(keys) THEN k1 + 1 ELSE NULL
                /\ k2 = NULL => skipping
  /\ currentState = "RUNNING" => k1 = 1
  /\ currentState = "CYCLING" => Len(keys) >= 2

(* The list takes keys of equal times, and linearInterpool() divides by    *)
(* the difference.  Past the first two keys of an animation no frame is    *)
(* drawn between two of equal times: the loop that skips late keys leaves  *)
(* them behind, and what arrives, is freed or corrected afterwards does    *)
(* not bring them back.  Nothing keeps the first two keys apart.           *)
DrawnKeysDifferOnceMoved ==
  Playing /\ moved /\ ~skipping => keys[k1] < keys[k2]

(* A frame frees a key only in a run, one at a time and from the front,    *)
(* and only when the key after it has passed too, the one k2 pointed to.   *)
OnlyPassedKeysAreFreed ==
  [][GenerateFrame /\ keys' # keys =>
       /\ currentState = "RUNNING"
       /\ keys' = Tail(keys)
       /\ Len(keys) >= 2 /\ keys[2] < Elapsed]_vars

Disturbance ==
  \/ timeDrift' # timeDrift
  \/ pending' # << >>

(* Once no more keys and no more corrections arrive, a run comes to its    *)
(* end, whatever the clock has been set to.                                *)
EveryRunEnds ==
  []<><<Disturbance>>_vars \/ (currentState = "RUNNING" ~> ~Playing)
==============================================================================
