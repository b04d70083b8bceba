------------------------------ MODULE Streaming ------------------------------
(***************************************************************************)
(* The streaming of a SINGLE animation against time: the play thread of    *)
(* AnimationController::internal_start() sends the keys after the upload   *)
(* in pages, one datagram each, while the nodes play those they have.  A   *)
(* page is sent early by half of the time that the upload lasts.  What     *)
(* eats that reserve are the 200 ms and the four requests of correctDrift()*)
(* before the loop, sleeps that last too long, delays of the network and a *)
(* node whose clock is ahead; a node that has run out of keys is done and  *)
(* ignores the rest.  Datagrams may be lost or overtake each other.        *)
(*                                                                         *)
(* One node per channel.  Time is counted from startTime, all clocks run   *)
(* at one rate, and a node draws a frame in every unit of time.  How an    *)
(* animation is stopped, replaced and finished with its song is in         *)
(* Playback, what else a node does in Firmware, and how correctDrift()     *)
(* finds its correction in Drift.                                          *)
(***************************************************************************)
EXTENDS Integers, Sequences, SequencesExt

CONSTANTS Channel,
          Animation,       \* the animations that are played
          N_KEYS_ON_INIT,  \* keys of the upload, per channel
          KeysPerPage,     \* and of a page: MAX_KEYS_ON_UPDATE / channels
          KEYTIME_MAX, SIZE_MAX, Garbage,
          MaxDelay,        \* bounds: how long a datagram takes, ...
          MaxError,        \* ... how wrong a measured offset is, ...
          MaxLag,          \* ... how long in all the thread is held up, ...
          MaxLost          \* ... and how many datagrams are lost

ASSUME StreamingAssumption ==
  /\ N_KEYS_ON_INIT \in 1 .. SIZE_MAX /\ KeysPerPage \in 1 .. SIZE_MAX
  /\ MaxDelay \in Nat /\ MaxError \in Nat /\ MaxLag \in Nat /\ MaxLost \in Nat
  /\ KEYTIME_MAX \in Nat \ {0} /\ SIZE_MAX \in Nat
  /\ Animation \subseteq [Channel -> Seq(0 .. KEYTIME_MAX - 1)]
  /\ \A a \in Animation : \A ch \in Channel :
       /\ \A i, j \in 1 .. Len(a[ch]) : i < j => a[ch][i] <= a[ch][j]
       /\ Len(a[ch]) < SIZE_MAX

(* What the exporters and the built-in animations keep to besides: no two  *)
(* keys of a channel are at the same time.                                 *)
KeysApart ==
  \A a \in Animation : \A ch \in Channel :
    \A i, j \in 1 .. Len(a[ch]) : i < j => a[ch][i] < a[ch][j]

VARIABLES
  data, keyframePositions, started, sent,  \* BaseAnimation
  thread,     \* where internal_start() is
  playing_,
  firstTime, lastKeyout,
  page,       \* the list it sends after its sleep, ...
  wake,       \* ... which should end at this time
  now,        \* time since startTime
  air,        \* the datagrams on their way to each node, oldest first
  running,    \* whether the node of each channel is in the state RUNNING
  keys,       \* its list; while it plays the first is k1, the second k2
  ahead,      \* its elapsed time - now
  shown,      \* history: the keys that each node has come to,
  lag,        \* time during which the thread did neither sleep nor send,
  reserve,    \* the time by which pages are sent early,
  lost,       \* datagrams lost,
  overtaken,  \* whether a page came before an earlier one,
  stopped     \* whether a stop command was given

animVars == <<data, keyframePositions, started, sent>>
threadVars == <<thread, playing_, firstTime, lastKeyout, page, wake>>
nodeVars == <<running, keys, ahead, shown>>
faultVars == <<lag, reserve, lost, overtaken, stopped>>
vars == <<animVars, threadVars, now, air, nodeVars, faultVars>>

Anim == INSTANCE BaseAnimation WITH PageSize <- {N_KEYS_ON_INIT, KeysPerPage}

Init ==
  /\ Anim!Init
  /\ thread = "upload" /\ playing_ = FALSE
  /\ firstTime = TRUE /\ lastKeyout = 0
  /\ page = [ch \in Channel |-> << >>] /\ wake = 0
  /\ now = 0
  /\ air = [ch \in Channel |-> << >>]
  /\ running = [ch \in Channel |-> FALSE]
  /\ keys = [ch \in Channel |-> << >>]
  /\ ahead = [ch \in Channel |-> 0]
  /\ shown = [ch \in Channel |-> << >>]
  /\ lag = 0 /\ reserve = 0 /\ lost = 0
  /\ overtaken = FALSE /\ stopped = FALSE

(* A datagram for all nodes.                                               *)
Broadcast(content) ==
  air' = [ch \in Channel |->
            Append(air[ch], [sentAt |-> now, content |-> content[ch]])]

ToAll(content) == [ch \in Channel |-> content]
------------------------------------------------------------------------------
(* sendInitialKeys(): see Delivery.                                        *)
Upload ==
  /\ thread = "upload"
  /\ Anim!GetNKeys(N_KEYS_ON_INIT)
  /\ keys' = [ch \in Channel |-> Anim!PageOf(ch, N_KEYS_ON_INIT)]
  /\ thread' = "play" /\ playing_' = TRUE
  /\ UNCHANGED <<firstTime, lastKeyout, page, wake, now, air, running, ahead,
                 shown, faultVars>>

BroadcastPlay ==
  /\ thread = "play"
  /\ Broadcast(ToAll([kind |-> "pl"]))
  /\ thread' = "syncing"
  /\ UNCHANGED <<animVars, playing_, firstTime, lastKeyout, page, wake, now,
                 nodeVars, faultVars>>

CorrectDriftWithoutTimeout ==
  /\ thread = "syncing"
  /\ LET first == CHOOSE ch \in Channel : TRUE
     IN  /\ running[first]
         /\ Broadcast(ToAll([kind |-> "ss", timeDrift |-> -ahead[first]]))
  /\ thread' = "loop"
  /\ UNCHANGED <<animVars, playing_, firstTime, lastKeyout, page, wake, now,
                 nodeVars, faultVars>>

(* correctDrift(): the offset of the first node, as it was measured, is    *)
(* the correction of all.  Without an answer, or when it is small, none is *)
(* sent.                                                                   *)
CorrectDrift ==
  /\ thread = "syncing"
  /\ \/ UNCHANGED air
     \/ \E first \in Channel, error \in -MaxError .. MaxError :
          /\ running[first]
          /\ ahead[first] + error # 0
          /\ Broadcast(ToAll([kind |-> "ss",
                              timeDrift |-> -(ahead[first] + error)]))
  /\ thread' = "loop"
  /\ UNCHANGED <<animVars, playing_, firstTime, lastKeyout, page, wake, now,
                 nodeVars, faultVars>>

(* The condition of the loop.                                              *)
More == playing_ /\ Anim!FirstKeyout # KEYTIME_MAX

WholeSleep(keyout) == keyout - lastKeyout

(* Half of the first sleep is the reserve of all pages that follow.        *)
MsToSleep(keyout) ==
  IF firstTime THEN (keyout - lastKeyout) \div 2 ELSE keyout - lastKeyout

Loop ==
  /\ thread = "loop" /\ More
  /\ LET keyout == Anim!FirstKeyout
     IN  /\ wake' = now + MsToSleep(keyout)
         /\ lastKeyout' = keyout
         /\ reserve' = IF firstTime THEN (keyout + 1) \div 2 ELSE reserve
  /\ page' = [ch \in Channel |-> Anim!PageOf(ch, KeysPerPage)]
  /\ Anim!GetNKeys(KeysPerPage)
  /\ firstTime' = FALSE
  /\ thread' = "sleeping"
  /\ UNCHANGED <<playing_, now, air, nodeVars, lag, lost, overtaken, stopped>>

SendKeys ==
  /\ thread = "sleeping" /\ now >= wake
  /\ Broadcast([ch \in Channel |-> [kind |-> "keys", keys |-> page[ch]]])
  /\ thread' = "loop"
  /\ UNCHANGED <<animVars, playing_, firstTime, lastKeyout, page, wake, now,
                 nodeVars, faultVars>>

EndLoop ==
  /\ thread = "loop" /\ ~More
  /\ thread' = "done" /\ playing_' = FALSE
  /\ UNCHANGED <<animVars, firstTime, lastKeyout, page, wake, now, air,
                 nodeVars, faultVars>>

PlayThread ==
  Upload \/ BroadcastPlay \/ CorrectDrift \/ Loop \/ SendKeys \/ EndLoop

(* AnimationController::stop(), by the worker.                             *)
Stop ==
  /\ playing_ /\ thread \notin {"upload", "play"} /\ ~stopped
  /\ Broadcast(ToAll([kind |-> "sp"]))
  /\ playing_' = FALSE /\ stopped' = TRUE
  /\ UNCHANGED <<animVars, thread, firstTime, lastKeyout, page, wake, now,
                 nodeVars, lag, reserve, lost, overtaken>>
------------------------------------------------------------------------------
(* insertKeyframe(): see KeyQueue.                                         *)
InsertAny(list, t) == Append(list, t)

Insert(list, t) ==
  IF list = << >> \/ Last(list) <= t THEN Append(list, t) ELSE list

InsertAll(list, new) ==
  LET inserted[n \in 0 .. Len(new)] ==
        IF n = 0 THEN list ELSE Insert(inserted[n - 1], new[n])
  IN  inserted[Len(new)]

(* receiver() in the firmware.                                             *)
Receive(ch, content) ==
  CASE content.kind = "pl" /\ ~running[ch] /\ Len(keys[ch]) >= 2 ->
         /\ running' = [running EXCEPT ![ch] = TRUE]
         /\ ahead' = [ahead EXCEPT ![ch] = -now]
         /\ shown' = [shown EXCEPT ![ch] = <<Head(keys[ch])>>]
         /\ UNCHANGED keys
    [] content.kind = "sp" /\ running[ch] ->
         /\ running' = [running EXCEPT ![ch] = FALSE]
         /\ UNCHANGED <<keys, ahead, shown>>
    [] content.kind = "ss" /\ running[ch] ->
         /\ ahead' = [ahead EXCEPT ![ch] = @ + content.timeDrift]
         /\ UNCHANGED <<running, keys, shown>>
    [] content.kind = "keys" /\ running[ch] ->
         /\ keys' = [keys EXCEPT ![ch] = InsertAll(@, content.keys)]
         /\ UNCHANGED <<running, ahead, shown>>
    [] OTHER -> UNCHANGED nodeVars

(* A datagram that is not the oldest overtakes those that are older.       *)
Arrive(ch) ==
  \E i \in 1 .. Len(air[ch]) :
    /\ Receive(ch, air[ch][i].content)
    /\ air' = [air EXCEPT ![ch] = RemoveAt(@, i)]
    /\ overtaken' = (overtaken \/ i > 1)
    /\ UNCHANGED <<animVars, threadVars, now, lag, reserve, lost, stopped>>

Lose(ch) ==
  /\ lost < MaxLost
  /\ \E i \in 1 .. Len(air[ch]) : air' = [air EXCEPT ![ch] = RemoveAt(@, i)]
  /\ lost' = lost + 1
  /\ UNCHANGED <<animVars, threadVars, now, nodeVars, lag, reserve, overtaken,
                 stopped>>

(* generateFrame(): how many keys a node passes in a frame of this time.   *)
(* It goes on until k2, the second of the list, is not over or is null;    *)
(* the last key passed stays as the first.  With k2 null the animation has *)
(* ended.                                                                  *)
Passed(list, elapsed) ==
  CHOOSE n \in 0 .. Len(list) - 1 :
    /\ \A i \in 1 .. n : list[i + 1] < elapsed
    /\ n + 1 < Len(list) => list[n + 2] >= elapsed

Frame(time) ==
  LET passed == [ch \in Channel |->
                   IF running[ch] THEN Passed(keys[ch], time + ahead[ch]) ELSE 0]
  IN  /\ keys' = [ch \in Channel |->
                    SubSeq(keys[ch], passed[ch] + 1, Len(keys[ch]))]
      /\ shown' = [ch \in Channel |->
                     shown[ch] \o SubSeq(keys[ch], 2, passed[ch] + 1)]
      /\ running' = [ch \in Channel |-> running[ch] /\ Len(keys'[ch]) > 1]
      /\ UNCHANGED ahead

(* A unit of time.  No datagram is under way for longer than MaxDelay, and *)
(* the thread is late for no more than MaxLag in all.                      *)
Tick ==
  /\ thread \notin {"upload", "play"}
  /\ thread # "done" \/ \E ch \in Channel : running[ch] \/ air[ch] # << >>
  /\ \A ch \in Channel : \A i \in 1 .. Len(air[ch]) :
       now < air[ch][i].sentAt + MaxDelay
  /\ IF thread = "done" \/ (thread = "sleeping" /\ now < wake)
       THEN UNCHANGED lag
       ELSE lag < MaxLag /\ lag' = lag + 1
  /\ now' = now + 1
  /\ Frame(now')
  /\ UNCHANGED <<animVars, threadVars, air, reserve, lost, overtaken, stopped>>

Next ==
  \/ PlayThread \/ Stop \/ Tick
  \/ \E ch \in Channel : Arrive(ch) \/ Lose(ch)

(* The thread runs, time passes, and what is not lost arrives.             *)
Spec ==
  /\ Init /\ [][Next]_vars
  /\ WF_vars(PlayThread) /\ WF_vars(Tick)
  /\ \A ch \in Channel : WF_vars(Arrive(ch))
------------------------------------------------------------------------------
(* As long as no datagram of a show was lost or overtook another, nobody   *)
(* stopped it, and what held up the thread, the longest delay and the lead *)
(* of a node's clock do not exceed the reserve together, the node comes to *)
(* every key of its channel and skips none: pages reach it before it runs  *)
(* out of keys, however the channels' keys lie in time.                    *)
ShowIsComplete ==
  \A ch \in Channel :
    /\ lost = 0 /\ ~overtaken /\ ~stopped
    /\ lag + MaxDelay + ahead[ch] <= reserve
    => /\ IsPrefix(shown[ch], data[ch])
       /\ shown[ch] # << >> /\ ~running[ch] => shown[ch] = data[ch]

(* Whatever is lost, late or in the wrong order, a node comes to keys of   *)
(* its channel in their order and never to one again.                      *)
LossLeavesGapsOnly ==
  \A ch \in Channel :
    /\ Range(shown[ch]) \subseteq Range(data[ch])
    /\ \A i \in 1 .. Len(shown[ch]) - 1 : shown[ch][i] < shown[ch][i + 1]

(* However a show goes, the thread ends and every node becomes idle and is *)
(* ready for the next: also if a stop does not reach it, or its pages.     *)
ShowEnds == <>[](thread = "done" /\ \A ch \in Channel : ~running[ch])
=============================================================================
