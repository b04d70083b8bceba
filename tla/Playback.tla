------------------------------ MODULE Playback ------------------------------
(***************************************************************************)
(* AnimationController.cpp with Commands.cpp: how an animation is started, *)
(* streamed, stopped and replaced.  Three kinds of threads take part:      *)
(*   - the worker, which runs the commands of the one open connection, one *)
(*     after the other;                                                    *)
(*   - the play thread of a controller, internal_start();                  *)
(*   - its audio thread, here one that sounds and ends (see Player2).      *)
(* A controller is made by each play command that is not refused; they are *)
(* numbered.  appContext.anim_controller holds the last one; putting the   *)
(* next one there destroys the one before, whose destructor joins its      *)
(* threads.                                                                *)
(*                                                                         *)
(* The nodes are here one node with a perfect network: it takes commands   *)
(* at once and loses nothing (see Firmware for a node).  What a command    *)
(* does to it depends on its state, as in the firmware.                    *)
(***************************************************************************)
EXTENDS Naturals, FiniteSets

CONSTANTS MaxPlays,    \* bound: play commands that are not refused
          MaxUpdates   \* bound: updates an animation needs after its upload

ASSUME PlaybackAssumption == MaxPlays \in Nat /\ MaxUpdates \in Nat

Ctrl == 1 .. MaxPlays
NoCtrl == 0

VARIABLES
  worker,    \* what the worker does
  current,   \* appContext.anim_controller
  old,       \* the controller that is being destroyed
  made,      \* controllers made so far
  anim,      \* type of each controller's animation, "NONE" without one
  audio,     \* whether it has a player
  playing_,  \* AnimationController::playing_
  play,      \* where internal_start() is, in each controller's play thread
  song,      \* its audio thread
  updates,   \* pages of its animation still to be sent
  nodes,     \* the state of the nodes
  loaded,    \* the controllers whose keys they hold
  late,      \* history: updates a controller sent while not playing_
  lastStop,  \* history: whether a stop since the last play found them playing
  hasty      \* history: the last play command came before all was quiet

workerVars == <<worker, current, old, made, anim, audio>>
nodeVars == <<nodes, loaded>>
historyVars == <<late, lastStop, hasty>>
vars == <<workerVars, playing_, play, song, updates, nodeVars,
          historyVars>>

NodesPlay == nodes \in {"RUNNING", "CYCLING"}

ThreadAlive(c) == play[c] \notin {"none", "done"}

Quiet ==
  /\ nodes = "IDLE"
  /\ \A c \in Ctrl : ~ThreadAlive(c)

Init ==
  /\ worker = "idle" /\ current = NoCtrl /\ old = NoCtrl /\ made = 0
  /\ anim = [c \in Ctrl |-> "NONE"]
  /\ audio = [c \in Ctrl |-> FALSE]
  /\ playing_ = [c \in Ctrl |-> FALSE]
  /\ play = [c \in Ctrl |-> "none"]
  /\ song = [c \in Ctrl |-> "none"]
  /\ updates = [c \in Ctrl |-> 0]
  /\ nodes = "IDLE" /\ loaded = {}
  /\ late = [c \in Ctrl |-> 0] /\ lastStop = "none" /\ hasty = FALSE
------------------------------------------------------------------------------
(* Commands::playAnimation() ignores the command while isPlaying().        *)
PlayCommand ==
  /\ worker = "idle" /\ made < MaxPlays
  /\ current # NoCtrl => ~playing_[current]
  /\ worker' = "constructing"
  /\ lastStop' = "none"
  /\ hasty' = ~Quiet
  /\ UNCHANGED <<current, old, made, anim, audio, playing_, play, song,
                 updates, nodeVars, late>>

(* AnimationController::AnimationController(): reads the file, which may   *)
(* define an animation, a song, both or neither.                           *)
Construct ==
  /\ worker = "constructing"
  /\ made' = made + 1
  /\ \E type \in {"SINGLE", "CYCLE", "NONE"}, has \in BOOLEAN,
        n \in 0 .. MaxUpdates :
       /\ type # "SINGLE" => n = 0
       /\ anim' = [anim EXCEPT ![made'] = type]
       /\ audio' = [audio EXCEPT ![made'] = has]
       /\ updates' = [updates EXCEPT ![made'] = n]
  /\ worker' = "assigning"
  /\ UNCHANGED <<current, old, playing_, play, song, nodeVars,
                 historyVars>>

AssignWithoutJoin ==
  /\ worker = "assigning"
  /\ current' = made
  /\ worker' = "starting"
  /\ UNCHANGED <<old, made, anim, audio, playing_, play, song, updates,
                 nodeVars, historyVars>>

(* The assignment in playAnimation() destroys the previous controller.     *)
Assign ==
  /\ worker = "assigning"
  /\ old' = current /\ current' = made
  /\ worker' = IF current = NoCtrl THEN "starting" ELSE "joining"
  /\ UNCHANGED <<made, anim, audio, playing_, play, song, updates,
                 nodeVars, historyVars>>

(* ~AnimationController(), then ~Player2().                                *)
JoinPlayThread ==
  /\ worker = "joining" /\ ~ThreadAlive(old)
  /\ worker' = "joiningSong"
  /\ UNCHANGED <<current, old, made, anim, audio, playing_, play, song,
                 updates, nodeVars, historyVars>>

(* The controller is gone with all that it knew.                           *)
Destroy ==
  /\ anim' = [anim EXCEPT ![old] = "NONE"]
  /\ audio' = [audio EXCEPT ![old] = FALSE]
  /\ playing_' = [playing_ EXCEPT ![old] = FALSE]
  /\ play' = [play EXCEPT ![old] = "none"]
  /\ updates' = [updates EXCEPT ![old] = 0]
  /\ late' = [late EXCEPT ![old] = 0]
  /\ old' = NoCtrl
  /\ worker' = "starting"
  /\ UNCHANGED <<current, made, nodeVars, lastStop, hasty>>

DestroyPlayerUnjoined ==
  /\ worker = "joiningSong"
  /\ Destroy
  /\ UNCHANGED song

DestroyPlayer ==
  /\ worker = "joiningSong" /\ song[old] # "sounding"
  /\ Destroy
  /\ song' = [song EXCEPT ![old] = "none"]

(* AnimationController::start(): a play thread, or a song, or nothing.     *)
Start ==
  /\ worker = "starting"
  /\ \/ /\ anim[current] # "NONE"
        /\ play' = [play EXCEPT ![current] = "clear"]
        /\ UNCHANGED <<playing_, song>>
     \/ /\ anim[current] = "NONE" /\ audio[current]
        /\ song' = [song EXCEPT ![current] = "sounding"]
        /\ playing_' = [playing_ EXCEPT ![current] = TRUE]
        /\ UNCHANGED play
     \/ /\ anim[current] = "NONE" /\ ~audio[current]
        /\ UNCHANGED <<playing_, play, song>>
  /\ worker' = "idle"
  /\ UNCHANGED <<current, old, made, anim, audio, updates, nodeVars,
                 historyVars>>

(* AnimationController::stop(): the player, ...                            *)
StopCommand ==
  /\ worker = "idle" /\ current # NoCtrl
  /\ worker' = "stoppingNodes"
  /\ UNCHANGED <<current, old, made, anim, audio, playing_, play, song,
                 updates, nodeVars, historyVars>>

(* ... the nodes, which take "sp" only while they play, ...                *)
StopNodes ==
  /\ worker = "stoppingNodes"
  /\ nodes' = IF NodesPlay THEN "IDLE" ELSE nodes
  /\ lastStop' = IF NodesPlay \/ lastStop = "hit" THEN "hit" ELSE "missed"
  /\ worker' = "stoppingPlay"
  /\ UNCHANGED <<current, old, made, anim, audio, playing_, play, song,
                 updates, loaded, late, hasty>>

(* ... and the play thread.                                                *)
StopPlaying ==
  /\ worker = "stoppingPlay"
  /\ playing_' = [playing_ EXCEPT ![current] = FALSE]
  /\ worker' = "idle"
  /\ UNCHANGED <<current, old, made, anim, audio, play, song, updates,
                 nodeVars, historyVars>>

Worker ==
  \/ PlayCommand \/ Construct \/ Assign \/ JoinPlayThread \/ DestroyPlayer
  \/ Start \/ StopCommand \/ StopNodes \/ StopPlaying
------------------------------------------------------------------------------
(* internal_start(), from place to place.                                  *)
Step(c, from, to) ==
  /\ play[c] = from
  /\ play' = [play EXCEPT ![c] = to]
  /\ UNCHANGED workerVars

ClearNothing(c) ==
  /\ Step(c, "clear", "upload")
  /\ UNCHANGED <<playing_, song, updates, nodeVars, historyVars>>

(* nodeController_->clear(): only idle nodes clear their keys.             *)
Clear(c) ==
  /\ Step(c, "clear", "upload")
  /\ loaded' = IF nodes = "IDLE" THEN {} ELSE loaded
  /\ UNCHANGED <<playing_, song, updates, nodes, historyVars>>

(* sendInitialKeys(): "in", the keys, "en".  Nodes that play ignore it.    *)
UploadBegins(c) ==
  /\ Step(c, "upload", "uploading")
  /\ nodes' = IF nodes = "IDLE" THEN "RECEIVING_KEYFRAMES" ELSE nodes
  /\ UNCHANGED <<playing_, song, updates, loaded, historyVars>>

UploadEnds(c) ==
  /\ Step(c, "uploading", IF anim[c] = "SINGLE" THEN "uploaded" ELSE "cycle")
  /\ IF nodes = "RECEIVING_KEYFRAMES"
       THEN nodes' = "IDLE" /\ loaded' = loaded \cup {c}
       ELSE UNCHANGED nodeVars
  /\ UNCHANGED <<playing_, song, updates, historyVars>>

SetPlaying(c) ==
  /\ Step(c, "uploaded", "song")
  /\ playing_' = [playing_ EXCEPT ![c] = TRUE]
  /\ UNCHANGED <<song, updates, nodeVars, historyVars>>

StartSong(c) ==
  /\ Step(c, "song", "play")
  /\ song' = IF audio[c] THEN [song EXCEPT ![c] = "sounding"] ELSE song
  /\ UNCHANGED <<playing_, updates, nodeVars, historyVars>>

(* play() and cycle() broadcast: idle nodes that hold keys begin.          *)
Begin(state) ==
  nodes' = IF nodes = "IDLE" /\ loaded # {} THEN state ELSE nodes

BroadcastPlay(c) ==
  /\ Step(c, "play", "loop")
  /\ Begin("RUNNING")
  /\ UNCHANGED <<playing_, song, updates, loaded, historyVars>>

LoopBlindly(c) ==
  /\ Step(c, "loop", IF updates[c] > 0 THEN "sleeping" ELSE "wait")
  /\ UNCHANGED <<playing_, song, updates, nodeVars, historyVars>>

(* The condition of the loop; the page is taken before the sleep.          *)
Loop(c) ==
  /\ Step(c, "loop",
          IF playing_[c] /\ updates[c] > 0 THEN "sleeping" ELSE "wait")
  /\ UNCHANGED <<playing_, song, updates, nodeVars, historyVars>>

(* usleep() is over: sendKeys().  Nodes that do not play ignore the keys.  *)
SendKeys(c) ==
  /\ Step(c, "sleeping", "loop")
  /\ updates' = [updates EXCEPT ![c] = @ - 1]
  /\ loaded' = IF NodesPlay THEN loaded \cup {c} ELSE loaded
  /\ late' = IF playing_[c] THEN late ELSE [late EXCEPT ![c] = @ + 1]
  /\ UNCHANGED <<playing_, song, nodes, lastStop, hasty>>

WaitForFinish(c) ==
  /\ Step(c, "wait", "finish")
  /\ song[c] # "sounding"
  /\ UNCHANGED <<playing_, song, updates, nodeVars, historyVars>>

Finish(c) ==
  /\ Step(c, "finish", "done")
  /\ playing_' = [playing_ EXCEPT ![c] = FALSE]
  /\ UNCHANGED <<song, updates, nodeVars, historyVars>>

BroadcastCycle(c) ==
  /\ Step(c, "cycle", "cycling")
  /\ Begin("CYCLING")
  /\ UNCHANGED <<playing_, song, updates, loaded, historyVars>>

CycleWaits(c) ==
  /\ Step(c, "cycling", "cycling")
  /\ playing_' = [playing_ EXCEPT ![c] = TRUE]
  /\ UNCHANGED <<song, updates, nodeVars, historyVars>>

CycleAgain(c) ==
  /\ Step(c, "cycling", "cycle")
  /\ playing_' = [playing_ EXCEPT ![c] = TRUE]
  /\ UNCHANGED <<song, updates, nodeVars, historyVars>>

CycleIsPlaying(c) ==
  /\ Step(c, "cycling", "done")
  /\ playing_' = [playing_ EXCEPT ![c] = TRUE]
  /\ UNCHANGED <<song, updates, nodeVars, historyVars>>

PlayThread(c) ==
  \/ Clear(c) \/ UploadBegins(c) \/ UploadEnds(c)
  \/ SetPlaying(c) \/ StartSong(c) \/ BroadcastPlay(c)
  \/ Loop(c) \/ SendKeys(c) \/ WaitForFinish(c) \/ Finish(c)
  \/ BroadcastCycle(c) \/ CycleIsPlaying(c)
------------------------------------------------------------------------------
(* The song is over, or it was stopped: Player2::stop_ is in Player2.       *)
SongEnds(c) ==
  /\ song[c] = "sounding"
  /\ song' = [song EXCEPT ![c] = "over"]
  /\ UNCHANGED <<workerVars, playing_, play, updates, nodeVars,
                 historyVars>>

(* The nodes have played the last key they were sent.  They do not run out *)
(* of keys while their controller streams.                                 *)
NodesRunOut ==
  /\ nodes = "RUNNING"
  /\ \A c \in loaded : play[c] \in {"loop", "sleeping"} => updates[c] = 0
  /\ nodes' = "IDLE"
  /\ UNCHANGED <<workerVars, playing_, play, song, updates, loaded,
                 historyVars>>

Next ==
  \/ Worker
  \/ \E c \in Ctrl : PlayThread(c) \/ SongEnds(c)
  \/ NodesRunOut

Spec == Init /\ [][Next]_vars

(* Threads run, sleeps and network calls end, songs and keys come to an    *)
(* end.  Nobody has to give a command, but one that was given is run.      *)
FairSpec ==
  /\ Spec
  /\ WF_vars(worker # "idle" /\ Worker)
  /\ \A c \in Ctrl : WF_vars(PlayThread(c)) /\ WF_vars(SongEnds(c))
  /\ WF_vars(NodesRunOut)
------------------------------------------------------------------------------
Places == {"none", "clear", "upload", "uploading", "uploaded", "song", "play",
           "loop", "sleeping", "wait", "finish", "cycle", "cycling", "done"}

TypeOK ==
  /\ worker \in {"idle", "constructing", "assigning", "joining", "joiningSong",
                 "starting", "stoppingNodes", "stoppingPlay"}
  /\ current \in Ctrl \cup {NoCtrl} /\ old \in Ctrl \cup {NoCtrl}
  /\ made \in 0 .. MaxPlays
  /\ anim \in [Ctrl -> {"SINGLE", "CYCLE", "NONE"}]
  /\ audio \in [Ctrl -> BOOLEAN]
  /\ playing_ \in [Ctrl -> BOOLEAN]
  /\ play \in [Ctrl -> Places]
  /\ song \in [Ctrl -> {"none", "sounding", "over"}]
  /\ updates \in [Ctrl -> 0 .. MaxUpdates]
  /\ nodes \in {"IDLE", "RECEIVING_KEYFRAMES", "RUNNING", "CYCLING"}
  /\ loaded \in SUBSET Ctrl
  /\ late \in [Ctrl -> Nat]
  /\ lastStop \in {"none", "hit", "missed"}
  /\ hasty \in BOOLEAN

(* However a play command races with the play thread before it, two play   *)
(* threads are never alive at once: the new one starts when the old one    *)
(* has been joined.  So uploads and updates of two animations never mix.   *)
OnePlayThread ==
  \A c, d \in Ctrl : ThreadAlive(c) /\ ThreadAlive(d) => c = d

(* Nor are two songs heard at once.                                        *)
OneSong ==
  \A c, d \in Ctrl : song[c] = "sounding" /\ song[d] = "sounding" => c = d

(* A controller that is no longer playing_ sends at most the one update    *)
(* that its thread was already sleeping on.                                *)
OneLateUpdate == \A c \in Ctrl : late[c] <= 1

(* The worker is never stuck: the threads it joins end, even when nobody   *)
(* can stop them because the worker itself waits for them.                 *)
EveryCommandEnds == worker # "idle" ~> worker = "idle"

(* When the last play command came after all was quiet, the nodes play the *)
(* keys of the current animation and no key that one before it has left    *)
(* with them.  A command may come too early, since playing_ is FALSE once  *)
(* the last page was sent; what that spoils is made good by the next play. *)
NodesPlayTheCurrentAnimation == ~hasty /\ NodesPlay => loaded = {current}

(* Then also a stop that finds the nodes playing is final: the play thread *)
(* that is still running does not set them going again.                    *)
StopIsFinal == ~hasty /\ lastStop = "hit" => ~NodesPlay

(* Commands.cpp, "Stoping animation...": once the command has run, the     *)
(* nodes do not play before the next play command.                         *)
StopStops == lastStop # "none" /\ worker = "idle" => ~NodesPlay
=============================================================================
