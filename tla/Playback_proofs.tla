--------------------------- MODULE Playback_proofs ---------------------------
(***************************************************************************)
(* However many plays, updates and stops there are, and whenever they come,*)
(* at most one play thread and one song are alive.  The invariant says     *)
(* whose they are: the current controller's while the worker is free, the  *)
(* old one's while it is being destroyed, nobody's when the new one        *)
(* starts.                                                                 *)
(*                                                                         *)
(* On top of it: LateInv (what a controller sends after it was stopped)    *)
(* and QuietInv (how far a play has come that nothing raced with, and what *)
(* the nodes do and hold by then).                                         *)
(***************************************************************************)
EXTENDS Playback, TLAPS

Sounding(c) == song[c] = "sounding"

(* The one controller that may have threads.                               *)
Alone(c) ==
  /\ worker \in {"idle", "constructing", "assigning", "stoppingNodes",
                 "stoppingPlay"} => c = current
  /\ worker \in {"joining", "joiningSong"} => c = old
  /\ worker # "starting"

OnlyOne ==
  /\ \A c \in Ctrl : ThreadAlive(c) => Alone(c) /\ worker # "joiningSong"
  /\ \A c \in Ctrl : Sounding(c) => Alone(c)

(* What the types of the counters and indexes rest on.                     *)
InRange ==
  /\ current <= made /\ old <= made
  /\ worker = "constructing" => made < MaxPlays
  /\ worker = "assigning" => made \in Ctrl
  /\ worker \in {"joining", "joiningSong", "starting"} => current \in Ctrl
  /\ \A c \in Ctrl : play[c] = "sleeping" => updates[c] > 0

Inv == TypeOK /\ InRange /\ OnlyOne
------------------------------------------------------------------------------
LEMMA InitInv == Init => Inv
PROOF
<1>. SUFFICES ASSUME Init PROVE Inv
  OBVIOUS
<1>. USE PlaybackAssumption DEF Init
<1>1. TypeOK
  <2>1. /\ audio \in [Ctrl -> BOOLEAN] /\ playing_ \in [Ctrl -> BOOLEAN]
        /\ hasty \in BOOLEAN
    OBVIOUS
  <2>2. updates \in [Ctrl -> 0 .. MaxUpdates] /\ made \in 0 .. MaxPlays
    OBVIOUS
  <2>. QED
    BY <2>1, <2>2 DEF TypeOK, Places
<1>2. InRange
  BY DEF InRange, Ctrl, NoCtrl
<1>3. OnlyOne
  BY DEF OnlyOne, ThreadAlive, Sounding
<1>. QED
  BY <1>1, <1>2, <1>3 DEF Inv

(* The worker.                                                             *)
LEMMA WorkerInv == Inv /\ Worker => Inv'
PROOF
<1>. SUFFICES ASSUME Inv, Worker PROVE Inv'
  OBVIOUS
<1>. USE PlaybackAssumption
     DEF Inv, TypeOK, InRange, OnlyOne, Alone, ThreadAlive, Sounding,
         workerVars, nodeVars, historyVars
<1>1. CASE PlayCommand
  BY <1>1 DEF PlayCommand
<1>2. CASE Construct
  <2>1. PICK type \in {"SINGLE", "CYCLE", "NONE"}, has \in BOOLEAN,
             n \in 0 .. MaxUpdates :
          /\ anim' = [anim EXCEPT ![made'] = type]
          /\ audio' = [audio EXCEPT ![made'] = has]
          /\ updates' = [updates EXCEPT ![made'] = n]
    BY <1>2 DEF Construct
  <2>2. /\ worker = "constructing" /\ worker' = "assigning"
        /\ made' = made + 1
        /\ UNCHANGED <<current, old, playing_, play, song, nodes,
                       loaded, late, lastStop, hasty>>
    BY <1>2 DEF Construct
  <2>3. made' \in Ctrl /\ made' \in 0 .. MaxPlays
    BY <2>2 DEF Ctrl
  <2>4. TypeOK'
    BY <2>1, <2>2, <2>3
  \* No thread runs under a number that was not given yet.
  <2>5. \A c \in Ctrl : play[c] = "sleeping" => c # made'
    <3>1. \A c \in Ctrl : play[c] = "sleeping" => c = current
      BY <2>2
    <3>2. current \in Nat /\ current <= made /\ made \in Nat
      BY DEF Ctrl, NoCtrl
    <3>. QED
      BY <2>2, <3>1, <3>2
  <2>6. InRange'
    BY <2>1, <2>2, <2>3, <2>5 DEF Ctrl, NoCtrl
  <2>7. OnlyOne'
    BY <2>2
  <2>. QED
    BY <2>4, <2>6, <2>7
<1>3. CASE Assign
  BY <1>3 DEF Assign, Ctrl, NoCtrl
<1>4. CASE JoinPlayThread
  BY <1>4 DEF JoinPlayThread
<1>5. CASE DestroyPlayer
  <2>1. /\ worker = "joiningSong" /\ song[old] # "sounding"
        /\ old' = NoCtrl /\ worker' = "starting"
        /\ anim' = [anim EXCEPT ![old] = "NONE"]
        /\ audio' = [audio EXCEPT ![old] = FALSE]
        /\ playing_' = [playing_ EXCEPT ![old] = FALSE]
        /\ play' = [play EXCEPT ![old] = "none"]
        /\ updates' = [updates EXCEPT ![old] = 0]
        /\ late' = [late EXCEPT ![old] = 0]
        /\ song' = [song EXCEPT ![old] = "none"]
        /\ UNCHANGED <<current, made, nodes, loaded, lastStop, hasty>>
    BY <1>5 DEF DestroyPlayer, Destroy
  <2>2. TypeOK'
    <3>1. audio' \in [Ctrl -> BOOLEAN] /\ playing_' \in [Ctrl -> BOOLEAN]
      BY <2>1
    <3>2. anim' \in [Ctrl -> {"SINGLE", "CYCLE", "NONE"}] /\ play' \in [Ctrl -> Places]
      BY <2>1 DEF Places
    <3>3. /\ updates' \in [Ctrl -> 0 .. MaxUpdates] /\ late' \in [Ctrl -> Nat]
          /\ song' \in [Ctrl -> {"none", "sounding", "over"}]
      <4>1. updates' \in [Ctrl -> 0 .. MaxUpdates]
        <5>1. updates \in [Ctrl -> 0 .. MaxUpdates] /\ 0 \in 0 .. MaxUpdates
          OBVIOUS
        <5>2. updates' = [updates EXCEPT ![old] = 0]
          BY <2>1
        <5> HIDE DEF Inv
        <5>. QED
          BY ONLY <5>1, <5>2
      <4>2. late' \in [Ctrl -> Nat]
        BY <2>1
      <4>3. song' \in [Ctrl -> {"none", "sounding", "over"}]
        BY <2>1
      <4>. QED
        BY <4>1, <4>2, <4>3
    <3>4. /\ worker' = "starting" /\ old' = NoCtrl
          /\ UNCHANGED <<current, made, nodes, loaded, lastStop, hasty>>
      BY <2>1
    <3>. QED
      BY <3>1, <3>2, <3>3, <3>4
  <2>3. InRange'
    <3>1. \A c \in Ctrl : play[c] # "sleeping"
      BY <2>1
    <3>2. \A c \in Ctrl : play'[c] # "sleeping"
      BY <2>1, <3>1
    <3>. QED
      BY <2>1, <3>2 DEF Ctrl, NoCtrl
  \* Nobody has a thread left: the play thread was joined before, and now
  \* the song.
  <2>4. \A c \in Ctrl : ~ThreadAlive(c) /\ ~Sounding(c)
    BY <2>1
  <2>5. \A c \in Ctrl : ~ThreadAlive(c)' /\ ~Sounding(c)'
    BY <2>1, <2>4
  <2>6. OnlyOne'
    BY <2>1, <2>5
  <2>. QED
    BY <2>2, <2>3, <2>6
<1>6. CASE Start
  BY <1>6 DEF Start, Places
<1>7. CASE StopCommand
  BY <1>7 DEF StopCommand
<1>8. CASE StopNodes
  BY <1>8 DEF StopNodes
<1>9. CASE StopPlaying
  BY <1>9 DEF StopPlaying
<1>. QED
  BY <1>1, <1>2, <1>3, <1>4, <1>5, <1>6, <1>7, <1>8, <1>9 DEF Worker

(* The play thread of a controller.  It only moves its own thread, and     *)
(* starts a song only while it is alive itself.                            *)
LEMMA PlayThreadInv ==
  ASSUME Inv, NEW c \in Ctrl, PlayThread(c)
  PROVE  Inv'
PROOF
<1>. USE PlaybackAssumption
     DEF Inv, TypeOK, InRange, OnlyOne, Alone, ThreadAlive, Sounding,
         workerVars, nodeVars, historyVars, Step, Places
<1>1. CASE Clear(c)
  BY <1>1 DEF Clear
<1>2. CASE UploadBegins(c)
  BY <1>2 DEF UploadBegins
<1>3. CASE UploadEnds(c)
  BY <1>3 DEF UploadEnds
<1>4. CASE SetPlaying(c)
  BY <1>4 DEF SetPlaying
<1>5. CASE StartSong(c)
  BY <1>5 DEF StartSong
<1>6. CASE BroadcastPlay(c)
  BY <1>6 DEF BroadcastPlay, Begin
<1>7. CASE Loop(c)
  BY <1>7 DEF Loop
<1>8. CASE SendKeys(c)
  BY <1>8 DEF SendKeys
<1>9. CASE WaitForFinish(c)
  BY <1>9 DEF WaitForFinish
<1>10. CASE Finish(c)
  BY <1>10 DEF Finish
<1>11. CASE BroadcastCycle(c)
  BY <1>11 DEF BroadcastCycle, Begin
<1>12. CASE CycleIsPlaying(c)
  BY <1>12 DEF CycleIsPlaying
<1>. QED
  BY <1>1, <1>2, <1>3, <1>4, <1>5, <1>6, <1>7, <1>8, <1>9, <1>10, <1>11, <1>12
  DEF PlayThread

LEMMA NextInv == Inv /\ [Next]_vars => Inv'
PROOF
<1>. SUFFICES ASSUME Inv, [Next]_vars PROVE Inv'
  OBVIOUS
<1>1. CASE Worker
  BY <1>1, WorkerInv
<1>2. ASSUME NEW c \in Ctrl, PlayThread(c) PROVE Inv'
  BY <1>2, PlayThreadInv
<1>3. ASSUME NEW c \in Ctrl, SongEnds(c) PROVE Inv'
  BY <1>3 DEF SongEnds, Inv, TypeOK, InRange, OnlyOne, Alone, ThreadAlive,
              Sounding, workerVars, nodeVars, historyVars
<1>4. CASE NodesRunOut
  BY <1>4 DEF NodesRunOut, Inv, TypeOK, InRange, OnlyOne, Alone, ThreadAlive,
              Sounding, workerVars, historyVars
<1>5. CASE UNCHANGED vars
  BY <1>5 DEF vars, Inv, TypeOK, InRange, OnlyOne, Alone, ThreadAlive,
              Sounding, workerVars, nodeVars, historyVars
<1>. QED
  BY <1>1, <1>2, <1>3, <1>4, <1>5 DEF Next

LEMMA Invariance == Spec => []Inv
  BY InitInv, NextInv, PTL DEF Spec

(* The state stays well typed: no update is sent that the animation does   *)
(* not have.                                                               *)
THEOREM TypeCorrect == Spec => []TypeOK
  BY Invariance, PTL DEF Inv

(* Two play threads are never alive at once: the assignment joins the old  *)
(* one before start() makes the new one, even when the play command came   *)
(* while the old one was still uploading.                                  *)
THEOREM PlayThreadsExclude == Spec => []OnePlayThread
PROOF
<1>1. Inv => OnePlayThread
  BY DEF Inv, TypeOK, OnlyOne, Alone, OnePlayThread
<1>. QED
  BY <1>1, Invariance, PTL

(* Two songs are never heard at once.                                      *)
THEOREM SongsExclude == Spec => []OneSong
PROOF
<1>1. Inv => OneSong
  BY DEF Inv, TypeOK, OnlyOne, Alone, Sounding, OneSong
<1>. QED
  BY <1>1, Invariance, PTL
------------------------------------------------------------------------------
(* A thread that has sent an update without being allowed to is past its   *)
(* last test of playing_, and nothing sets that again.                     *)
LateOnce ==
  \A c \in Ctrl :
    \/ late[c] = 0
    \/ late[c] = 1 /\ ~playing_[c] /\ play[c] \in {"loop", "wait", "finish", "done"}

(* A controller has done nothing before it is started.                     *)
Untouched(c) == late[c] = 0 /\ play[c] = "none"

Fresh ==
  /\ \A c \in Ctrl : ~Untouched(c) => c <= current
  /\ worker = "assigning" => current < made
  /\ worker \in {"joining", "joiningSong"} => old < current
  /\ worker \in {"joining", "joiningSong", "starting"} => Untouched(current)

LateInv == LateOnce /\ Fresh

LEMMA InitLate == Init => LateInv
  BY DEF Init, LateInv, LateOnce, Fresh, Untouched

LEMMA WorkerLate == Inv /\ LateInv /\ Worker => LateInv'
PROOF
<1>. SUFFICES ASSUME Inv, LateInv, Worker PROVE LateInv'
  OBVIOUS
<1>0. current \in Nat /\ made \in Nat /\ current <= made
  BY PlaybackAssumption DEF Inv, InRange, TypeOK, Ctrl, NoCtrl
<1>. USE DEF LateInv, LateOnce, Fresh, Untouched, workerVars, nodeVars, historyVars
<1>1. CASE PlayCommand
  BY <1>1 DEF PlayCommand
<1>2. CASE Construct
  <2>1. /\ worker' = "assigning" /\ made' = made + 1
        /\ UNCHANGED <<current, old, playing_, play, late>>
    BY <1>2 DEF Construct
  <2>2. current' < made'
    BY <1>0, <2>1
  <2>. QED
    BY <2>1, <2>2
<1>3. CASE Assign
  <2>1. /\ worker = "assigning" /\ old' = current /\ current' = made
        /\ worker' \in {"joining", "starting"}
        /\ UNCHANGED <<playing_, play, late>>
    BY <1>3 DEF Assign
  <2>2. made \in Ctrl /\ current < made
    BY <2>1 DEF Inv, InRange
  <2>3. Untouched(made)
    BY <1>0, <2>2
  <2>4. \A c \in Ctrl : ~Untouched(c) => c <= made
    BY <1>0 DEF Ctrl
  <2>. QED
    BY <2>1, <2>2, <2>3, <2>4
<1>4. CASE JoinPlayThread
  BY <1>4 DEF JoinPlayThread
<1>5. CASE DestroyPlayer
  <2>1. /\ worker = "joiningSong" /\ worker' = "starting"
        /\ play' = [play EXCEPT ![old] = "none"]
        /\ playing_' = [playing_ EXCEPT ![old] = FALSE]
        /\ late' = [late EXCEPT ![old] = 0]
        /\ UNCHANGED <<current, made>>
    BY <1>5 DEF DestroyPlayer, Destroy
  <2>2. /\ late \in [Ctrl -> Nat] /\ play \in [Ctrl -> Places]
        /\ playing_ \in [Ctrl -> BOOLEAN]
    BY DEF Inv, TypeOK
  <2>3. Untouched(current) /\ current \in Ctrl
    BY <2>1 DEF Inv, InRange
  <2>4. Untouched(current)'
    BY <2>1, <2>2, <2>3
  <2>5. \A c \in Ctrl : late'[c] # 0 => /\ c # old /\ late'[c] = late[c]
                                        /\ play'[c] = play[c]
                                        /\ playing_'[c] = playing_[c]
    BY <2>1, <2>2
  <2>6. LateOnce'
    BY <2>5
  <2>7. \A c \in Ctrl : ~Untouched(c)' => ~Untouched(c)
    BY <2>1, <2>2
  <2>. QED
    BY <2>1, <2>4, <2>6, <2>7
<1>6. CASE Start
  <2>1. /\ worker = "starting" /\ worker' = "idle"
        /\ UNCHANGED <<current, old, made, late>>
        /\ \A c \in Ctrl : c # current => /\ play'[c] = play[c]
                                          /\ playing_'[c] = playing_[c]
    BY <1>6 DEF Start, Inv, TypeOK
  <2>2. late[current] = 0 /\ current \in Nat
    BY <1>0, <2>1
  <2>. QED
    BY <2>1, <2>2
<1>7. CASE StopCommand
  BY <1>7 DEF StopCommand
<1>8. CASE StopNodes
  BY <1>8 DEF StopNodes
<1>9. CASE StopPlaying
  <2>1. /\ worker' = "idle" /\ UNCHANGED <<current, old, made, play, late>>
        /\ \A c \in Ctrl : playing_'[c] => playing_[c]
    BY <1>9 DEF StopPlaying, Inv, TypeOK
  <2>. QED
    BY <2>1
<1>. QED
  BY <1>1, <1>2, <1>3, <1>4, <1>5, <1>6, <1>7, <1>8, <1>9 DEF Worker

LEMMA PlayThreadLate ==
  ASSUME Inv, LateInv, NEW c \in Ctrl, PlayThread(c)
  PROVE  LateInv'
PROOF
<1>1. /\ play \in [Ctrl -> Places] /\ playing_ \in [Ctrl -> BOOLEAN]
      /\ late \in [Ctrl -> Nat]
  BY DEF Inv, TypeOK
<1>2. UNCHANGED workerVars
  BY DEF PlayThread, Clear, UploadBegins, UploadEnds, SetPlaying, StartSong,
         BroadcastPlay, Loop, SendKeys, WaitForFinish, Finish,
         BroadcastCycle, CycleIsPlaying, Step
\* Only the current controller has a thread or, while it is joined, the
\* old one.
<1>3. /\ play[c] # "none"
      /\ \A d \in Ctrl \ {c} : /\ play'[d] = play[d] /\ playing_'[d] = playing_[d]
                               /\ late'[d] = late[d]
  BY <1>1 DEF PlayThread, Clear, UploadBegins, UploadEnds, SetPlaying,
         StartSong, BroadcastPlay, Loop, SendKeys, WaitForFinish, Finish,
         BroadcastCycle, CycleIsPlaying, Step, historyVars
<1>4. c <= current
  BY <1>3 DEF LateInv, Fresh, Untouched
<1>5. worker \in {"joining", "joiningSong", "starting"} =>
        c # current /\ current \in Ctrl
  BY <1>3 DEF LateInv, Fresh, Untouched, Inv, InRange
<1>6. Fresh'
  <2>1. \A d \in Ctrl : ~Untouched(d)' => d <= current
    BY <1>3, <1>4 DEF LateInv, Fresh, Untouched
  <2>2. worker \in {"joining", "joiningSong", "starting"} => Untouched(current)'
    BY <1>2, <1>3, <1>5 DEF LateInv, Fresh, Untouched, workerVars
  <2>. QED
    BY <1>2, <2>1, <2>2 DEF LateInv, Fresh, workerVars
<1>7. CASE SendKeys(c)
  <2>1. /\ play[c] = "sleeping" /\ play' = [play EXCEPT ![c] = "loop"]
        /\ late' = IF playing_[c] THEN late ELSE [late EXCEPT ![c] = @ + 1]
        /\ UNCHANGED playing_
    BY <1>7 DEF SendKeys, Step
  <2>2. late[c] = 0
    BY <2>1 DEF LateInv, LateOnce
  <2>3. /\ late'[c] = 0 \/ (late'[c] = 1 /\ ~playing_[c])
        /\ play'[c] = "loop"
    BY <1>1, <2>1, <2>2
  <2>4. LateOnce'
    BY <1>3, <2>1, <2>3 DEF LateInv, LateOnce
  <2>. QED
    BY <1>6, <2>4 DEF LateInv
<1>8. CASE ~SendKeys(c)
  <2>1. UNCHANGED late
    BY <1>8 DEF PlayThread, Clear, UploadBegins, UploadEnds, SetPlaying,
         StartSong, BroadcastPlay, Loop, WaitForFinish, Finish,
         BroadcastCycle, CycleIsPlaying, historyVars
  \* Who has sent a late update goes from its test to the end.
  <2>2. ~playing_[c] /\ play[c] \in {"loop", "wait", "finish", "done"} =>
          /\ ~playing_'[c]
          /\ play'[c] \in {"loop", "wait", "finish", "done"}
    BY <1>1, <1>8 DEF PlayThread, Clear, UploadBegins, UploadEnds, SetPlaying,
         StartSong, BroadcastPlay, Loop, WaitForFinish, Finish,
         BroadcastCycle, CycleIsPlaying, Step
  <2>3. LateOnce'
    BY <1>3, <2>1, <2>2 DEF LateInv, LateOnce
  <2>. QED
    BY <1>6, <2>3 DEF LateInv
<1>. QED
  BY <1>7, <1>8

LEMMA NextLate == Inv /\ LateInv /\ [Next]_vars => LateInv'
PROOF
<1>. SUFFICES ASSUME Inv, LateInv, [Next]_vars PROVE LateInv'
  OBVIOUS
<1>1. CASE Worker
  BY <1>1, WorkerLate
<1>2. ASSUME NEW c \in Ctrl, PlayThread(c) PROVE LateInv'
  BY <1>2, PlayThreadLate
<1>. USE DEF LateInv, LateOnce, Fresh, Untouched, workerVars, historyVars
<1>3. ASSUME NEW c \in Ctrl, SongEnds(c) PROVE LateInv'
  BY <1>3 DEF SongEnds
<1>4. CASE NodesRunOut
  BY <1>4 DEF NodesRunOut
<1>5. CASE UNCHANGED vars
  BY <1>5 DEF vars
<1>. QED
  BY <1>1, <1>2, <1>3, <1>4, <1>5 DEF Next

(* A stopped play thread may finish the sleep it is in, and send the page  *)
(* it took before; that is all that comes after a stop.                    *)
THEOREM StopsAreObeyed == Spec => []OneLateUpdate
PROOF
<1>1. LateInv => OneLateUpdate
  BY DEF LateInv, LateOnce, OneLateUpdate
<1>. QED
  BY <1>1, InitLate, NextLate, Invariance, PTL DEF Spec
------------------------------------------------------------------------------
Starting == worker \in {"constructing", "assigning", "joining", "joiningSong",
                        "starting"}

(* Places of a play thread after its broadcast.                            *)
Begun == {"loop", "sleeping", "wait", "finish", "cycling", "done"}

(* How far the current controller has come when all was quiet before it,   *)
(* and what the nodes are doing by then.                                   *)
Settled ==
  ~hasty =>
    /\ Starting => nodes = "IDLE" /\ \A c \in Ctrl : ~ThreadAlive(c)
    /\ ~Starting /\ current = NoCtrl => nodes = "IDLE"
    /\ ~Starting /\ current # NoCtrl =>
         /\ play[current] \in {"none", "clear", "upload", "uploaded", "song",
                               "play", "cycle"} => nodes = "IDLE"
         /\ play[current] \in {"upload", "uploading"} => loaded = {}
         /\ play[current] = "uploading" => nodes = "RECEIVING_KEYFRAMES"
         /\ play[current] \in {"uploaded", "song", "play", "cycle"} \cup Begun
              => loaded = {current}
         /\ play[current] \in Begun => nodes \in {"IDLE", "RUNNING", "CYCLING"}

(* A stop that found the nodes playing came after the broadcast.           *)
Stopped ==
  ~hasty /\ lastStop = "hit" =>
    /\ nodes = "IDLE" /\ ~Starting /\ current # NoCtrl
    /\ play[current] \in Begun

QuietInv == Settled /\ Stopped

LEMMA InitQuiet == Init => QuietInv
  BY DEF Init, QuietInv, Settled, Stopped, Starting

LEMMA WorkerQuiet == Inv /\ LateInv /\ QuietInv /\ Worker => QuietInv'
PROOF
<1>. SUFFICES ASSUME Inv, LateInv, QuietInv, Worker PROVE QuietInv'
  OBVIOUS
<1>0. /\ worker \in {"idle", "constructing", "assigning", "joining", "joiningSong",
                     "starting", "stoppingNodes", "stoppingPlay"}
      /\ play \in [Ctrl -> Places] /\ current \in Ctrl \cup {NoCtrl}
      /\ NoCtrl \notin Ctrl
      /\ nodes \in {"IDLE", "RECEIVING_KEYFRAMES", "RUNNING", "CYCLING"}
  BY DEF Inv, TypeOK, Ctrl, NoCtrl
<1>. USE DEF QuietInv, Settled, Stopped, Starting, workerVars, nodeVars,
             historyVars, Begun
<1>1. CASE PlayCommand
  BY <1>0, <1>1 DEF PlayCommand, Quiet, ThreadAlive
<1>2. CASE Construct
  BY <1>0, <1>2 DEF Construct, ThreadAlive
<1>3. CASE Assign
  BY <1>0, <1>3 DEF Assign, ThreadAlive
<1>4. CASE JoinPlayThread
  BY <1>0, <1>4 DEF JoinPlayThread, ThreadAlive
<1>5. CASE DestroyPlayer
  BY <1>0, <1>5 DEF DestroyPlayer, Destroy, ThreadAlive
<1>6. CASE Start
  <2>1. worker = "starting" /\ worker' = "idle" /\ current \in Ctrl
        /\ UNCHANGED <<current, nodes, loaded, lastStop, hasty>>
    BY <1>6 DEF Start, Inv, InRange
  <2>2. ~hasty => /\ nodes = "IDLE" /\ lastStop # "hit"
                  /\ play[current] = "none"
    BY <2>1 DEF LateInv, Fresh, Untouched
  <2>. QED
    BY <1>0, <1>6, <2>1, <2>2 DEF Start
<1>7. CASE StopCommand
  BY <1>0, <1>7 DEF StopCommand
<1>8. CASE StopNodes
  BY <1>0, <1>8 DEF StopNodes, NodesPlay, Places
<1>9. CASE StopPlaying
  BY <1>0, <1>9 DEF StopPlaying
<1>. QED
  BY <1>1, <1>2, <1>3, <1>4, <1>5, <1>6, <1>7, <1>8, <1>9 DEF Worker

LEMMA PlayThreadQuiet ==
  ASSUME Inv, QuietInv, NEW c \in Ctrl, PlayThread(c)
  PROVE  QuietInv'
PROOF
<1>1. /\ play \in [Ctrl -> Places] /\ current \in Ctrl \cup {NoCtrl}
      /\ NoCtrl \notin Ctrl
      /\ nodes \in {"IDLE", "RECEIVING_KEYFRAMES", "RUNNING", "CYCLING"}
  BY DEF Inv, TypeOK, Ctrl, NoCtrl
<1>2. UNCHANGED <<workerVars, lastStop, hasty>> /\ ThreadAlive(c)
  BY DEF PlayThread, Clear, UploadBegins, UploadEnds, SetPlaying, StartSong,
         BroadcastPlay, Loop, SendKeys, WaitForFinish, Finish,
         BroadcastCycle, CycleIsPlaying, Step, historyVars, ThreadAlive
<1>3. CASE hasty
  BY <1>2, <1>3 DEF QuietInv, Settled, Stopped
<1>4. CASE ~hasty
  <2>1. ~Starting
    BY <1>2, <1>4 DEF QuietInv, Settled
  <2>2. c = current /\ current # NoCtrl
    BY <1>1, <1>2, <2>1 DEF Inv, TypeOK, OnlyOne, Alone, Starting
  <2>. USE <1>1, <1>2, <1>4, <2>1, <2>2
       DEF QuietInv, Settled, Stopped, Starting, workerVars, nodeVars,
           historyVars, Begun, Step
  <2>3. CASE Clear(c)
    BY <2>3 DEF Clear
  <2>4. CASE UploadBegins(c)
    BY <2>4 DEF UploadBegins
  <2>5. CASE UploadEnds(c)
    BY <2>5 DEF UploadEnds
  <2>6. CASE SetPlaying(c)
    BY <2>6 DEF SetPlaying
  <2>7. CASE StartSong(c)
    BY <2>7 DEF StartSong
  <2>8. CASE BroadcastPlay(c)
    BY <2>8 DEF BroadcastPlay, Begin
  <2>9. CASE Loop(c)
    BY <2>9 DEF Loop
  <2>10. CASE SendKeys(c)
    BY <2>10 DEF SendKeys
  <2>11. CASE WaitForFinish(c)
    BY <2>11 DEF WaitForFinish
  <2>12. CASE Finish(c)
    BY <2>12 DEF Finish
  <2>13. CASE BroadcastCycle(c)
    BY <2>13 DEF BroadcastCycle, Begin
  <2>14. CASE CycleIsPlaying(c)
    BY <2>14 DEF CycleIsPlaying
  <2>. QED
    BY <2>3, <2>4, <2>5, <2>6, <2>7, <2>8, <2>9, <2>10, <2>11, <2>12, <2>13,
       <2>14 DEF PlayThread
<1>. QED
  BY <1>3, <1>4 DEF Inv, TypeOK

LEMMA NextQuiet == Inv /\ LateInv /\ QuietInv /\ [Next]_vars => QuietInv'
PROOF
<1>. SUFFICES ASSUME Inv, LateInv, QuietInv, [Next]_vars PROVE QuietInv'
  OBVIOUS
<1>1. CASE Worker
  BY <1>1, WorkerQuiet
<1>2. ASSUME NEW c \in Ctrl, PlayThread(c) PROVE QuietInv'
  BY <1>2, PlayThreadQuiet
<1>. USE DEF QuietInv, Settled, Stopped, Starting, ThreadAlive, workerVars,
             nodeVars, historyVars
<1>3. ASSUME NEW c \in Ctrl, SongEnds(c) PROVE QuietInv'
  BY <1>3 DEF SongEnds
<1>4. CASE NodesRunOut
  BY <1>4 DEF NodesRunOut
<1>5. CASE UNCHANGED vars
  BY <1>5 DEF vars
<1>. QED
  BY <1>1, <1>2, <1>3, <1>4, <1>5 DEF Next

LEMMA QuietInvariance == Spec => [](Inv /\ LateInv /\ QuietInv)
  BY InitInv, NextInv, InitLate, NextLate, InitQuiet, NextQuiet, PTL DEF Spec

(* A play command that finds everything quiet shows its own animation: no  *)
(* key of an earlier one is on the nodes when they start, whatever stops   *)
(* and songs come in between.                                              *)
THEOREM QuietPlaysAreClean == Spec => []NodesPlayTheCurrentAnimation
PROOF
<1>1. Inv /\ QuietInv => NodesPlayTheCurrentAnimation
  BY DEF Inv, TypeOK, Places, QuietInv, Settled, NodesPlay, Begun,
         NodesPlayTheCurrentAnimation
<1>. QED
  BY <1>1, QuietInvariance, PTL

(* Nor does the play thread of such a command start the nodes again after  *)
(* a stop that found them playing.                                         *)
THEOREM StopsAreFinal == Spec => []StopIsFinal
PROOF
<1>1. QuietInv => StopIsFinal
  BY DEF QuietInv, Stopped, NodesPlay, StopIsFinal
<1>. QED
  BY <1>1, QuietInvariance, PTL
=============================================================================
