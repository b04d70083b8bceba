------------------------------ MODULE Player2 ------------------------------
(***************************************************************************)
(* src/audio/Player2.cpp: the audio of one animation.  play() starts a     *)
(* thread and waits on a condition variable until the thread says that it  *)
(* is about to play; waitForFinish() and the destructor join the thread;   *)
(* stop() may be called by another thread at any time.                     *)
(*                                                                         *)
(* The lock in play_internal() is a temporary: it is given back before     *)
(* playing_ is set.  playing_ and stop_ are plain bools that two threads   *)
(* use at once; they are here read and written in some order, which is     *)
(* what a build whose loops call into libraries does.                      *)
(***************************************************************************)
EXTENDS Naturals

VARIABLES
  owner,     \* where the thread is that calls play() and the destructor
  bck_,      \* where play_internal() is; "none" before, "joined" after it
  lock_,     \* who holds lock_
  playing_, stop_,
  dev_,      \* the audio device (and with it the decoder mh_)
  tail       \* history: buffers played since stop_ was set

playerVars == <<owner, bck_, lock_, playing_, stop_, dev_, tail>>

Joinable == bck_ \notin {"none", "joined"}

(* The constructor goes on when the device cannot be opened.               *)
PlayerInit ==
  /\ owner = "constructed"
  /\ bck_ = "none"
  /\ lock_ = "free"
  /\ playing_ = FALSE /\ stop_ = FALSE
  /\ dev_ \in {"open", "null"}
  /\ tail = 0

Goto(place) == owner' = place
BckGoto(place) == bck_' = place
------------------------------------------------------------------------------
(* play(): start the thread.  Without a device it returns false.           *)
Play ==
  /\ owner = "constructed"
  /\ IF dev_ = "open"
       THEN Goto("locking") /\ BckGoto("starting")
       ELSE Goto("returned") /\ UNCHANGED bck_
  /\ UNCHANGED <<lock_, playing_, stop_, dev_, tail>>

Lock ==
  /\ owner = "locking" /\ lock_ = "free"
  /\ lock_' = "owner"
  /\ Goto("checking")
  /\ UNCHANGED <<bck_, playing_, stop_, dev_, tail>>

CheckNothing ==
  /\ owner = "checking"
  /\ lock_' = "free"
  /\ Goto("returned")
  /\ UNCHANGED <<bck_, playing_, stop_, dev_, tail>>

(* cond_.wait(): test the predicate, with the lock held, ...               *)
Check ==
  /\ owner = "checking"
  /\ IF playing_ THEN Goto("returned") /\ lock_' = "free"
                 ELSE Goto("notReady") /\ UNCHANGED lock_
  /\ UNCHANGED <<bck_, playing_, stop_, dev_, tail>>

(* ... and when it is false sleep and give the lock back in one step.      *)
Sleep ==
  /\ owner = "notReady"
  /\ lock_' = "free"
  /\ Goto("asleep")
  /\ UNCHANGED <<bck_, playing_, stop_, dev_, tail>>

(* A condition variable may wake its waiter without a notification.        *)
SpuriousWakeUp ==
  /\ owner = "asleep"
  /\ Goto("locking")
  /\ UNCHANGED <<bck_, lock_, playing_, stop_, dev_, tail>>

(* waitForFinish(), the caller's choice.                                   *)
WaitForFinish ==
  /\ owner = "returned" /\ Joinable
  /\ Goto("waiting")
  /\ UNCHANGED <<bck_, lock_, playing_, stop_, dev_, tail>>

Finished ==
  /\ owner = "waiting" /\ bck_ = "ended"
  /\ BckGoto("joined") /\ Goto("returned")
  /\ UNCHANGED <<lock_, playing_, stop_, dev_, tail>>

DestroyDetached ==
  /\ owner \in {"constructed", "returned"}
  /\ stop_' = TRUE
  /\ Goto("gone")
  /\ UNCHANGED <<bck_, lock_, playing_, dev_, tail>>

(* ~Player2(): set stop_, join the thread if there is one to join.         *)
Destroy ==
  /\ owner \in {"constructed", "returned"}
  /\ stop_' = TRUE
  /\ Goto(IF Joinable THEN "destroying" ELSE "gone")
  /\ UNCHANGED <<bck_, lock_, playing_, dev_, tail>>

Destroyed ==
  /\ owner = "destroying" /\ bck_ = "ended"
  /\ BckGoto("joined") /\ Goto("gone")
  /\ UNCHANGED <<lock_, playing_, stop_, dev_, tail>>

(* stop(), from any thread while the player lives.                         *)
Stop ==
  /\ owner # "gone"
  /\ stop_' = TRUE
  /\ UNCHANGED <<owner, bck_, lock_, playing_, dev_, tail>>
------------------------------------------------------------------------------
(* play_internal(): take lock_ and give it back at once.                   *)
LockAndUnlock ==
  /\ bck_ = "starting" /\ lock_ = "free"
  /\ BckGoto("locked")
  /\ UNCHANGED <<owner, lock_, playing_, stop_, dev_, tail>>

SetPlaying ==
  /\ bck_ = "locked"
  /\ playing_' = TRUE
  /\ BckGoto("set")
  /\ UNCHANGED <<owner, lock_, stop_, dev_, tail>>

Notify ==
  /\ bck_ = "set"
  /\ BckGoto("looping")
  /\ owner' = IF owner = "asleep" THEN "locking" ELSE owner
  /\ UNCHANGED <<lock_, playing_, stop_, dev_, tail>>

PlayLoopIgnoringStop ==
  /\ bck_ = "looping"
  /\ BckGoto("reading")
  /\ UNCHANGED <<owner, lock_, playing_, stop_, dev_, tail>>

(* The condition of the loop, read from left to right.                     *)
PlayLoop ==
  /\ bck_ = "looping"
  /\ BckGoto(IF stop_ THEN "closing" ELSE "reading")
  /\ UNCHANGED <<owner, lock_, playing_, stop_, dev_, tail>>

Read ==
  /\ bck_ = "reading"
  /\ BckGoto("writing") \/ BckGoto("closing")
  /\ UNCHANGED <<owner, lock_, playing_, stop_, dev_, tail>>

WriteBuffer ==
  /\ bck_ = "writing"
  /\ BckGoto("looping")
  /\ tail' = IF stop_ THEN tail + 1 ELSE tail
  /\ UNCHANGED <<owner, lock_, playing_, stop_, dev_>>

CloseDevice ==
  /\ bck_ = "closing"
  /\ dev_' = "closed"
  /\ BckGoto("deleting")
  /\ UNCHANGED <<owner, lock_, playing_, stop_, tail>>

(* The last use the thread makes of the player.                            *)
DeleteDecoder ==
  /\ bck_ = "deleting"
  /\ BckGoto("ended")
  /\ UNCHANGED <<owner, lock_, playing_, stop_, dev_, tail>>
------------------------------------------------------------------------------
Owner ==
  \/ Play \/ Lock \/ Check \/ Sleep
  \/ WaitForFinish \/ Finished \/ Destroy \/ Destroyed

PlayInternal ==
  \/ LockAndUnlock \/ SetPlaying \/ Notify
  \/ PlayLoop \/ Read \/ WriteBuffer
  \/ CloseDevice \/ DeleteDecoder

PlayerNext == Owner \/ SpuriousWakeUp \/ Stop \/ PlayInternal

PlayerSpec == PlayerInit /\ [][PlayerNext]_playerVars

(* The scheduler runs both threads, and a thread that asks for the lock    *)
(* again and again gets it.  Nobody has to stop the song or to destroy the *)
(* player, and a wake-up without a reason may never come.                  *)
FairSpec ==
  /\ PlayerSpec
  /\ WF_playerVars(PlayInternal) /\ SF_playerVars(LockAndUnlock)
  /\ WF_playerVars(Lock \/ Check \/ Sleep)
  /\ WF_playerVars(Finished) /\ WF_playerVars(Destroyed)
------------------------------------------------------------------------------
PlayerTypeOK ==
  /\ owner \in {"constructed", "locking", "checking", "notReady", "asleep", "returned",
                "waiting", "destroying", "gone"}
  /\ bck_ \in {"none", "starting", "locked", "set", "looping", "reading",
               "writing", "closing", "deleting", "ended", "joined"}
  /\ lock_ \in {"free", "owner"}
  /\ playing_ \in BOOLEAN /\ stop_ \in BOOLEAN
  /\ dev_ \in {"open", "null", "closed"}
  /\ tail \in 0 .. 1

(* The audio thread runs with a pointer to the player: the player is never *)
(* gone while the thread is, and a thread that has ended has closed the    *)
(* device.                                                                 *)
PlayerOutlivesItsThread ==
  owner = "gone" => bck_ \in {"none", "joined"} /\ (bck_ = "joined" => dev_ = "closed")

(* When play() returns with a device, the thread has said that it is about *)
(* to play, however many wake-ups without a reason came before.            *)
PlayReturnsAfterTheThreadIsReady ==
  [][owner' = "returned" /\ owner = "checking"
       => bck_ \notin {"none", "starting", "locked"}]_playerVars

Song == INSTANCE Song WITH
  phase <- CASE bck_ \in {"none", "starting", "locked", "set"} -> "silent"
             [] bck_ \in {"ended", "joined"} -> "over"
             [] OTHER -> "sounding",
  stopped <- stop_

(* The player is a song: it sounds once, plays at most one more buffer     *)
(* after stop(), and a stopped player always ends.                         *)
PlayerIsASong == Song!Spec

(* play(), "Wait for the thread to be about to start playing": the wait    *)
(* ends.                                                                   *)
PlayReturns == owner = "locking" ~> owner = "returned"
=============================================================================
