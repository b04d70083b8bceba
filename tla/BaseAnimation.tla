---------------------------- MODULE BaseAnimation ----------------------------
(***************************************************************************)
(* src/BaseAnimation.cpp: an animation hands its keyframes out in pages,   *)
(* one list per channel and call.  For every channel it remembers the      *)
(* index of the last key sent, or END, and one flag says whether the first *)
(* page was taken.  AnimationController streams an animation with it: one  *)
(* large page before the show, then small ones until getFirstKeyout()      *)
(* answers KEYTIME_MAX.                                                    *)
(*                                                                         *)
(* A keyframe is represented by its time; its colour is never looked at.   *)
(***************************************************************************)
EXTENDS Integers, Sequences

CONSTANTS Channel,      \* indices of data_
          Animation,    \* the contents of data_ the constructors may build
          PageSize,     \* the values of keysPerChannel that callers use
          KEYTIME_MAX,  \* inc/BasicTypes.h: later than every keyframe
          SIZE_MAX,     \* the largest size_t; END has this value
          Garbage       \* what a read past the end of a vector yields

Time == 0 .. KEYTIME_MAX - 1

Sorted(keys) == \A i, j \in 1 .. Len(keys) : i < j => keys[i] <= keys[j]

(* The exporters and the built-in animations write keys in time order; a   *)
(* channel is shorter than the largest size_t.  That a channel has a key   *)
(* at all is not assumed here: a file may say 0.                           *)
ASSUME AnimationAssumption ==
  /\ KEYTIME_MAX \in Nat \ {0}
  /\ SIZE_MAX \in Nat
  /\ PageSize \subseteq 1 .. SIZE_MAX
  /\ Animation \subseteq [Channel -> Seq(Time)]
  /\ \A a \in Animation : \A ch \in Channel :
       Sorted(a[ch]) /\ Len(a[ch]) < SIZE_MAX

(* The circle has no empty channel.  A file may: the exporter writes one   *)
(* for curves without points.  What then fails is left out by this.        *)
NonEmptyChannels == \A a \in Animation : \A ch \in Channel : Len(a[ch]) > 0

VARIABLES data,               \* data_
          keyframePositions,  \* keyframePositions_
          started,            \* started_
          sent                \* history: the keys handed out since reset()

vars == <<data, keyframePositions, started, sent>>
------------------------------------------------------------------------------
END == SIZE_MAX

(* Subtraction of size_t: it wraps.                                        *)
Minus(a, b) == IF a >= b THEN a - b ELSE (a - b) + SIZE_MAX + 1

(* An element of a channel; getNKeys reads it unchecked.                   *)
KeyAt(ch, index) ==
  IF index < Len(data[ch]) THEN data[ch][index + 1] ELSE Garbage

RemainingIgnoringStart(ch) == Minus(Len(data[ch]), keyframePositions[ch])

(* How many keys the next page of n holds for a channel that is not at END *)
(* (the local numberOfFrames).                                             *)
Remaining(ch) ==
  LET rest == Minus(Len(data[ch]), keyframePositions[ch])
  IN  IF started THEN Minus(rest, 1) ELSE rest

FramesInPage(ch, n) == IF Remaining(ch) < n THEN Remaining(ch) ELSE n

(* The index the copy loop starts at: the flag tells an index that was     *)
(* sent from one that was not.                                             *)
FirstIndex(ch) ==
  IF started THEN keyframePositions[ch] + 1 ELSE keyframePositions[ch]

PageOf(ch, n) ==
  IF keyframePositions[ch] = END
    THEN << >>
    ELSE [i \in 1 .. FramesInPage(ch, n) |-> KeyAt(ch, FirstIndex(ch) + i - 1)]

(* channelIndex after the copy loop: untouched when nothing was copied.    *)
LastCopied(ch, n) ==
  IF FramesInPage(ch, n) = 0
    THEN keyframePositions[ch]
    ELSE FirstIndex(ch) + FramesInPage(ch, n) - 1

PositionAfterWithoutMinusOne(ch, n) ==
  IF \/ keyframePositions[ch] = END
     \/ LastCopied(ch, n) >= Len(data[ch])
    THEN END
    ELSE LastCopied(ch, n)

PositionAfter(ch, n) ==
  IF \/ keyframePositions[ch] = END
     \/ LastCopied(ch, n) >= Minus(Len(data[ch]), 1)
    THEN END
    ELSE LastCopied(ch, n)

(* getFirstKeyout(): the earliest among the last keys sent of the channels *)
(* that still have keys; the first moment some node runs out of them.      *)
OpenChannels == {ch \in Channel : keyframePositions[ch] # END}

Earliest(times) == CHOOSE t \in times : \A u \in times : t <= u

FirstKeyoutLatest ==
  IF ~started THEN 0
  ELSE IF OpenChannels = {} THEN KEYTIME_MAX
  ELSE LET times == {KeyAt(ch, keyframePositions[ch]) : ch \in OpenChannels}
       IN  CHOOSE t \in times : \A u \in times : t >= u

FirstKeyout ==
  IF ~started
    THEN 0
    ELSE Earliest({KEYTIME_MAX} \cup
                  {KeyAt(ch, keyframePositions[ch]) : ch \in OpenChannels})
------------------------------------------------------------------------------
Init ==
  /\ data \in Animation
  /\ keyframePositions = [ch \in Channel |-> 0]
  /\ started = FALSE
  /\ sent = [ch \in Channel |-> << >>]

GetNKeys(n) ==
  /\ sent' = [ch \in Channel |-> sent[ch] \o PageOf(ch, n)]
  /\ keyframePositions' = [ch \in Channel |-> PositionAfter(ch, n)]
  /\ started' = TRUE
  /\ UNCHANGED data

ResetKeepingFlag ==
  /\ keyframePositions' = [ch \in Channel |-> 0]
  /\ sent' = [ch \in Channel |-> << >>]
  /\ UNCHANGED <<data, started>>

Reset ==
  /\ keyframePositions' = [ch \in Channel |-> 0]
  /\ started' = FALSE
  /\ sent' = [ch \in Channel |-> << >>]
  /\ UNCHANGED data

Next == Reset \/ \E n \in PageSize : GetNKeys(n)

Spec == Init /\ [][Next]_vars
------------------------------------------------------------------------------
TypeOK ==
  /\ data \in Animation
  /\ keyframePositions \in [Channel -> 0 .. SIZE_MAX]
  /\ started \in BOOLEAN
  /\ sent \in [Channel -> Seq(Time)]

(* The refinement mapping: the number of keys the encoded position means.  *)
Delivered(ch) ==
  IF ~started THEN 0
  ELSE IF keyframePositions[ch] = END THEN Len(data[ch])
  ELSE keyframePositions[ch] + 1

(* Whatever the page sizes, what a reader got of a channel is exactly its  *)
(* first keys: no key is skipped, repeated or made up at a page boundary,  *)
(* where getNKeys switches between "index to send" and "index sent".       *)
NothingLostOrRepeated ==
  \A ch \in Channel :
    /\ Len(sent[ch]) = Delivered(ch)
    /\ \A i \in 1 .. Len(sent[ch]) : sent[ch][i] = data[ch][i]

(* The test that ends the streaming loop is honest: KEYTIME_MAX is         *)
(* answered exactly when every channel was handed out completely.          *)
KeyoutEndsWithTheLastKey ==
  FirstKeyout = KEYTIME_MAX
    <=> started /\ \A ch \in Channel : Len(sent[ch]) = Len(data[ch])

(* The keyout never goes back while an animation is read, although another *)
(* channel may become the earliest: internal_start sleeps for the          *)
(* unsigned difference keyout - lastKeyout.                                *)
KeyoutNeverGoesBack ==
  [][started /\ started' => FirstKeyout <= FirstKeyout']_vars

Cursor == INSTANCE KeyCursor WITH delivered <- [ch \in Channel |-> Delivered(ch)]

(* The index-and-flag encoding implements the cursors.                     *)
ImplementsCursor == Cursor!CursorSpec
==============================================================================
