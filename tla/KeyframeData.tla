---------------------------- MODULE KeyframeData ----------------------------
(***************************************************************************)
(* src/nodes/KeyframeData.cpp: the bytes of a page of keys for all         *)
(* channels, as the constructor writes them into the buffer it allocates,  *)
(* and what a node reads in them (parseAndAddKeyframes() in the firmware). *)
(*                                                                         *)
(*   nKeys chId keys_offset | ... one per channel | key | key | ...        *)
(*                                                                         *)
(* The size is computed in one pass over the lists and the buffer is       *)
(* filled in another; offsets and counts are narrow integers.  The keys of *)
(* one list alone, for the upload over TCP, have a simpler layout.         *)
(***************************************************************************)
EXTENDS Bytes, Sequences

CONSTANTS NChannels,        \* the channels of the animation
          Key,              \* what a key may be; opaque here
          MaxKeysOnUpdate,  \* MAX_KEYS_ON_UPDATE
          CountMod,         \* uint8_t wraps at this value,
          OffsetMod         \* uint16_t at this one

KeyBytes == 7     \* sizeof(Keyframe_pck)
IndexBytes == 4   \* sizeof(KeyIndex)

Channel == 0 .. NChannels - 1

(* MAX_KEYS_ON_UPDATE / animation_->getChannels()                          *)
KeysPerPage == MaxKeysOnUpdate \div NChannels

(* The widths suffice for a full page.                                     *)
ASSUME KeyframeDataAssumption ==
  /\ NChannels \in Nat \ {0} /\ MaxKeysOnUpdate \in Nat
  /\ CountMod \in Nat /\ OffsetMod \in Nat
  /\ NChannels <= CountMod /\ MaxKeysOnUpdate < CountMod
  /\ IndexBytes * NChannels + KeyBytes * MaxKeysOnUpdate < OffsetMod

Page == {list \in [Channel -> Seq(Key)] :
           \A ch \in Channel : Len(list[ch]) <= KeysPerPage}

VARIABLES
  step,       \* where the constructor is
  chKeys,     \* its argument
  nChannels_, \* channels counted
  nKeys,      \* keys counted
  data_,      \* the buffer; its size is size_
  chNumber,   \* the channel that is written, ...
  keyIndex,   \* keys written, ...
  it,         \* and those of this channel
  first       \* history: keys counted before each channel

countVars == <<nChannels_, nKeys, first>>
writeVars == <<data_, chNumber, keyIndex, it>>
bufferVars == <<step, chKeys, countVars, writeVars>>

Empty == [ch \in Channel |-> << >>]

BufferInit ==
  /\ step = "idle" /\ chKeys = Empty
  /\ nChannels_ = 0 /\ nKeys = 0 /\ first = [ch \in 0 .. NChannels |-> 0]
  /\ data_ = << >> /\ chNumber = 0 /\ keyIndex = 0 /\ it = 0
------------------------------------------------------------------------------
Construct(list) ==
  /\ step = "idle"
  /\ step' = "counting"
  /\ chKeys' = list
  /\ nChannels_' = 0 /\ nKeys' = 0 /\ first' = [ch \in 0 .. NChannels |-> 0]
  /\ UNCHANGED writeVars

(* numberOfBytes_multi()                                                   *)
Count ==
  /\ step = "counting" /\ nChannels_ < NChannels
  /\ nKeys' = nKeys + Len(chKeys[nChannels_])
  /\ nChannels_' = nChannels_ + 1
  /\ first' = [first EXCEPT ![nChannels_ + 1] = nKeys']
  /\ UNCHANGED <<step, chKeys, writeVars>>

AllocateKeysOnly ==
  /\ step = "counting" /\ nChannels_ = NChannels
  /\ step' = "indexing"
  /\ data_' = [a \in 0 .. KeyBytes * nKeys - 1 |-> Uninitialised]
  /\ chNumber' = 0 /\ keyIndex' = 0 /\ it' = 0
  /\ UNCHANGED <<chKeys, countVars>>

Allocate ==
  /\ step = "counting" /\ nChannels_ = NChannels
  /\ step' = "indexing"
  /\ data_' = [a \in 0 .. IndexBytes * nChannels_ + KeyBytes * nKeys - 1 |->
                 Uninitialised]
  /\ chNumber' = 0 /\ keyIndex' = 0 /\ it' = 0
  /\ UNCHANGED <<chKeys, countVars>>

(* initializeChannelData_multi()                                           *)
StartKeysIndex == IndexBytes * nChannels_

WriteIndexFromZero ==
  /\ step = "indexing" /\ chNumber < NChannels
  /\ LET index == IndexBytes * chNumber
         counted == Put(data_, index, Len(chKeys[chNumber]) % CountMod, 1)
         named == Put(counted, index + 1, chNumber % CountMod, 1)
     IN  data_' = Put(named, index + 2, (KeyBytes * keyIndex) % OffsetMod, 2)
  /\ it' = 0
  /\ step' = "copying"
  /\ UNCHANGED <<chKeys, countVars, chNumber, keyIndex>>

WriteIndex ==
  /\ step = "indexing" /\ chNumber < NChannels
  /\ LET index == IndexBytes * chNumber
         offset == KeyBytes * keyIndex + StartKeysIndex
         counted == Put(data_, index, Len(chKeys[chNumber]) % CountMod, 1)
         named == Put(counted, index + 1, chNumber % CountMod, 1)
     IN  data_' = Put(named, index + 2, offset % OffsetMod, 2)
  /\ it' = 0
  /\ step' = "copying"
  /\ UNCHANGED <<chKeys, countVars, chNumber, keyIndex>>

CopyKey ==
  /\ step = "copying" /\ it < Len(chKeys[chNumber])
  /\ data_' = Put(data_, StartKeysIndex + KeyBytes * keyIndex,
                  chKeys[chNumber][it + 1], KeyBytes)
  /\ keyIndex' = keyIndex + 1 /\ it' = it + 1
  /\ UNCHANGED <<step, chKeys, countVars, chNumber>>

EndList ==
  /\ step = "copying" /\ it = Len(chKeys[chNumber])
  /\ chNumber' = chNumber + 1
  /\ step' = IF chNumber' = NChannels THEN "built" ELSE "indexing"
  /\ UNCHANGED <<chKeys, countVars, data_, keyIndex, it>>

Release ==
  /\ step = "built"
  /\ step' = "idle"
  /\ UNCHANGED <<chKeys, countVars, writeVars>>

Build == Count \/ Allocate \/ WriteIndex \/ CopyKey \/ EndList

BufferNext == Build \/ Release \/ \E list \in Page : Construct(list)

BufferSpec == BufferInit /\ [][BufferNext]_bufferVars
------------------------------------------------------------------------------
(* The bytes of one list alone: its length, then its keys.                 *)
Single(list) ==
  [a \in 0 .. KeyBytes * Len(list) |->
     IF a = 0
       THEN Byte(Len(list) % CountMod, 0, 1)
       ELSE Byte(list[((a - 1) \div KeyBytes) + 1], (a - 1) % KeyBytes,
                 KeyBytes)]

(* What a node inserts of either: parseKeyframes_tcp() and, for the node's *)
(* channel, parseAndAddKeyframes().  Their casts need no model of sizes:   *)
(* both sides agree on them.                                               *)
KeysAt(buffer, address, n) ==
  [j \in 1 .. n |-> Get(buffer, address + KeyBytes * (j - 1), KeyBytes)]

ReadSingle(buffer) == KeysAt(buffer, 1, Get(buffer, 0, 1))

ReadPage(buffer, ch) ==
  LET myIndexOffset == IndexBytes * ch
      nKeysRead == Get(buffer, myIndexOffset, 1)
      keys_offset == Get(buffer, myIndexOffset + 2, 2)
      dataOffset == keys_offset - myIndexOffset - IndexBytes
  IN  KeysAt(buffer, myIndexOffset + IndexBytes + dataOffset, nKeysRead)
------------------------------------------------------------------------------
(* Every byte that the constructor writes next lies in the buffer that it  *)
(* allocated before: the pass that counts and the one that writes agree.   *)
WritesStayInTheBuffer ==
  /\ step = "indexing" /\ chNumber < NChannels =>
       IndexBytes * chNumber .. IndexBytes * chNumber + IndexBytes - 1
         \subseteq DOMAIN data_
  /\ step = "copying" /\ it < Len(chKeys[chNumber]) =>
       StartKeysIndex + KeyBytes * keyIndex ..
         StartKeysIndex + KeyBytes * keyIndex + KeyBytes - 1
           \subseteq DOMAIN data_

(* In a finished page a node finds exactly the keys of its channel, in     *)
(* order, whatever the other channels have.                                *)
NodesReadTheirKeys ==
  step = "built" =>
    \A ch \in Channel : ReadPage(data_, ch) = chKeys[ch]
=============================================================================
