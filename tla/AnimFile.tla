------------------------------ MODULE AnimFile ------------------------------
(***************************************************************************)
(* Where an animation comes from: the file that the Blender exporter       *)
(* writes (SaveKeyframeFile in blender/ext2.py) and FileAnimation reads,   *)
(* or CircleAnimation.  A key is its time; the exporter's curves are       *)
(* here lists of times already, with values that fit their bytes.          *)
(*                                                                         *)
(*   channels | keys of each channel, 4 bytes | key, 7 bytes | ...         *)
(***************************************************************************)
EXTENDS Bytes, SequencesExt

RecordBytes == 7   \* "<IBBB", Keyframe_pck
CountBytes == 4    \* "<I", uint32_t

KeysStartWithoutHeader(channels) == channels * CountBytes

KeysStart(channels) == channels * CountBytes + 1

(* As the exporter writes it: the keys of one group after the other, then  *)
(* their numbers at offset 1.                                              *)
Save(lists, channels) ==
  LET keys == FlattenSeq([i \in 1 .. channels |-> lists[i - 1]])
      start == KeysStart(channels)
  IN  [a \in 0 .. start + RecordBytes * Len(keys) - 1 |->
         IF a = 0 THEN Byte(channels, 0, 1)
         ELSE IF a < start
           THEN Byte(Len(lists[(a - 1) \div CountBytes]),
                     (a - 1) % CountBytes, CountBytes)
         ELSE Byte(keys[(a - start) \div RecordBytes + 1],
                   (a - start) % RecordBytes, RecordBytes)]

(* Where a reader that goes from front to back is in the file before each  *)
(* channel's keys.                                                         *)
Positions(nChannels, keyframes) ==
  LET position[ch \in 0 .. nChannels] ==
        IF ch = 0 THEN 1 + CountBytes * nChannels
        ELSE position[ch - 1] + RecordBytes * keyframes[ch - 1]
  IN  position

(* FileAnimation::FileAnimation()                                          *)
Load(file) ==
  LET nChannels == Get(file, 0, 1)
      keyframes == [ch \in 0 .. nChannels - 1 |->
                      Get(file, 1 + CountBytes * ch, CountBytes)]
      position == Positions(nChannels, keyframes)
  IN  [ch \in 0 .. nChannels - 1 |->
         [k \in 1 .. keyframes[ch] |->
            Get(file, position[ch] + RecordBytes * (k - 1), RecordBytes)]]

(* CircleAnimation::CircleAnimation(): every channel has a key whenever    *)
(* the light moves on.                                                     *)
Circle(channels, interval) ==
  [ch \in 0 .. channels - 1 |->
     [j \in 1 .. channels + 1 |-> interval * (j - 1)]]
=============================================================================
