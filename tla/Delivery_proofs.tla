--------------------------- MODULE Delivery_proofs ---------------------------
(***************************************************************************)
(* Proofs about KeyframeData, AnimFile and Delivery, for any number of     *)
(* channels, one key or more in each, and any sizes of pages and packets   *)
(* that the widths of the formats allow:                                   *)
(*                                                                         *)
(*  - the constructor of KeyframeData writes inside its buffer only, and   *)
(*    every node finds exactly its keys in what it wrote: the sums of the  *)
(*    counting pass, `first', are where the writing pass is when it        *)
(*    reaches a channel, and they grow with the channel, so that what is   *)
(*    written later overwrites nothing;                                    *)
(*  - what FileAnimation reads is what the exporter wrote: the reader's    *)
(*    position before a channel is the end of the keys written before it;  *)
(*  - when the play thread is done, each node has inserted all the keys of *)
(*    its channel, once and in order: what was handed out is what was      *)
(*    received, what is in the packets that are still to be sent and, in   *)
(*    between, what is in the buffer.                                      *)
(***************************************************************************)
EXTENDS Delivery, SequenceTheorems, TLAPS

P == INSTANCE BaseAnimation_proofs
       WITH Animation <- Drawn \cup {Circle(NChannels, 1)},
            PageSize <- {N_KEYS_ON_INIT, KeysPerPage}, Garbage <- Garbage
------------------------------------------------------------------------------
(* The built-in circle is an animation.                                    *)
LEMMA CircleIsFine ==
  LET circle == Circle(NChannels, 1)
  IN  /\ circle \in [Channel -> Seq(Key)]
      /\ \A ch \in Channel :
           /\ Len(circle[ch]) = NChannels + 1
           /\ \A j \in 1 .. NChannels + 1 : circle[ch][j] = j - 1
<1> DEFINE line == [j \in 1 .. NChannels + 1 |-> 1 * (j - 1)]
<1>1. NChannels \in Nat /\ KEYTIME_MAX \in Nat /\ NChannels < KEYTIME_MAX
  BY KeyframeDataAssumption, DeliveryAssumption
<1>2. \A j \in 1 .. NChannels + 1 : line[j] = j - 1 /\ j - 1 \in Key
  BY <1>1, DeliveryAssumption
<1>3. line \in Seq(Key) /\ Len(line) = NChannels + 1
  <2>1. line \in [1 .. NChannels + 1 -> Key] /\ NChannels + 1 \in Nat
    BY <1>1, <1>2
  <2> HIDE DEF line
  <2> QED
    BY <2>1
<1>4. Circle(NChannels, 1) = [ch \in Channel |-> line]
  BY DEF Circle, Channel
<1> HIDE DEF line
<1> QED
  BY <1>2, <1>3, <1>4

LEMMA AnimationIsFine == P!AnimationAssumption
<1>1. /\ KEYTIME_MAX \in Nat \ {0} /\ SIZE_MAX \in Nat
      /\ {N_KEYS_ON_INIT, KeysPerPage} \subseteq 1 .. SIZE_MAX
  BY DeliveryAssumption
<1>2. P!Time = Key
  BY DeliveryAssumption DEF P!Time
<1>3. Drawn \cup {Circle(NChannels, 1)} \subseteq [Channel -> Seq(P!Time)]
  BY <1>2, CircleIsFine, DeliveryAssumption
<1>4. ASSUME NEW a \in Drawn \cup {Circle(NChannels, 1)}, NEW ch \in Channel
      PROVE  P!Sorted(a[ch]) /\ Len(a[ch]) < SIZE_MAX
  <2>1. CASE a \in Drawn
    BY <2>1, DeliveryAssumption DEF P!Sorted
  <2>2. CASE a = Circle(NChannels, 1)
    <3>1. /\ Len(a[ch]) = NChannels + 1
          /\ \A j \in 1 .. NChannels + 1 : a[ch][j] = j - 1
      BY <2>2, CircleIsFine
    <3>2. P!Sorted(a[ch])
      BY <3>1, KeyframeDataAssumption DEF P!Sorted
    <3> QED
      BY <3>1, <3>2, DeliveryAssumption
  <2> QED
    BY <2>1, <2>2
<1> QED
  BY <1>1, <1>3, <1>4

LEMMA ChannelsHaveKeys == P!NonEmptyChannels
BY CircleIsFine, DeliveryAssumption, KeyframeDataAssumption DEF P!NonEmptyChannels
------------------------------------------------------------------------------
(* KeyframeData: the invariant of the constructor.                          *)
Offset(ch) == IndexBytes * NChannels + KeyBytes * first[ch]

TypeInv ==
  /\ step \in {"idle", "counting", "indexing", "copying", "built"}
  /\ chKeys \in Page
  /\ nChannels_ \in 0 .. NChannels
  /\ nKeys \in Nat
  /\ first \in [0 .. NChannels -> Nat]
  /\ chNumber \in 0 .. NChannels /\ keyIndex \in Nat /\ it \in Nat

Sums ==
  /\ first[0] = 0 /\ nKeys = first[nChannels_]
  /\ \A c \in 0 .. nChannels_ - 1 : first[c + 1] = first[c] + Len(chKeys[c])
  /\ \A c, d \in 0 .. nChannels_ : c <= d => first[c] <= first[d]
  /\ \A c \in 0 .. nChannels_ : first[c] <= c * KeysPerPage

Place ==
  /\ nChannels_ = NChannels
  /\ DOMAIN data_ = 0 .. IndexBytes * NChannels + KeyBytes * nKeys - 1
  /\ step = "indexing" => chNumber < NChannels /\ keyIndex = first[chNumber]
  /\ step = "copying" => /\ chNumber < NChannels
                         /\ keyIndex = first[chNumber] + it
                         /\ it <= Len(chKeys[chNumber])
  /\ step = "built" => chNumber = NChannels

IndexWritten(c) ==
  /\ data_[IndexBytes * c] = Byte(Len(chKeys[c]), 0, 1)
  /\ data_[IndexBytes * c + 2] = Byte(Offset(c), 0, 2)
  /\ data_[IndexBytes * c + 3] = Byte(Offset(c), 1, 2)

KeyWritten(c, j) ==
  \A i \in 0 .. KeyBytes - 1 :
    data_[Offset(c) + KeyBytes * j + i] = Byte(chKeys[c][j + 1], i, KeyBytes)

Layout ==
  /\ \A c \in Channel :
       c < chNumber \/ (c = chNumber /\ step = "copying") => IndexWritten(c)
  /\ \A c \in Channel : \A j \in 0 .. Len(chKeys[c]) - 1 :
       c < chNumber \/ (c = chNumber /\ step = "copying" /\ j < it)
         => KeyWritten(c, j)

Writing == step \in {"indexing", "copying", "built"}

BufferInv ==
  /\ TypeInv
  /\ step # "idle" => Sums
  /\ Writing => Place /\ Layout
------------------------------------------------------------------------------
(* A page of all channels holds at most MAX_KEYS_ON_UPDATE keys.           *)
LEMMA PageIsFull ==
  /\ KeysPerPage \in Nat
  /\ NChannels * KeysPerPage <= MaxKeysOnUpdate
  /\ \A c \in 0 .. NChannels - 1 : (c + 1) * KeysPerPage = c * KeysPerPage + KeysPerPage
  /\ \A c \in 0 .. NChannels : c * KeysPerPage <= NChannels * KeysPerPage
<1>1. KeysPerPage \in Nat
  BY KeyframeDataAssumption DEF KeysPerPage
<1>2. NChannels * KeysPerPage <= MaxKeysOnUpdate
  BY KeyframeDataAssumption DEF KeysPerPage
<1>3. \A n, p \in Nat : (n + 1) * p = n * p + p
  OBVIOUS
<1>4. \A m, n, p \in Nat : m <= n => m * p <= n * p
  OBVIOUS
<1> QED
  BY <1>1, <1>2, <1>3, <1>4, KeyframeDataAssumption

(* Writing a value changes the bytes it takes and no other.                *)
LEMMA PutWrites ==
  ASSUME NEW buffer, NEW address \in Int, NEW value, NEW width \in Nat
  PROVE  /\ DOMAIN Put(buffer, address, value, width) = DOMAIN buffer
         /\ \A a \in DOMAIN buffer :
              a \in address .. address + width - 1 =>
                Put(buffer, address, value, width)[a]
                  = Byte(value, a - address, width)
         /\ \A a \in DOMAIN buffer :
              a \notin address .. address + width - 1 =>
                Put(buffer, address, value, width)[a] = buffer[a]
BY DEF Put

(* A value whose bytes are all there is read back.                         *)
LEMMA GetReads ==
  ASSUME NEW buffer, NEW address \in Int, NEW value, NEW width \in Nat \ {0},
         \A i \in 0 .. width - 1 :
           /\ address + i \in DOMAIN buffer
           /\ buffer[address + i] = Byte(value, i, width)
  PROVE  Get(buffer, address, width) = value
<1>1. buffer[address] = Byte(value, 0, width)
  <2>1. 0 \in 0 .. width - 1 /\ address + 0 = address
    OBVIOUS
  <2> QED
    BY <2>1
<1>2. buffer[address].of = value
  BY <1>1 DEF Byte
<1> QED
  BY <1>2 DEF Get

(* A value of so many bytes is at an address.                              *)
Holds(buffer, address, value, width) ==
  \A i \in 0 .. width - 1 :
    /\ address + i \in DOMAIN buffer
    /\ buffer[address + i] = Byte(value, i, width)

LEMMA HeldIsRead ==
  ASSUME NEW buffer, NEW address \in Int, NEW value, NEW width \in Nat \ {0},
         Holds(buffer, address, value, width)
  PROVE  Get(buffer, address, width) = value
BY GetReads DEF Holds

LEMMA Addresses ==
  \A n, b, k, p \in Int :
    p = 1 + 4 * n + 7 * b =>
      /\ p + 7 * (k - 1) = 1 + 4 * n + 7 * ((b + k) - 1)
      /\ p + 7 * (k - 1) \in Int
OBVIOUS

(* The bytes of the file that the exporter leaves: header, table and keys. *)
FileHolds(file, lists, keys) ==
  /\ Holds(file, 0, NChannels, 1)
  /\ \A c \in Channel : Holds(file, 1 + 4 * c, Len(lists[c]), 4)
  /\ \A k \in 1 .. Len(keys) :
       Holds(file, 1 + 4 * NChannels + 7 * (k - 1), keys[k], 7)

(* A list in the page.                                                     *)
LEMMA ListInPage ==
  ASSUME TypeInv, NEW c \in Channel
  PROVE  /\ chKeys[c] \in Seq(Key) /\ Len(chKeys[c]) \in Nat
         /\ Len(chKeys[c]) <= KeysPerPage
<1>1. chKeys[c] \in Seq(Key) /\ Len(chKeys[c]) <= KeysPerPage
  BY DEF TypeInv, Page
<1> QED
  BY <1>1

(* Where the parts of the buffer lie when a channel is written: the index  *)
(* before the keys, and all of it inside.                                  *)
LEMMA Bounds ==
  ASSUME TypeInv, Sums, nChannels_ = NChannels
  PROVE  /\ nKeys <= MaxKeysOnUpdate
         /\ \A c \in Channel :
              /\ first[c] \in Nat /\ first[c + 1] \in Nat
              /\ first[c + 1] = first[c] + Len(chKeys[c])
              /\ first[c] + Len(chKeys[c]) <= nKeys
              /\ Offset(c) \in Nat /\ Offset(c) < OffsetMod
              /\ Len(chKeys[c]) \in Nat /\ Len(chKeys[c]) < CountMod
         /\ \A c, d \in Channel : c < d => first[c] + Len(chKeys[c]) <= first[d]
<1>1. nKeys <= MaxKeysOnUpdate
  <2>1. first[NChannels] <= NChannels * KeysPerPage
    BY KeyframeDataAssumption DEF Sums
  <2> QED
    BY <2>1, PageIsFull, KeyframeDataAssumption DEF Sums, TypeInv
<1>2. ASSUME NEW c \in Channel
      PROVE  /\ first[c] \in Nat /\ first[c + 1] \in Nat
             /\ first[c + 1] = first[c] + Len(chKeys[c])
             /\ first[c + 1] <= nKeys
             /\ Len(chKeys[c]) \in Nat
             /\ Len(chKeys[c]) <= KeysPerPage
  <2>1. c \in 0 .. NChannels /\ c + 1 \in 0 .. NChannels /\ c \in 0 .. NChannels - 1
    BY KeyframeDataAssumption DEF Channel
  <2>2. first[c] \in Nat /\ first[c + 1] \in Nat
    BY <2>1 DEF TypeInv
  <2>3. first[c + 1] = first[c] + Len(chKeys[c])
    BY <2>1 DEF Sums
  <2>4. first[c + 1] <= first[NChannels]
    BY <2>1, KeyframeDataAssumption DEF Sums
  <2> QED
    BY <2>2, <2>3, <2>4, ListInPage DEF Sums
<1>3. ASSUME NEW c \in Channel
      PROVE  /\ Offset(c) \in Nat /\ Offset(c) < OffsetMod
             /\ Len(chKeys[c]) < CountMod
             /\ first[c] + Len(chKeys[c]) <= nKeys
  <2>1. nKeys \in Nat
    BY DEF TypeInv
  <2>2. first[c] + Len(chKeys[c]) <= nKeys
    BY <1>2
  <2>3. Len(chKeys[c]) < CountMod
    BY <2>1, <2>2, <1>1, <1>2, KeyframeDataAssumption
  <2>4. first[c] \in Nat /\ first[c] <= MaxKeysOnUpdate
    BY <2>1, <2>2, <1>1, <1>2, KeyframeDataAssumption
  <2>5. Offset(c) \in Nat /\ Offset(c) < OffsetMod
    BY <2>4, KeyframeDataAssumption DEF Offset, IndexBytes, KeyBytes
  <2> QED
    BY <2>2, <2>3, <2>5
<1>4. ASSUME NEW c \in Channel, NEW d \in Channel, c < d
      PROVE  first[c] + Len(chKeys[c]) <= first[d]
  <2>1. c + 1 \in 0 .. nChannels_ /\ d \in 0 .. nChannels_ /\ c + 1 <= d
    BY <1>4, KeyframeDataAssumption DEF Channel
  <2>2. first[c + 1] <= first[d]
    BY <2>1 DEF Sums
  <2> QED
    BY <2>2, <1>2
<1> QED
  BY <1>1, <1>2, <1>3, <1>4

LEMMA Widths == \A m, n \in Nat : m < n => m % n = m
OBVIOUS

LEMMA KeyArithmetic ==
  ASSUME NEW base \in Nat, NEW f \in Nat, NEW j \in Nat, NEW i \in 0 .. 6
  PROVE  /\ 7 * (f + j) = 7 * f + 7 * j
         /\ base + 7 * f + 7 * j + i \in Nat
         /\ base + 7 * f + 7 * j + i >= base
         /\ \A k \in Nat : f + j + 1 <= k => base + 7 * f + 7 * j + i < base + 7 * k
OBVIOUS

(* Byte i of key j of a channel: between the indexes and the end, and      *)
(* before the place of every key that is counted later.                    *)
LEMMA KeyAddress ==
  ASSUME TypeInv, Sums, Place, NEW c \in Channel,
         NEW j \in 0 .. Len(chKeys[c]) - 1, NEW i \in 0 .. KeyBytes - 1
  PROVE  /\ Offset(c) + KeyBytes * j + i \in DOMAIN data_
         /\ Offset(c) + KeyBytes * j + i >= IndexBytes * NChannels
         /\ \A k \in Nat : first[c] + j + 1 <= k =>
              Offset(c) + KeyBytes * j + i < IndexBytes * NChannels + KeyBytes * k
<1>1. /\ first[c] \in Nat /\ Len(chKeys[c]) \in Nat /\ nKeys \in Nat
      /\ first[c] + Len(chKeys[c]) <= nKeys
  BY Bounds DEF Place, TypeInv
<1>2. j \in Nat /\ i \in 0 .. 6 /\ first[c] + j + 1 <= nKeys
  BY <1>1 DEF KeyBytes
<1>3. IndexBytes * NChannels \in Nat
  BY KeyframeDataAssumption DEF IndexBytes
<1> DEFINE base == IndexBytes * NChannels
           address == base + 7 * first[c] + 7 * j + i
<1>4. address \in Nat /\ address >= base
      /\ \A k \in Nat : first[c] + j + 1 <= k => address < base + 7 * k
  <2> DEFINE f == first[c]
  <2>1. f \in Nat /\ base \in Nat
    BY <1>1, <1>3
  <2> HIDE DEF base, f
  <2>2. /\ base + 7 * f + 7 * j + i \in Nat
        /\ base + 7 * f + 7 * j + i >= base
        /\ \A k \in Nat :
             f + j + 1 <= k => base + 7 * f + 7 * j + i < base + 7 * k
    BY <2>1, <1>2, KeyArithmetic
  <2> QED
    BY <2>2 DEF f
<1>5. address = Offset(c) + KeyBytes * j + i
  BY DEF Offset, KeyBytes
<1>6. DOMAIN data_ = 0 .. base + 7 * nKeys - 1
  BY DEF Place, KeyBytes
<1>7. address \in DOMAIN data_
  <2>1. address < base + 7 * nKeys
    BY <1>1, <1>2, <1>4
  <2>2. 7 * nKeys \in Nat /\ base \in Nat
    BY <1>1, <1>3
  <2> HIDE DEF address, base
  <2> QED
    BY <2>1, <2>2, <1>3, <1>4, <1>6
<1> HIDE DEF address
<1> QED
  BY <1>4, <1>5, <1>7 DEF KeyBytes

LEMMA InitIsFine == BufferInit => BufferInv
<1> SUFFICES ASSUME BufferInit PROVE BufferInv
  OBVIOUS
<1>1. chKeys \in Page
  <2>1. \A ch \in Channel : Empty[ch] \in Seq(Key) /\ Len(Empty[ch]) <= KeysPerPage
    BY PageIsFull DEF Empty
  <2> QED
    BY <2>1 DEF BufferInit, Page, Empty
<1>2. TypeInv
  BY <1>1, KeyframeDataAssumption DEF BufferInit, TypeInv
<1> QED
  BY <1>2 DEF BufferInit, BufferInv, Writing

LEMMA ConstructKeeps ==
  ASSUME BufferInv, NEW lists \in Page, Construct(lists)
  PROVE  BufferInv'
<1>1. TypeInv'
  BY KeyframeDataAssumption DEF BufferInv, TypeInv, Construct, writeVars
<1>2. Sums'
  BY PageIsFull, KeyframeDataAssumption DEF Sums, Construct
<1>3. step' = "counting"
  BY DEF Construct
<1> QED
  BY <1>1, <1>2, <1>3 DEF BufferInv, Writing

LEMMA CountKeeps ==
  ASSUME BufferInv, Count
  PROVE  BufferInv'
<1> DEFINE n == nChannels_
<1> USE DEF Count
<1>1. n \in Channel /\ n \in 0 .. NChannels /\ n + 1 \in 0 .. NChannels /\ n + 1 # n
  BY KeyframeDataAssumption DEF BufferInv, TypeInv, Channel
<1>2. Len(chKeys[n]) \in Nat /\ Len(chKeys[n]) <= KeysPerPage
  BY <1>1, ListInPage DEF BufferInv
<1>3. Sums
  BY DEF BufferInv
<1>4. TypeInv'
  <2>1. nKeys' \in Nat
    BY <1>2 DEF BufferInv, TypeInv
  <2> QED
    BY <1>1, <2>1 DEF BufferInv, TypeInv, writeVars
<1>5. Sums'
  <2>1. /\ first'[n + 1] = nKeys + Len(chKeys[n])
        /\ \A c \in 0 .. n : first'[c] = first[c] /\ first[c] \in Nat
    <3>1. first \in [0 .. NChannels -> Nat] /\ n \in Nat /\ NChannels \in Nat
      BY KeyframeDataAssumption DEF BufferInv, TypeInv
    <3>2. first' = [first EXCEPT ![n + 1] = nKeys + Len(chKeys[n])]
      OBVIOUS
    <3>3. ASSUME NEW c \in 0 .. n
          PROVE  first'[c] = first[c] /\ first[c] \in Nat
      <4>1. c \in 0 .. NChannels /\ c # n + 1
        BY <1>1, <3>1
      <4> HIDE DEF n, Count
      <4> QED
        BY <3>1, <3>2, <4>1
    <3>4. first'[n + 1] = nKeys + Len(chKeys[n])
      BY <1>1, <3>1, <3>2
    <3> QED
      BY <3>3, <3>4
  <2>2. first'[n + 1] = first[n] + Len(chKeys[n])
    BY <2>1, <1>3 DEF Sums
  <2>3. first'[0] = 0 /\ nKeys' = first'[nChannels_']
    BY <1>1, <1>3, <2>1 DEF Sums
  <2>4. ASSUME NEW c \in 0 .. nChannels_' - 1
        PROVE  first'[c + 1] = first'[c] + Len(chKeys'[c])
    <3>1. CASE c = n
      BY <3>1, <2>1, <2>2, <1>1
    <3>2. CASE c \in 0 .. n - 1
      <4>1. first'[c + 1] = first[c + 1] /\ first'[c] = first[c]
        BY <3>2, <2>1, <1>1
      <4> QED
        BY <3>2, <4>1, <1>3 DEF Sums
    <3> QED
      BY <3>1, <3>2, <1>1
  <2>5. ASSUME NEW c \in 0 .. nChannels_', NEW d \in 0 .. nChannels_', c <= d
        PROVE  first'[c] <= first'[d]
    <3>1. CASE d \in 0 .. n
      BY <3>1, <2>1, <2>5, <1>1, <1>3 DEF Sums
    <3>2. CASE d = n + 1 /\ c \in 0 .. n
      <4>1. first[c] <= first[n] /\ first[n] \in Nat
        BY <3>2, <1>1, <1>3, <2>1 DEF Sums
      <4> QED
        BY <4>1, <3>2, <2>1, <2>2, <1>2
    <3>3. CASE d = n + 1 /\ c = n + 1
      BY <3>3, <2>1, <2>2, <1>2, <1>1
    <3> QED
      BY <3>1, <3>2, <3>3, <1>1
  <2>6. ASSUME NEW c \in 0 .. nChannels_'
        PROVE  first'[c] <= c * KeysPerPage
    <3>1. CASE c \in 0 .. n
      BY <3>1, <2>1, <1>1, <1>3 DEF Sums
    <3>2. CASE c = n + 1
      <4>1. first[n] <= n * KeysPerPage /\ first[n] \in Nat
        BY <1>1, <1>3, <2>1 DEF Sums
      <4>2. (n + 1) * KeysPerPage = n * KeysPerPage + KeysPerPage
        BY <1>1, PageIsFull DEF Channel
      <4>3. n * KeysPerPage \in Nat
        BY <1>1, PageIsFull
      <4> HIDE DEF n
      <4> QED
        BY <4>1, <4>2, <4>3, <3>2, <2>2, <1>2, PageIsFull
    <3> QED
      BY <3>1, <3>2, <1>1
  <2> QED
    BY <2>3, <2>4, <2>5, <2>6 DEF Sums
<1>6. step' = "counting"
  OBVIOUS
<1> QED
  BY <1>4, <1>5, <1>6 DEF BufferInv, Writing

LEMMA AllocateKeeps ==
  ASSUME BufferInv, Allocate
  PROVE  BufferInv'
<1> USE DEF Allocate
<1>1. TypeInv'
  BY KeyframeDataAssumption DEF BufferInv, TypeInv, countVars
<1>2. Sums'
  BY DEF BufferInv, Sums, countVars
<1>3. Place'
  BY KeyframeDataAssumption DEF Place, BufferInv, Sums, TypeInv, countVars
<1>4. Layout'
  BY DEF Layout, Channel
<1> QED
  BY <1>1, <1>2, <1>3, <1>4 DEF BufferInv

(* An index that is written where it belongs, in a channel's turn: it lies *)
(* behind the earlier indexes and before every key.                        *)
LEMMA WriteIndexKeeps ==
  ASSUME BufferInv, WriteIndex
  PROVE  BufferInv'
<1> DEFINE n == chNumber
           index == IndexBytes * n
           counted == Put(data_, index, Len(chKeys[n]), 1)
           named == Put(counted, index + 1, n % CountMod, 1)
<1>1. /\ TypeInv /\ Sums /\ Place /\ Layout
      /\ step = "indexing" /\ n < NChannels /\ nChannels_ = NChannels
      /\ NChannels \in Nat
  BY KeyframeDataAssumption DEF WriteIndex, BufferInv, Writing, Place
<1>2. n \in Channel /\ n \in Nat /\ index \in Nat
  BY <1>1, KeyframeDataAssumption DEF TypeInv, Channel, IndexBytes
<1>3. /\ step' = "copying" /\ it' = 0
      /\ chKeys' = chKeys /\ nChannels_' = nChannels_ /\ nKeys' = nKeys
      /\ first' = first /\ chNumber' = chNumber /\ keyIndex' = keyIndex
  BY DEF WriteIndex, countVars
<1>4. data_' = Put(named, index + 2, Offset(n), 2)
  <2>1. Len(chKeys[n]) % CountMod = Len(chKeys[n])
    BY <1>1, <1>2, Bounds, Widths, KeyframeDataAssumption
  <2>2. KeyBytes * keyIndex + StartKeysIndex = Offset(n)
    BY <1>1, <1>2, Bounds DEF StartKeysIndex, Offset, Place, KeyBytes, IndexBytes
  <2>3. Offset(n) % OffsetMod = Offset(n)
    BY <1>1, <1>2, Bounds, Widths, KeyframeDataAssumption
  <2> QED
    BY <2>1, <2>2, <2>3 DEF WriteIndex
<1>5. DOMAIN data_' = DOMAIN data_
  BY <1>2, <1>4, PutWrites
<1>6. /\ \A a \in DOMAIN data_ \ (index .. index + 3) : data_'[a] = data_[a]
      /\ index \in DOMAIN data_ => data_'[index] = Byte(Len(chKeys[n]), 0, 1)
      /\ \A a \in DOMAIN data_ :
           a \in index + 2 .. index + 3 =>
             data_'[a] = Byte(Offset(n), a - (index + 2), 2)
  <2>1. /\ DOMAIN counted = DOMAIN data_
        /\ \A a \in DOMAIN data_ : a # index => counted[a] = data_[a]
        /\ index \in DOMAIN data_ =>
             counted[index] = Byte(Len(chKeys[n]), 0, 1)
    <3>1. index .. index + 1 - 1 = {index} /\ index - index = 0
      BY <1>2
    <3> HIDE DEF index
    <3> QED
      BY <3>1, <1>2, PutWrites
  <2>2. /\ DOMAIN named = DOMAIN data_
        /\ \A a \in DOMAIN data_ : a # index + 1 => named[a] = counted[a]
    <3>1. (index + 1) .. (index + 1) + 1 - 1 = {index + 1}
      BY <1>2
    <3> HIDE DEF index, counted
    <3> QED
      BY <3>1, <2>1, <1>2, PutWrites
  <2>3. \A a \in DOMAIN data_ :
          /\ a \in index + 2 .. index + 3 =>
               data_'[a] = Byte(Offset(n), a - (index + 2), 2)
          /\ a \notin index + 2 .. index + 3 => data_'[a] = named[a]
    <3>1. (index + 2) .. (index + 2) + 2 - 1 = index + 2 .. index + 3
      BY <1>2
    <3> HIDE DEF index, named
    <3> QED
      BY <3>1, <2>2, <1>2, <1>4, PutWrites
  <2>4. ASSUME NEW a \in DOMAIN data_, a \notin index .. index + 3
        PROVE  a # index /\ a # index + 1 /\ a \notin index + 2 .. index + 3
    BY <2>4, <1>2
  <2>5. index # index + 1 /\ index \notin index + 2 .. index + 3
    BY <1>2
  <2> HIDE DEF index, named, counted
  <2> QED
    BY <2>1, <2>2, <2>3, <2>4, <2>5
<1>7. \A c \in Channel : /\ Offset(c)' = Offset(c) /\ Offset(c) \in Nat
                         /\ Offset(c) >= IndexBytes * NChannels
  BY <1>1, <1>3, Bounds DEF Offset, IndexBytes, KeyBytes
<1>8. TypeInv'
  BY <1>1, <1>3 DEF TypeInv
<1>9. Sums'
  BY <1>1, <1>3 DEF Sums
<1>10. Place'
  BY <1>1, <1>2, <1>3, <1>5, Bounds DEF Place, TypeInv
<1>11. \A c \in Channel : index .. index + 3 \subseteq DOMAIN data_
  <2>1. nKeys \in Nat /\ index + 4 <= IndexBytes * NChannels
    BY <1>1, <1>2 DEF TypeInv, IndexBytes
  <2> QED
    BY <2>1, <1>1, <1>2 DEF Place, IndexBytes, KeyBytes
<1>12. ASSUME NEW c \in Channel, c < n \/ c = n
       PROVE  IndexWritten(c)'
  <2>1. CASE c < n
    <3>1. IndexWritten(c)
      BY <2>1, <1>1 DEF Layout
    <3>2. c \in Nat /\ IndexBytes * c + 3 < index
      BY <2>1, <1>2 DEF Channel, IndexBytes
    <3>3. \A i \in 0 .. 3 : IndexBytes * c + i \in DOMAIN data_ \ (index .. index + 3)
      BY <3>2, <1>1, <1>2 DEF Place, IndexBytes, KeyBytes, TypeInv
    <3>4. \A i \in 0 .. 3 : data_'[IndexBytes * c + i] = data_[IndexBytes * c + i]
      BY <3>3, <1>6
    <3>5. IndexBytes * c + 0 = IndexBytes * c
      BY <3>2 DEF IndexBytes
    <3> QED
      BY <3>1, <3>4, <3>5, <1>3, <1>7 DEF IndexWritten
  <2>2. CASE c = n
    <3>1. index \in DOMAIN data_ /\ index + 2 \in DOMAIN data_ /\ index + 3 \in DOMAIN data_
      BY <1>2, <1>11
    <3>2. /\ index + 2 \in index + 2 .. index + 3 /\ (index + 2) - (index + 2) = 0
          /\ index + 3 \in index + 2 .. index + 3 /\ (index + 3) - (index + 2) = 1
      BY <1>2
    <3>3. /\ data_'[index] = Byte(Len(chKeys[n]), 0, 1)
          /\ data_'[index + 2] = Byte(Offset(n), 0, 2)
          /\ data_'[index + 3] = Byte(Offset(n), 1, 2)
      <4> HIDE DEF index
      <4> QED
        BY <3>1, <3>2, <1>6
    <3> QED
      BY <3>3, <2>2, <1>2, <1>3, <1>7 DEF IndexWritten
  <2> QED
    BY <2>1, <2>2, <1>12
<1>13. ASSUME NEW c \in Channel, NEW j \in 0 .. Len(chKeys[c]) - 1, c < n
       PROVE  KeyWritten(c, j)'
  <2>1. KeyWritten(c, j)
    BY <1>13, <1>1 DEF Layout
  <2>2. ASSUME NEW i \in 0 .. KeyBytes - 1
        PROVE  Offset(c) + KeyBytes * j + i \in DOMAIN data_ \ (index .. index + 3)
    <3>1. /\ Offset(c) + KeyBytes * j + i \in DOMAIN data_
          /\ Offset(c) + KeyBytes * j + i >= IndexBytes * NChannels
      BY <1>1, KeyAddress
    <3>2. index + 3 < IndexBytes * NChannels
      BY <1>1, <1>2 DEF IndexBytes
    <3>3. DOMAIN data_ \subseteq Int
      BY <1>1 DEF Place
    <3>4. ASSUME NEW a \in Int, a >= IndexBytes * NChannels
          PROVE  a \notin index .. index + 3
      BY <3>2, <3>4, <1>1, <1>2 DEF IndexBytes
    <3> QED
      BY <3>1, <3>3, <3>4
  <2> QED
    BY <2>1, <2>2, <1>3, <1>6, <1>7 DEF KeyWritten
<1>14. Layout'
  BY <1>2, <1>3, <1>12, <1>13 DEF Layout, Channel
<1> QED
  BY <1>8, <1>9, <1>10, <1>14 DEF BufferInv

(* A key is copied behind all indexes and all keys copied before.          *)
LEMMA CopyKeyKeeps ==
  ASSUME BufferInv, CopyKey
  PROVE  BufferInv'
<1> DEFINE n == chNumber
           start == StartKeysIndex + KeyBytes * keyIndex
<1>1. /\ TypeInv /\ Sums /\ Place /\ Layout
      /\ step = "copying" /\ n < NChannels /\ nChannels_ = NChannels
      /\ keyIndex = first[n] + it /\ it < Len(chKeys[n])
      /\ NChannels \in Nat /\ it \in Nat /\ keyIndex \in Nat
  BY KeyframeDataAssumption DEF CopyKey, BufferInv, Writing, Place, TypeInv
<1>2. n \in Channel /\ n \in Nat
  BY <1>1, KeyframeDataAssumption DEF TypeInv, Channel
<1>3. /\ step' = step /\ it' = it + 1 /\ keyIndex' = keyIndex + 1
      /\ chKeys' = chKeys /\ nChannels_' = nChannels_ /\ nKeys' = nKeys
      /\ first' = first /\ chNumber' = chNumber
  BY DEF CopyKey, countVars
<1>4. /\ first[n] \in Nat /\ Len(chKeys[n]) \in Nat /\ nKeys \in Nat
      /\ first[n] + Len(chKeys[n]) <= nKeys
  BY <1>1, <1>2, Bounds DEF TypeInv
<1>5. start \in Nat /\ start = Offset(n) + KeyBytes * it
      /\ start = IndexBytes * NChannels + KeyBytes * keyIndex
  <2>1. KeyBytes * keyIndex = KeyBytes * first[n] + KeyBytes * it
    BY <1>1, <1>4 DEF KeyBytes
  <2>2. StartKeysIndex = IndexBytes * NChannels
    BY <1>1 DEF StartKeysIndex
  <2>3. KeyBytes * first[n] \in Nat /\ KeyBytes * it \in Nat /\ IndexBytes * NChannels \in Nat
    BY <1>1, <1>4 DEF KeyBytes, IndexBytes
  <2> QED
    BY <2>1, <2>2, <2>3 DEF Offset
<1>6. /\ DOMAIN data_' = DOMAIN data_
      /\ \A a \in DOMAIN data_ :
           a \in start .. start + 6 =>
             data_'[a] = Byte(chKeys[n][it + 1], a - start, KeyBytes)
      /\ \A a \in DOMAIN data_ :
           a \notin start .. start + 6 => data_'[a] = data_[a]
  <2>1. data_' = Put(data_, start, chKeys[n][it + 1], KeyBytes)
    BY DEF CopyKey
  <2>2. start + KeyBytes - 1 = start + 6 /\ KeyBytes \in Nat
    BY <1>5 DEF KeyBytes
  <2> HIDE DEF start
  <2> QED
    BY <2>1, <2>2, <1>5, PutWrites
<1>7. \A c \in Channel : /\ Offset(c)' = Offset(c) /\ Offset(c) \in Nat
                         /\ Offset(c) >= IndexBytes * NChannels
  BY <1>1, <1>3, Bounds DEF Offset, IndexBytes, KeyBytes
<1>8. TypeInv'
  BY <1>1, <1>3 DEF TypeInv
<1>9. Sums'
  BY <1>1, <1>3 DEF Sums
<1>10. Place'
  <2> DEFINE f == first[n]
             l == Len(chKeys[n])
  <2>3. keyIndex = f + it /\ it < l /\ f \in Nat /\ l \in Nat /\ it \in Nat
    BY <1>1, <1>4
  <2>4. keyIndex + 1 = f + (it + 1) /\ it + 1 <= l
    <3> HIDE DEF f, l
    <3> QED
      BY <2>3
  <2>1. keyIndex + 1 = first[n] + (it + 1) /\ it + 1 <= Len(chKeys[n])
    BY <2>4
  <2>2. DOMAIN data_' = 0 .. IndexBytes * NChannels + KeyBytes * nKeys - 1
    BY <1>1, <1>6 DEF Place
  <2> QED
    BY <2>1, <2>2, <1>1, <1>3 DEF Place
<1>11. ASSUME NEW c \in Channel, c < n \/ c = n
       PROVE  IndexWritten(c)'
  <2>1. IndexWritten(c)
    BY <1>11, <1>1 DEF Layout
  <2>2. \A i \in 0 .. 3 : /\ IndexBytes * c + i \in DOMAIN data_
                          /\ IndexBytes * c + i \notin start .. start + 6
    BY <1>1, <1>2, <1>4, <1>5, <1>7 DEF Place, IndexBytes, KeyBytes, Channel
  <2>3. \A i \in 0 .. 3 : data_'[IndexBytes * c + i] = data_[IndexBytes * c + i]
    BY <2>2, <1>6
  <2>4. IndexBytes * c + 0 = IndexBytes * c
    BY DEF IndexBytes, Channel
  <2> QED
    BY <2>1, <2>3, <2>4, <1>3, <1>7 DEF IndexWritten
<1>12. ASSUME NEW c \in Channel, NEW j \in 0 .. Len(chKeys[c]) - 1,
              c < n \/ (c = n /\ j < it + 1)
       PROVE  KeyWritten(c, j)'
  <2>1. /\ first[c] \in Nat /\ Len(chKeys[c]) \in Nat
        /\ first[c] + Len(chKeys[c]) <= nKeys
    BY <1>1, Bounds
  <2>2. j \in Nat /\ j + 1 <= Len(chKeys[c])
    BY <2>1
  <2>3. ASSUME NEW i \in 0 .. KeyBytes - 1
        PROVE  Offset(c) + KeyBytes * j + i \in DOMAIN data_
    BY <1>1, KeyAddress
  <2>4. CASE c = n /\ j = it
    <3>1. Offset(c) + KeyBytes * j = start
      BY <2>4, <1>5
    <3>2. ASSUME NEW i \in 0 .. KeyBytes - 1
          PROVE  data_'[Offset(c) + KeyBytes * j + i]
                   = Byte(chKeys[c][j + 1], i, KeyBytes)
      <4> DEFINE a == Offset(c) + KeyBytes * j + i
      <4> HIDE DEF start
      <4>1. a \in DOMAIN data_ /\ a \in start .. start + 6 /\ a - start = i
        <5>1. a \in DOMAIN data_
          BY <2>3
        <5>2. a = start + i
          BY <3>1
        <5>3. start \in Nat /\ i \in 0 .. 6
          BY <1>5 DEF KeyBytes
        <5> HIDE DEF a
        <5> QED
          BY <5>1, <5>2, <5>3
      <4> HIDE DEF a
      <4>2. data_'[a] = Byte(chKeys[n][it + 1], i, KeyBytes)
        BY <4>1, <1>6
      <4> QED
        BY <4>2, <2>4 DEF a
    <3> QED
      BY <3>2, <1>3, <1>7 DEF KeyWritten
  <2>5. CASE c < n \/ (c = n /\ j < it)
    <3>1. KeyWritten(c, j)
      BY <2>5, <1>1 DEF Layout
    <3>2. first[c] + j + 1 <= keyIndex
      <4>1. CASE c < n
        <5>1. first[c] + Len(chKeys[c]) <= first[n]
          BY <4>1, <1>1, <1>2, Bounds
        <5>2. first[n] <= keyIndex /\ first[n] \in Nat /\ keyIndex \in Nat
          BY <1>1, <1>4
        <5> HIDE DEF n
        <5> QED
          BY <5>1, <5>2, <2>1, <2>2
      <4>2. CASE c = n /\ j < it
        BY <4>2, <2>2, <1>1, <1>4
      <4> QED
        BY <4>1, <4>2, <2>5
    <3>3. ASSUME NEW i \in 0 .. KeyBytes - 1
          PROVE  Offset(c) + KeyBytes * j + i \notin start .. start + 6
      <4>1. /\ Offset(c) + KeyBytes * j + i \in DOMAIN data_
            /\ Offset(c) + KeyBytes * j + i < start
        BY <3>2, <1>1, <1>5, KeyAddress
      <4>2. Offset(c) + KeyBytes * j + i \in Int
        BY <4>1, <1>1 DEF Place
      <4> HIDE DEF start
      <4> QED
        BY <4>1, <4>2, <1>5
    <3> HIDE DEF start
    <3> QED
      BY <3>1, <3>3, <2>3, <1>3, <1>6, <1>7 DEF KeyWritten
  <2> QED
    BY <2>4, <2>5, <2>2, <1>1, <1>12
<1>13. Layout'
  BY <1>1, <1>2, <1>3, <1>11, <1>12 DEF Layout, Channel
<1> QED
  BY <1>8, <1>9, <1>10, <1>13 DEF BufferInv

(* The sum that the counting pass found is where the next channel begins.  *)
LEMMA EndListKeeps ==
  ASSUME BufferInv, EndList
  PROVE  BufferInv'
<1> DEFINE n == chNumber
<1>1. /\ TypeInv /\ Sums /\ Place /\ Layout
      /\ step = "copying" /\ n < NChannels /\ nChannels_ = NChannels
      /\ keyIndex = first[n] + it /\ it = Len(chKeys[n])
      /\ NChannels \in Nat /\ n \in Nat /\ n \in Channel
  <2>1. /\ TypeInv /\ Sums /\ Place /\ Layout
        /\ step = "copying" /\ it = Len(chKeys[n])
    BY DEF EndList, BufferInv, Writing
  <2>2. /\ nChannels_ = NChannels /\ n < NChannels /\ keyIndex = first[n] + it
        /\ n \in 0 .. NChannels
    BY <2>1 DEF Place, TypeInv
  <2> QED
    BY <2>1, <2>2, KeyframeDataAssumption DEF Channel
<1>2. /\ step' = (IF n + 1 = NChannels THEN "built" ELSE "indexing")
      /\ chNumber' = n + 1 /\ it' = it /\ keyIndex' = keyIndex
      /\ chKeys' = chKeys /\ nChannels_' = nChannels_ /\ nKeys' = nKeys
      /\ first' = first /\ data_' = data_
  BY DEF EndList, countVars
<1>3. keyIndex = first[n + 1]
  <2>1. first[n + 1] = first[n] + Len(chKeys[n])
    BY <1>1, Bounds
  <2> QED
    BY <1>1, <2>1
<1>4. TypeInv'
  BY <1>1, <1>2 DEF TypeInv
<1>5. Sums'
  BY <1>1, <1>2 DEF Sums
<1>6. Place'
  BY <1>1, <1>2, <1>3 DEF Place
<1>7. ASSUME NEW c \in Channel, c < n + 1
      PROVE  /\ IndexWritten(c)'
             /\ \A j \in 0 .. Len(chKeys[c]) - 1 : KeyWritten(c, j)'
  <2>1. c < n \/ c = n
    BY <1>7, <1>1 DEF Channel
  <2>2. IndexWritten(c)
    BY <2>1, <1>1 DEF Layout
  <2>3. ASSUME NEW j \in 0 .. Len(chKeys[c]) - 1 PROVE KeyWritten(c, j)
    <3>1. c = n => j < it
      BY <1>1, ListInPage
    <3> QED
      BY <2>1, <3>1, <1>1 DEF Layout
  <2> QED
    BY <2>2, <2>3, <1>2 DEF IndexWritten, KeyWritten, Offset
<1>8. Layout'
  BY <1>2, <1>7 DEF Layout
<1> QED
  BY <1>4, <1>5, <1>6, <1>8 DEF BufferInv

LEMMA ReleaseKeeps ==
  ASSUME BufferInv, Release
  PROVE  BufferInv'
<1>1. TypeInv'
  BY DEF BufferInv, TypeInv, Release, countVars, writeVars
<1> QED
  BY <1>1 DEF Release, BufferInv, Writing

LEMMA BufferKeeps == BufferInv /\ [BufferNext]_bufferVars => BufferInv'
<1> SUFFICES ASSUME BufferInv, [BufferNext]_bufferVars PROVE BufferInv'
  OBVIOUS
<1>1. CASE UNCHANGED bufferVars
  BY <1>1 DEF BufferInv, TypeInv, Sums, Place, Layout, Writing, IndexWritten,
     KeyWritten, Offset, bufferVars, countVars, writeVars
<1>2. CASE Build
  BY <1>2, CountKeeps, AllocateKeeps, WriteIndexKeeps, CopyKeyKeeps,
     EndListKeeps DEF Build
<1>3. CASE Release
  BY <1>3, ReleaseKeeps
<1>4. CASE \E lists \in Page : Construct(lists)
  BY <1>4, ConstructKeeps
<1> QED
  BY <1>1, <1>2, <1>3, <1>4 DEF BufferNext
------------------------------------------------------------------------------
(* The invariant holds in every run of the constructor.                    *)
LEMMA BufferInvariant == BufferSpec => []BufferInv
BY InitIsFine, BufferKeeps, PTL DEF BufferSpec

LEMMA RoomToWrite == BufferInv => WritesStayInTheBuffer
<1> SUFFICES ASSUME BufferInv PROVE WritesStayInTheBuffer
  OBVIOUS
<1>1. CASE step = "indexing"
  BY <1>1, KeyframeDataAssumption
     DEF BufferInv, Writing, Place, TypeInv, WritesStayInTheBuffer, IndexBytes, KeyBytes
<1>2. CASE step = "copying" /\ it < Len(chKeys[chNumber])
  <2>1. TypeInv /\ Sums /\ Place /\ chNumber \in Channel
    BY <1>2, KeyframeDataAssumption DEF BufferInv, Writing, Place, TypeInv, Channel
  <2>2. /\ first[chNumber] \in Nat /\ Len(chKeys[chNumber]) \in Nat
        /\ first[chNumber] + Len(chKeys[chNumber]) <= nKeys /\ nKeys \in Nat
    BY <2>1, Bounds DEF Place, TypeInv
  <2>3. keyIndex \in Nat /\ keyIndex + 1 <= nKeys
    BY <1>2, <2>1, <2>2 DEF Place, TypeInv
  <2> QED
    BY <1>2, <2>1, <2>2, <2>3, KeyframeDataAssumption
       DEF Place, WritesStayInTheBuffer, StartKeysIndex, IndexBytes, KeyBytes
<1> QED
  BY <1>1, <1>2 DEF WritesStayInTheBuffer

(* The two passes of the constructor agree: no byte is written outside the *)
(* buffer, for any number of channels and any lists of a page.             *)
THEOREM BufferIsBigEnough == BufferSpec => []WritesStayInTheBuffer
BY BufferInvariant, RoomToWrite, PTL

LEMMA PageIsRead == BufferInv => NodesReadTheirKeys
<1> SUFFICES ASSUME BufferInv, step = "built", NEW c \in Channel
             PROVE  ReadPage(data_, c) = chKeys[c]
  BY DEF NodesReadTheirKeys
<1> DEFINE index == IndexBytes * c
<1>1. /\ TypeInv /\ Sums /\ Place /\ Layout /\ nChannels_ = NChannels
      /\ chNumber = NChannels /\ NChannels \in Nat
      /\ c \in Nat /\ c < NChannels /\ nKeys \in Nat
  BY KeyframeDataAssumption DEF BufferInv, Writing, Place, TypeInv, Channel
<1>2. /\ first[c] \in Nat /\ Len(chKeys[c]) \in Nat
      /\ first[c] + Len(chKeys[c]) <= nKeys /\ Offset(c) \in Nat
  BY <1>1, Bounds
<1>3. IndexWritten(c) /\ \A j \in 0 .. Len(chKeys[c]) - 1 : KeyWritten(c, j)
  BY <1>1 DEF Layout
<1>4. index .. index + 3 \subseteq DOMAIN data_ /\ index \in Nat
  BY <1>1 DEF Place, IndexBytes, KeyBytes
<1>5. Get(data_, index, 1) = Len(chKeys[c])
  <2>1. \A i \in 0 .. 1 - 1 : /\ index + i \in DOMAIN data_
                              /\ data_[index + i] = Byte(Len(chKeys[c]), i, 1)
    <3>1. \A i \in 0 .. 1 - 1 : i = 0 /\ index + i = index
      BY <1>4
    <3>2. index \in DOMAIN data_
      BY <1>4
    <3>3. data_[index] = Byte(Len(chKeys[c]), 0, 1)
      BY <1>3 DEF IndexWritten
    <3> HIDE DEF index
    <3> QED
      BY <3>1, <3>2, <3>3
  <2>2. index \in Int /\ 1 \in Nat \ {0}
    BY <1>4
  <2> HIDE DEF index
  <2>3. Holds(data_, index, Len(chKeys[c]), 1)
    BY <2>1 DEF Holds
  <2> QED
    BY <2>2, <2>3, HeldIsRead
<1>6. Get(data_, index + 2, 2) = Offset(c)
  <2>1. \A i \in 0 .. 2 - 1 :
          /\ index + 2 + i \in DOMAIN data_
          /\ data_[index + 2 + i] = Byte(Offset(c), i, 2)
    <3>1. \A i \in 0 .. 2 - 1 :
            (i = 0 /\ index + 2 + i = index + 2) \/ (i = 1 /\ index + 2 + i = index + 3)
      BY <1>4
    <3>2. index + 2 \in DOMAIN data_ /\ index + 3 \in DOMAIN data_
      BY <1>4
    <3>3. /\ data_[index + 2] = Byte(Offset(c), 0, 2)
          /\ data_[index + 3] = Byte(Offset(c), 1, 2)
      BY <1>3 DEF IndexWritten
    <3> HIDE DEF index
    <3> QED
      BY <3>1, <3>2, <3>3
  <2>2. index + 2 \in Int /\ 2 \in Nat \ {0}
    BY <1>4
  <2> HIDE DEF index
  <2>3. Holds(data_, index + 2, Offset(c), 2)
    BY <2>1 DEF Holds
  <2> QED
    BY <2>2, <2>3, HeldIsRead
<1>7. ReadPage(data_, c) = KeysAt(data_, Offset(c), Len(chKeys[c]))
  <2>1. index + IndexBytes + (Offset(c) - index - IndexBytes) = Offset(c)
    BY <1>2, <1>4 DEF IndexBytes
  <2> QED
    BY <2>1, <1>5, <1>6 DEF ReadPage
<1>8. ASSUME NEW j \in 1 .. Len(chKeys[c])
      PROVE  Get(data_, Offset(c) + KeyBytes * (j - 1), KeyBytes) = chKeys[c][j]
  <2>1. j - 1 \in 0 .. Len(chKeys[c]) - 1 /\ (j - 1) + 1 = j
    BY <1>2
  <2> DEFINE a == Offset(c) + KeyBytes * (j - 1)
  <2>2. \A i \in 0 .. KeyBytes - 1 :
          data_[a + i] = Byte(chKeys[c][j], i, KeyBytes)
    BY <2>1, <1>3 DEF KeyWritten
  <2>3. \A i \in 0 .. KeyBytes - 1 : a + i \in DOMAIN data_
    BY <2>1, <1>1, KeyAddress
  <2>4. a \in Int /\ KeyBytes \in Nat \ {0}
    BY <2>1, <1>2 DEF KeyBytes
  <2> DEFINE key == chKeys[c][j]
  <2> HIDE DEF a, key
  <2>5. Holds(data_, a, key, KeyBytes)
    BY <2>2, <2>3 DEF key, Holds
  <2>6. Get(data_, a, KeyBytes) = key
    BY <2>4, <2>5, HeldIsRead
  <2> QED
    BY <2>6 DEF a, key
<1>9. chKeys[c] = [j \in 1 .. Len(chKeys[c]) |-> chKeys[c][j]]
  BY <1>1, ListInPage
<1> QED
  BY <1>7, <1>8, <1>9 DEF KeysAt

(* In a finished page every node finds the keys of its channel, whatever   *)
(* the number of channels and the keys of the others.                      *)
THEOREM PageIsReadAsWritten == BufferSpec => []NodesReadTheirKeys
BY BufferInvariant, PageIsRead, PTL
------------------------------------------------------------------------------
(* Induction, as a fact about a set of numbers.                            *)
LEMMA Reaches ==
  ASSUME NEW n \in Nat, NEW S, 0 \in S, \A i \in 0 .. n - 1 : i \in S => i + 1 \in S
  PROVE  \A i \in 0 .. n : i \in S
<1> DEFINE Bad == {i \in 0 .. n : i \notin S}
<1>1. SUFFICES ASSUME Bad # {} PROVE FALSE
  OBVIOUS
<1>2. Bad \in SUBSET Nat
  OBVIOUS
<1>3. \E m \in Bad : \A k \in Bad : m <= k
  <2> HIDE DEF Bad
  <2> QED
    BY <1>1, <1>2, AnimationIsFine, P!LeastNumber
<1>4. PICK m \in Bad : \A k \in Bad : m <= k
  BY <1>3
<1>5. m # 0 /\ m \in Nat /\ m <= n /\ m \notin S
  OBVIOUS
<1>6. m - 1 \in 0 .. n - 1 /\ ~ (m <= m - 1) /\ (m - 1) + 1 = m
  BY <1>5
<1>7. m - 1 \in S
  BY <1>4, <1>6
<1> QED
  BY <1>5, <1>6, <1>7

(* FlattenSeq appends one part after the other.                            *)
LEMMA Flattening ==
  ASSUME NEW parts, NEW n \in Nat \ {0}, Len(parts) = n
  PROVE  \E f : /\ DOMAIN f = 1 .. n /\ f[1] = parts[1]
                /\ \A i \in 2 .. n : f[i] = f[i - 1] \o parts[i]
                /\ FlattenSeq(parts) = f[n]
<1> DEFINE Step(f, i) == IF i = 1 THEN parts[i] ELSE f[i - 1] \o parts[i]
           Good(f, m) == f = [i \in 1 .. m |-> Step(f, i)]
           S == {m \in 0 .. n : \E f : Good(f, m)}
<1>1. 0 \in S
  <2> DEFINE none == [i \in 1 .. 0 |-> parts[i]]
  <2>1. none = [i \in 1 .. 0 |-> none[i]] /\ \A i \in 1 .. 0 : FALSE
    OBVIOUS
  <2>2. Good(none, 0)
    <3> HIDE DEF none, Step
    <3> QED
      BY <2>1
  <2> HIDE DEF none, Good
  <2> QED
    BY <2>2
<1>2. ASSUME NEW m \in 0 .. n - 1, m \in S PROVE m + 1 \in S
  <2>1. PICK g : Good(g, m)
    BY <1>2
  <2> DEFINE f == [i \in 1 .. m + 1 |-> IF i <= m THEN g[i] ELSE Step(g, m + 1)]
  <2>2. ASSUME NEW i \in 1 .. m + 1 PROVE f[i] = Step(f, i)
    <3>1. CASE i = 1 /\ m = 0
      BY <3>1
    <3>2. CASE i = 1 /\ m # 0
      BY <2>1, <3>2
    <3>3. CASE i # 1 /\ i <= m
      <4>1. i - 1 \in 1 .. m /\ i \in 1 .. m
        BY <3>3
      <4>2. g[i] = g[i - 1] \o parts[i]
        BY <2>1, <3>3, <4>1
      <4>3. f[i] = g[i] /\ f[i - 1] = g[i - 1]
        BY <3>3, <4>1
      <4> HIDE DEF f
      <4> QED
        BY <3>3, <4>2, <4>3
    <3>4. CASE i # 1 /\ i = m + 1
      <4>1. i - 1 \in 1 .. m /\ ~ (i <= m) /\ i - 1 = m
        BY <3>4
      <4>2. f[i] = g[i - 1] \o parts[i]
        BY <3>4, <4>1
      <4>3. f[i - 1] = g[i - 1]
        BY <4>1
      <4> HIDE DEF f
      <4> QED
        BY <3>4, <4>2, <4>3
    <3> QED
      BY <3>1, <3>2, <3>3, <3>4
  <2>3. Good(f, m + 1)
    <3>1. f = [i \in 1 .. m + 1 |-> f[i]]
      OBVIOUS
    <3> HIDE DEF f, Step
    <3> QED
      BY <2>2, <3>1
  <2> HIDE DEF f, Good
  <2> QED
    BY <2>3
<1>3. \E f : Good(f, n)
  <2>1. n \in 0 .. n
    OBVIOUS
  <2>2. n \in S
    <3> HIDE DEF S
    <3> QED
      BY <1>1, <1>2, <2>1, Reaches
  <2> HIDE DEF Good
  <2> QED
    BY <2>2
<1> DEFINE flatten == CHOOSE f : Good(f, Len(parts))
<1>4. FlattenSeq(parts) = flatten[Len(parts)]
  BY DEF FlattenSeq
<1>5. Good(flatten, n)
  <2> HIDE DEF Good
  <2> QED
    BY <1>3
<1> HIDE DEF flatten
<1>6. DOMAIN flatten = 1 .. n /\ flatten[1] = parts[1]
  BY <1>5
<1>7. ASSUME NEW i \in 2 .. n
      PROVE  flatten[i] = flatten[i - 1] \o parts[i]
  <2>1. i \in 1 .. n /\ i # 1
    OBVIOUS
  <2>2. flatten[i] = Step(flatten, i)
    <3> HIDE DEF Step
    <3> QED
      BY <1>5, <2>1
  <2> QED
    BY <2>1, <2>2
<1> QED
  BY <1>4, <1>6, <1>7

(* The keys of the channels before each channel, one after the other.      *)
Concatenates(before, lists) ==
  /\ before \in [0 .. NChannels -> Seq(Key)] /\ before[0] = << >>
  /\ \A c \in 1 .. NChannels : before[c] = before[c - 1] \o lists[c - 1]

LEMMA Concatenating ==
  ASSUME NEW lists \in [Channel -> Seq(Key)]
  PROVE  \E before : /\ Concatenates(before, lists)
                     /\ FlattenSeq([i \in 1 .. NChannels |-> lists[i - 1]])
                          = before[NChannels]
<1> DEFINE parts == [i \in 1 .. NChannels |-> lists[i - 1]]
<1>1. NChannels \in Nat \ {0}
  BY KeyframeDataAssumption
<1>2. \A i \in 1 .. NChannels : i - 1 \in Channel /\ parts[i] = lists[i - 1]
  BY <1>1 DEF Channel
<1>3. Len(parts) = NChannels
  BY <1>1
<1> HIDE DEF parts
<1>4. PICK f : /\ DOMAIN f = 1 .. NChannels /\ f[1] = parts[1]
               /\ \A i \in 2 .. NChannels : f[i] = f[i - 1] \o parts[i]
               /\ FlattenSeq(parts) = f[NChannels]
  BY <1>1, <1>3, Flattening
<1> DEFINE before == [c \in 0 .. NChannels |-> IF c = 0 THEN << >> ELSE f[c]]
<1>5. before[0] = << >> /\ before[NChannels] = f[NChannels]
      /\ DOMAIN before = 0 .. NChannels
  BY <1>1
<1>6. ASSUME NEW c \in 1 .. NChannels
      PROVE  before[c] = before[c - 1] \o lists[c - 1]
  <2>1. c - 1 \in 0 .. NChannels /\ c \in 0 .. NChannels /\ c # 0
    BY <1>1
  <2>2. parts[c] = lists[c - 1] /\ lists[c - 1] \in Seq(Key)
    BY <1>2
  <2>3. CASE c = 1
    <3>1. before[c] = lists[c - 1] /\ before[c - 1] = << >>
      BY <1>4, <2>1, <2>2, <2>3
    <3>2. << >> \o lists[c - 1] = lists[c - 1]
      BY <2>2
    <3> QED
      BY <3>1, <3>2
  <2>4. CASE c # 1
    <3>1. c \in 2 .. NChannels /\ c - 1 # 0
      BY <1>1, <2>4
    <3>2. f[c] = f[c - 1] \o parts[c]
      BY <1>4, <3>1
    <3> QED
      BY <2>1, <2>2, <3>1, <3>2
  <2> QED
    BY <2>3, <2>4
<1>7. \A c \in 0 .. NChannels : before[c] \in Seq(Key)
  <2> HIDE DEF before
  <2> DEFINE S == {c \in 0 .. NChannels : before[c] \in Seq(Key)}
  <2>1. 0 \in S
    <3>1. << >> \in Seq(Key) /\ 0 \in 0 .. NChannels
      BY <1>1
    <3> QED
      BY <1>5, <3>1
  <2>2. ASSUME NEW c \in 0 .. NChannels - 1, c \in S PROVE c + 1 \in S
    <3>1. c + 1 \in 1 .. NChannels /\ (c + 1) - 1 = c /\ c \in Channel
          /\ c + 1 \in 0 .. NChannels
      BY <1>1 DEF Channel
    <3>2. before[c + 1] = before[c] \o lists[c]
      BY <1>6, <3>1
    <3>3. before[c] \in Seq(Key) /\ lists[c] \in Seq(Key)
      BY <2>2, <3>1
    <3>4. before[c] \o lists[c] \in Seq(Key)
      BY <3>3
    <3> QED
      BY <3>1, <3>2, <3>4
  <2>3. \A c \in 0 .. NChannels : c \in S
    <3> HIDE DEF S
    <3> QED
      BY <1>1, <2>1, <2>2, Reaches
  <2> QED
    BY <2>3
<1>8. before \in [0 .. NChannels -> Seq(Key)]
  BY <1>7
<1> HIDE DEF before
<1>9. Concatenates(before, lists)
  BY <1>5, <1>6, <1>8 DEF Concatenates
<1> QED
  BY <1>4, <1>5, <1>9 DEF parts

(* The keys of a channel lie in the whole behind those of the channels     *)
(* before it.                                                              *)
Extends(s, t) == Len(s) <= Len(t) /\ \A k \in 1 .. Len(s) : t[k] = s[k]

LEMMA ChannelInTheWhole ==
  ASSUME NEW lists \in [Channel -> Seq(Key)], NEW before, Concatenates(before, lists),
         NEW ch \in Channel
  PROVE  /\ Len(before[ch]) \in Nat /\ Len(lists[ch]) \in Nat
         /\ Len(before[NChannels]) \in Nat
         /\ Len(before[ch]) + Len(lists[ch]) <= Len(before[NChannels])
         /\ Len(before[ch + 1]) = Len(before[ch]) + Len(lists[ch])
         /\ \A k \in 1 .. Len(lists[ch]) :
              before[NChannels][Len(before[ch]) + k] = lists[ch][k]
<1>1. NChannels \in Nat \ {0} /\ ch \in Nat /\ ch + 1 <= NChannels
  BY KeyframeDataAssumption DEF Channel
<1>2. \A c \in 0 .. NChannels : before[c] \in Seq(Key) /\ Len(before[c]) \in Nat
  BY DEF Concatenates
<1>3. ASSUME NEW c \in Channel
      PROVE  /\ before[c] \in Seq(Key) /\ lists[c] \in Seq(Key)
             /\ Len(before[c]) \in Nat /\ Len(lists[c]) \in Nat
             /\ Len(before[c + 1]) = Len(before[c]) + Len(lists[c])
             /\ Extends(before[c], before[c + 1])
             /\ \A k \in 1 .. Len(lists[c]) :
                  before[c + 1][Len(before[c]) + k] = lists[c][k]
  <2>1. c \in 0 .. NChannels /\ c + 1 \in 1 .. NChannels /\ (c + 1) - 1 = c
    BY <1>1 DEF Channel
  <2> DEFINE s == before[c]
             t == lists[c]
             u == before[c + 1]
  <2>2. u = s \o t
    BY <2>1 DEF Concatenates
  <2>3. s \in Seq(Key) /\ t \in Seq(Key) /\ Len(s) \in Nat /\ Len(t) \in Nat
    BY <1>2, <2>1
  <2> HIDE DEF s, t, u
  <2>4. /\ Len(u) = Len(s) + Len(t)
        /\ \A k \in 1 .. Len(s) + Len(t) :
             u[k] = IF k <= Len(s) THEN s[k] ELSE t[k - Len(s)]
    BY <2>2, <2>3, ConcatProperties
  <2>5. Extends(s, u)
    BY <2>3, <2>4 DEF Extends
  <2>6. \A k \in 1 .. Len(t) : u[Len(s) + k] = t[k]
    <3>1. ASSUME NEW k \in 1 .. Len(t)
          PROVE  /\ Len(s) + k \in 1 .. Len(s) + Len(t)
                 /\ ~ (Len(s) + k <= Len(s)) /\ (Len(s) + k) - Len(s) = k
      BY <2>3
    <3> QED
      BY <2>4, <3>1
  <2> QED
    BY <2>3, <2>4, <2>5, <2>6 DEF s, t, u
<1> DEFINE S == {d \in 0 .. NChannels - (ch + 1) : Extends(before[ch + 1], before[(ch + 1) + d])}
<1>4. 0 \in S
  <2>1. (ch + 1) + 0 = ch + 1 /\ ch + 1 \in 0 .. NChannels
    BY <1>1
  <2>2. Extends(before[ch + 1], before[ch + 1])
    BY <1>2, <2>1 DEF Extends
  <2> QED
    BY <1>1, <2>1, <2>2
<1>5. ASSUME NEW d \in 0 .. (NChannels - (ch + 1)) - 1, d \in S PROVE d + 1 \in S
  <2> DEFINE e == (ch + 1) + d
  <2>1. e \in Channel /\ e \in 0 .. NChannels /\ e + 1 \in 0 .. NChannels
        /\ e + 1 = (ch + 1) + (d + 1) /\ d + 1 \in 0 .. NChannels - (ch + 1)
        /\ ch + 1 \in 0 .. NChannels
    BY <1>1 DEF Channel
  <2>2. Extends(before[ch + 1], before[e]) /\ Extends(before[e], before[e + 1])
    BY <1>3, <1>5, <2>1
  <2>3. Len(before[ch + 1]) \in Nat /\ Len(before[e]) \in Nat /\ Len(before[e + 1]) \in Nat
    BY <1>2, <2>1
  <2> HIDE DEF e
  <2> DEFINE s == before[ch + 1]
             t == before[e]
             u == before[e + 1]
  <2>4. Extends(s, u)
    <3> HIDE DEF s, t, u
    <3>1. /\ Len(s) \in Nat /\ Len(t) \in Nat /\ Len(u) \in Nat
          /\ Extends(s, t) /\ Extends(t, u)
      BY <2>2, <2>3 DEF s, t, u
    <3>2. \A k \in 1 .. Len(s) : k \in 1 .. Len(t)
      BY <3>1 DEF Extends
    <3> QED
      BY <3>1, <3>2 DEF Extends
  <2> QED
    BY <2>1, <2>4
<1>6. Extends(before[ch + 1], before[NChannels])
  <2>1. NChannels - (ch + 1) \in Nat /\ (ch + 1) + (NChannels - (ch + 1)) = NChannels
    BY <1>1
  <2>2. NChannels - (ch + 1) \in 0 .. NChannels - (ch + 1)
    BY <2>1
  <2>3. NChannels - (ch + 1) \in S
    <3> HIDE DEF S
    <3> QED
      BY <1>4, <1>5, <2>1, <2>2, Reaches
  <2> QED
    BY <2>1, <2>3
<1>7. Len(before[NChannels]) \in Nat
  BY <1>1, <1>2
<1>8. ASSUME NEW k \in 1 .. Len(lists[ch])
      PROVE  before[NChannels][Len(before[ch]) + k] = lists[ch][k]
  <2>1. Len(before[ch]) + k \in 1 .. Len(before[ch + 1])
    BY <1>3
  <2> QED
    BY <1>3, <1>6, <2>1 DEF Extends
<1> QED
  BY <1>3, <1>6, <1>7, <1>8 DEF Extends

(* A reader moves on by the keys that it has read.                         *)
LEMMA Reading ==
  ASSUME NEW n \in Nat, NEW sizes
  PROVE  /\ Positions(n, sizes)[0] = 1 + CountBytes * n
         /\ \A c \in 1 .. n :
              Positions(n, sizes)[c]
                = Positions(n, sizes)[c - 1] + RecordBytes * sizes[c - 1]
<1> DEFINE Step(f, c) == IF c = 0 THEN 1 + CountBytes * n
                         ELSE f[c - 1] + RecordBytes * sizes[c - 1]
           Good(f, m) == f = [c \in 0 .. m |-> Step(f, c)]
           S == {m \in 0 .. n : \E f : Good(f, m)}
<1>1. 0 \in S
  <2> DEFINE f == [c \in 0 .. 0 |-> 1 + CountBytes * n]
  <2>1. f = [c \in 0 .. 0 |-> f[c]] /\ \A c \in 0 .. 0 : c = 0 /\ f[c] = Step(f, c)
    OBVIOUS
  <2>2. Good(f, 0)
    <3> HIDE DEF f, Step
    <3> QED
      BY <2>1
  <2> HIDE DEF f, Good
  <2> QED
    BY <2>2
<1>2. ASSUME NEW m \in 0 .. n - 1, m \in S PROVE m + 1 \in S
  <2>1. PICK g : Good(g, m)
    BY <1>2
  <2> DEFINE f == [c \in 0 .. m + 1 |-> IF c <= m THEN g[c] ELSE Step(g, m + 1)]
  <2>2. ASSUME NEW c \in 0 .. m + 1 PROVE f[c] = Step(f, c)
    <3>1. CASE c = 0
      <4>1. f[c] = g[c] /\ g[c] = Step(g, c)
        BY <2>1, <3>1
      <4> HIDE DEF f
      <4> QED
        BY <3>1, <4>1
    <3>2. CASE c # 0 /\ c <= m
      <4>1. c - 1 \in 0 .. m /\ c \in 0 .. m
        BY <3>2
      <4>2. g[c] = Step(g, c) /\ f[c] = g[c] /\ f[c - 1] = g[c - 1]
        BY <2>1, <3>2, <4>1
      <4> HIDE DEF f
      <4> QED
        BY <3>2, <4>2
    <3>3. CASE c = m + 1
      <4>1. c - 1 \in 0 .. m /\ c # 0 /\ ~ (c <= m) /\ c - 1 = m
        BY <3>3
      <4>2. f[c] = Step(g, c) /\ f[c - 1] = g[c - 1]
        BY <3>3, <4>1
      <4> HIDE DEF f
      <4> QED
        BY <4>1, <4>2
    <3> QED
      BY <3>1, <3>2, <3>3
  <2>3. Good(f, m + 1)
    <3>1. f = [c \in 0 .. m + 1 |-> f[c]]
      OBVIOUS
    <3> HIDE DEF f, Step
    <3> QED
      BY <2>2, <3>1
  <2> HIDE DEF f, Good
  <2> QED
    BY <2>3
<1>3. \E f : Good(f, n)
  <2>1. n \in 0 .. n
    OBVIOUS
  <2>2. n \in S
    <3> HIDE DEF S
    <3> QED
      BY <1>1, <1>2, <2>1, Reaches
  <2> HIDE DEF Good
  <2> QED
    BY <2>2
<1> DEFINE position == CHOOSE f : Good(f, n)
<1>4. Positions(n, sizes) = position
  BY DEF Positions
<1>5. Good(position, n)
  <2> HIDE DEF Good
  <2> QED
    BY <1>3
<1> HIDE DEF position
<1>6. \A c \in 0 .. n : position[c] = Step(position, c)
  <2> HIDE DEF Step
  <2> QED
    BY <1>5
<1>7. 0 \in 0 .. n /\ \A c \in 1 .. n : c \in 0 .. n /\ c # 0
  OBVIOUS
<1> QED
  BY <1>4, <1>6, <1>7

LEMMA Quotients ==
  /\ \A c \in Nat : \A i \in 0 .. 3 : (4 * c + i) \div 4 = c /\ (4 * c + i) % 4 = i
  /\ \A c \in Nat : \A i \in 0 .. 6 : (7 * c + i) \div 7 = c /\ (7 * c + i) % 7 = i
OBVIOUS

LEMMA FileAsWritten ==
  ASSUME NEW lists \in [Channel -> Seq(Key)], NEW keys \in Seq(Key),
         FlattenSeq([i \in 1 .. NChannels |-> lists[i - 1]]) = keys
  PROVE  FileHolds(Save(lists, NChannels), lists, keys)
<1> DEFINE start == KeysStart(NChannels)
           n == Len(keys)
           file == Save(lists, NChannels)
<1>1. /\ NChannels \in Nat /\ NChannels > 0 /\ n \in Nat
      /\ start = 4 * NChannels + 1 /\ start \in Nat /\ start > 0
  BY KeyframeDataAssumption DEF KeysStart, CountBytes
<1>2. file = [a \in 0 .. start + 7 * n - 1 |->
                IF a = 0 THEN Byte(NChannels, 0, 1)
                ELSE IF a < start
                  THEN Byte(Len(lists[(a - 1) \div 4]), (a - 1) % 4, 4)
                ELSE Byte(keys[(a - start) \div 7 + 1], (a - start) % 7, 7)]
  BY DEF Save, CountBytes, RecordBytes
<1> HIDE DEF file, start, n
<1>3. Holds(file, 0, NChannels, 1)
  <2>1. 0 \in 0 .. start + 7 * n - 1
    BY <1>1
  <2>2. 0 \in DOMAIN file /\ file[0] = Byte(NChannels, 0, 1)
    BY <1>2, <2>1
  <2>3. \A i \in 0 .. 1 - 1 : i = 0 /\ 0 + i = 0
    OBVIOUS
  <2> QED
    BY <2>2, <2>3 DEF Holds
<1>4. ASSUME NEW c \in Channel PROVE Holds(file, 1 + 4 * c, Len(lists[c]), 4)
  <2> SUFFICES ASSUME NEW i \in 0 .. 3
               PROVE  /\ 1 + 4 * c + i \in DOMAIN file
                      /\ file[1 + 4 * c + i] = Byte(Len(lists[c]), i, 4)
    BY DEF Holds
  <2> DEFINE a == 1 + 4 * c + i
  <2>1. c \in Nat /\ c <= NChannels - 1
    BY <1>1 DEF Channel
  <2>2. a - 1 = 4 * c + i /\ a \in Nat /\ a # 0 /\ a < start
    BY <1>1, <2>1
  <2> HIDE DEF a
  <2>3. (a - 1) \div 4 = c /\ (a - 1) % 4 = i
    BY <2>1, <2>2, Quotients
  <2>4. a \in 0 .. start + 7 * n - 1
    BY <1>1, <2>2
  <2>5. a \in DOMAIN file /\ file[a] = Byte(Len(lists[c]), i, 4)
    BY <1>2, <2>2, <2>3, <2>4
  <2> QED
    BY <2>5 DEF a
<1>5. ASSUME NEW k \in 1 .. n
      PROVE  Holds(file, 1 + 4 * NChannels + 7 * (k - 1), keys[k], 7)
  <2> SUFFICES ASSUME NEW i \in 0 .. 6
               PROVE  LET a == 1 + 4 * NChannels + 7 * (k - 1) + i
                      IN  a \in DOMAIN file /\ file[a] = Byte(keys[k], i, 7)
    BY DEF Holds
  <2> DEFINE a == 1 + 4 * NChannels + 7 * (k - 1) + i
             j == k - 1
  <2>1. j \in Nat /\ j + 1 = k /\ j + 1 <= n
    BY <1>1
  <2>2. a = start + 7 * j + i
    BY <1>1
  <2> HIDE DEF a, j
  <2>3. a - start = 7 * j + i /\ a \in Nat /\ a # 0 /\ ~ (a < start)
    BY <1>1, <2>1, <2>2
  <2>4. (a - start) \div 7 = j /\ (a - start) % 7 = i
    BY <2>1, <2>3, Quotients
  <2>5. a \in 0 .. start + 7 * n - 1
    BY <1>1, <2>1, <2>3
  <2>6. a \in DOMAIN file /\ file[a] = Byte(keys[k], i, 7)
    BY <1>2, <2>1, <2>3, <2>4, <2>5
  <2> QED
    BY <2>6 DEF a
<1> QED
  BY <1>3, <1>4, <1>5 DEF file, n, FileHolds

(* What FileAnimation reads is what was exported, whatever the number of   *)
(* channels and of their keys.                                             *)
LEMMA FileIsRead ==
  ASSUME NEW lists \in [Channel -> Seq(Key)]
  PROVE  Load(Save(lists, NChannels)) = lists
<1> DEFINE file == Save(lists, NChannels)
           nChannels == Get(file, 0, 1)
           keyframes == [ch \in 0 .. nChannels - 1 |-> Get(file, 1 + 4 * ch, 4)]
           position == Positions(nChannels, keyframes)
           len(c) == Len(lists[c])
<1>1. NChannels \in Nat \ {0} /\ \A c \in Channel : len(c) \in Nat
  BY KeyframeDataAssumption
<1>2. PICK before : /\ Concatenates(before, lists)
                    /\ FlattenSeq([i \in 1 .. NChannels |-> lists[i - 1]])
                         = before[NChannels]
  BY Concatenating
<1> DEFINE keys == before[NChannels]
<1>3. keys \in Seq(Key)
  BY <1>1, <1>2 DEF Concatenates
<1>4. FileHolds(file, lists, keys)
  BY <1>2, <1>3, FileAsWritten
<1>5. Load(file) = [ch \in 0 .. nChannels - 1 |->
         [k \in 1 .. keyframes[ch] |-> Get(file, position[ch] + 7 * (k - 1), 7)]]
  BY DEF Load, CountBytes, RecordBytes
<1> HIDE DEF file, keys
<1>6. nChannels = NChannels
  <2>1. Holds(file, 0, NChannels, 1) /\ 0 \in Int /\ 1 \in Nat \ {0}
    BY <1>4 DEF FileHolds
  <2> QED
    BY <2>1, HeldIsRead
<1> HIDE DEF nChannels
<1>7. ASSUME NEW ch \in Channel PROVE keyframes[ch] = len(ch)
  <2> DEFINE a == 1 + 4 * ch
  <2>1. Holds(file, a, len(ch), 4)
    BY <1>4 DEF FileHolds
  <2>2. a \in Int /\ 4 \in Nat \ {0}
    BY DEF Channel
  <2>3. keyframes[ch] = Get(file, a, 4)
    BY <1>6 DEF Channel
  <2> HIDE DEF a, len, keyframes
  <2> QED
    BY <2>1, <2>2, <2>3, HeldIsRead
<1> HIDE DEF keyframes
<1>8. /\ position[0] = 1 + 4 * NChannels
      /\ \A c \in 1 .. NChannels : position[c] = position[c - 1] + 7 * keyframes[c - 1]
  BY <1>1, <1>6, Reading DEF CountBytes, RecordBytes
<1> DEFINE length(c) == Len(before[c])
<1>9. \A c \in 0 .. NChannels : position[c] = 1 + 4 * NChannels + 7 * length(c)
  <2> HIDE DEF position
  <2> DEFINE S == {c \in 0 .. NChannels :
                     position[c] = 1 + 4 * NChannels + 7 * length(c)}
  <2>1. 0 \in S
    <3>1. before[0] = << >> /\ 0 \in 0 .. NChannels
      BY <1>1, <1>2 DEF Concatenates
    <3>2. length(0) = 0
      BY <3>1, EmptySeq
    <3> HIDE DEF length
    <3> QED
      BY <1>1, <1>8, <3>1, <3>2
  <2>2. ASSUME NEW c \in 0 .. NChannels - 1, c \in S PROVE c + 1 \in S
    <3>1. c + 1 \in 1 .. NChannels /\ (c + 1) - 1 = c /\ c \in Channel
          /\ c + 1 \in 0 .. NChannels
      BY <1>1 DEF Channel
    <3>2. position[c + 1] = position[c] + 7 * len(c)
      BY <1>7, <1>8, <3>1
    <3>3. length(c + 1) = length(c) + len(c) /\ length(c) \in Nat /\ len(c) \in Nat
      BY <1>2, <3>1, ChannelInTheWhole
    <3>4. position[c] = 1 + 4 * NChannels + 7 * length(c)
      BY <2>2
    <3> DEFINE q == position[c + 1] 
               p == position[c]
    <3>5. q = 1 + 4 * NChannels + 7 * length(c + 1)
      <4>1. q = p + 7 * len(c) /\ p = 1 + 4 * NChannels + 7 * length(c)
        BY <3>2, <3>4
      <4> HIDE DEF q, p, length, len
      <4> QED
        BY <1>1, <3>3, <4>1
    <3> QED
      BY <3>1, <3>5
  <2>3. \A c \in 0 .. NChannels : c \in S
    <3> HIDE DEF S
    <3> QED
      BY <1>1, <2>1, <2>2, Reaches
  <2> QED
    BY <2>3
<1> HIDE DEF position
<1>10. ASSUME NEW ch \in Channel, NEW k \in 1 .. len(ch)
       PROVE  Get(file, position[ch] + 7 * (k - 1), 7) = lists[ch][k]
  <2> DEFINE m == length(ch) + k
             p == position[ch]
             a == p + 7 * (k - 1)
             key == lists[ch][k]
             total == Len(keys)
  <2>1. /\ length(ch) \in Nat /\ len(ch) \in Nat /\ total \in Nat
        /\ length(ch) + len(ch) <= total
        /\ keys[m] = key
    BY <1>2, ChannelInTheWhole DEF keys
  <2>2. m \in 1 .. total
    <3> HIDE DEF length, len, total
    <3> QED
      BY <2>1
  <2>3. p = 1 + 4 * NChannels + 7 * length(ch) /\ p \in Int
    <3>1. ch \in 0 .. NChannels
      BY <1>1 DEF Channel
    <3>2. p = 1 + 4 * NChannels + 7 * length(ch)
      BY <1>9, <3>1
    <3> HIDE DEF p, length
    <3> QED
      BY <1>1, <2>1, <3>2
  <2>4. a = 1 + 4 * NChannels + 7 * (m - 1) /\ a \in Int
    <3>1. k \in Int /\ length(ch) \in Int /\ NChannels \in Int
      BY <1>1, <2>1
    <3> HIDE DEF length, p
    <3> QED
      BY <2>3, <3>1, Addresses
  <2>5. Holds(file, a, key, 7)
    <3> HIDE DEF a, m, key
    <3> QED
      BY <1>4, <2>1, <2>2, <2>4 DEF FileHolds
  <2>6. 7 \in Nat \ {0}
    OBVIOUS
  <2> HIDE DEF a, key
  <2>7. Get(file, a, 7) = key
    BY <2>4, <2>5, <2>6, HeldIsRead
  <2> QED
    BY <2>7 DEF a, key
<1>11. Load(file) = [ch \in Channel |-> [k \in 1 .. Len(lists[ch]) |-> lists[ch][k]]]
  BY <1>5, <1>6, <1>7, <1>10 DEF Channel
<1>12. \A ch \in Channel : lists[ch] = [k \in 1 .. Len(lists[ch]) |-> lists[ch][k]]
  OBVIOUS
<1> QED
  BY <1>11, <1>12 DEF file
------------------------------------------------------------------------------
(* The paging of Delivery is that of BaseAnimation, with the animations    *)
(* that Delivery starts from.                                              *)
LEMMA SamePaging ==
  /\ Anim!FirstKeyout = P!FirstKeyout
  /\ \A ch, n : Anim!PageOf(ch, n) = P!PageOf(ch, n)
  /\ \A n : Anim!GetNKeys(n) <=> P!GetNKeys(n)
<1>1. \A ch, n : Anim!PageOf(ch, n) = P!PageOf(ch, n)
  BY DEF Anim!PageOf, P!PageOf, Anim!END, P!END, Anim!FramesInPage,
         P!FramesInPage, Anim!FirstIndex, P!FirstIndex, Anim!KeyAt, P!KeyAt,
         Anim!Remaining, P!Remaining, Anim!Minus, P!Minus
<1>2. \A ch, n : Anim!PositionAfter(ch, n) = P!PositionAfter(ch, n)
  BY DEF Anim!PositionAfter, P!PositionAfter, Anim!END, P!END,
         Anim!LastCopied, P!LastCopied, Anim!FramesInPage,
         P!FramesInPage, Anim!FirstIndex, P!FirstIndex, Anim!KeyAt, P!KeyAt,
         Anim!Remaining, P!Remaining, Anim!Minus, P!Minus
<1>3. Anim!FirstKeyout = P!FirstKeyout
  BY DEF Anim!FirstKeyout, P!FirstKeyout, Anim!Earliest, P!Earliest,
         Anim!OpenChannels, P!OpenChannels, Anim!KeyAt, P!KeyAt,
         Anim!END, P!END
<1>4. \A n : Anim!GetNKeys(n) <=> P!GetNKeys(n)
  BY <1>1, <1>2 DEF Anim!GetNKeys, P!GetNKeys
<1> QED
  BY <1>1, <1>3, <1>4

LEMMA Sizes ==
  /\ N_KEYS_ON_INIT \in {N_KEYS_ON_INIT, KeysPerPage}
  /\ KeysPerPage \in {N_KEYS_ON_INIT, KeysPerPage}
  /\ N_KEYS_ON_INIT \in Nat /\ KeysPerPage \in Nat
  /\ P!Time = Key
BY DeliveryAssumption DEF P!Time

(* What a page of a channel is, in the words of Delivery.                  *)
LEMMA PageOfChannel ==
  ASSUME P!IInv, NEW ch \in Channel, NEW n \in {N_KEYS_ON_INIT, KeysPerPage}
  PROVE  /\ Anim!PageOf(ch, n) \in Seq(Key)
         /\ Len(Anim!PageOf(ch, n)) \in Nat
         /\ Len(Anim!PageOf(ch, n)) <= n
<1> DEFINE page == P!PageOf(ch, n)
<1>1. /\ page \in Seq(P!Time) /\ P!Delivered(ch) \in Nat
      /\ P!Delivered(ch) + Len(page) =
           (IF P!Delivered(ch) + n < Len(data[ch])
              THEN P!Delivered(ch) + n ELSE Len(data[ch]))
  BY AnimationIsFine, ChannelsHaveKeys, P!PageLemma
<1>2. Len(data[ch]) \in Nat /\ n \in Nat
  BY AnimationIsFine, ChannelsHaveKeys, Sizes, P!ChannelTypes
<1> HIDE DEF page
<1>3. page \in Seq(Key) /\ Len(page) \in Nat
  BY <1>1, Sizes
<1>4. Len(page) <= n
  BY <1>1, <1>2, <1>3
<1> QED
  BY <1>3, <1>4, SamePaging DEF page
------------------------------------------------------------------------------
(* The pages of BaseAnimation, the buffer of KeyframeData and the file.    *)
Parts ==
  /\ P!IInv
  /\ BufferInv
  /\ FilesAreReadAsWritten

LEMMA InitParts == Init => Parts
<1> SUFFICES ASSUME Init PROVE Parts
  OBVIOUS
<1>1. /\ type = "SINGLE" => data \in Drawn
      /\ data \in Drawn \cup {Circle(NChannels, 1)}
  <2>1. CASE type = "SINGLE"
    <3>1. PICK drawn \in Drawn : data = Load(Save(drawn, NChannels))
      BY <2>1 DEF Init
    <3>2. drawn \in [Channel -> Seq(Key)]
      BY DeliveryAssumption
    <3> QED
      BY <3>1, <3>2, FileIsRead
  <2>2. CASE type # "SINGLE"
    BY <2>2 DEF Init
  <2> QED
    BY <2>1, <2>2
<1>2. P!Init
  BY <1>1 DEF Init, P!Init
<1>3. P!IInv
  BY <1>2, AnimationIsFine, P!InitEstablishes
<1>4. BufferInv
  BY InitIsFine DEF Init
<1> QED
  BY <1>1, <1>3, <1>4 DEF Parts, FilesAreReadAsWritten

LEMMA PageTaken ==
  ASSUME P!IInv, NEW n \in {N_KEYS_ON_INIT, KeysPerPage}, Anim!GetNKeys(n)
  PROVE  P!IInv' /\ data' = data
<1>1. P!GetNKeys(n)
  BY SamePaging
<1> QED
  BY <1>1, AnimationIsFine, ChannelsHaveKeys, P!PagePreserves DEF P!GetNKeys

LEMMA RestPaging == ASSUME P!IInv, UNCHANGED animVars PROVE P!IInv'
BY DEF animVars, P!IInv, P!TypeOK, P!Positions, P!NothingLostOrRepeated,
       P!Delivered, P!END

LEMMA RestBuffer == ASSUME BufferInv, UNCHANGED bufferVars PROVE BufferInv'
BY BufferKeeps

LEMMA StepParts == Parts /\ [Next]_vars => Parts'
<1> SUFFICES ASSUME Parts, [Next]_vars PROVE Parts'
  OBVIOUS
<1>1. P!IInv /\ BufferInv /\ FilesAreReadAsWritten
  BY DEF Parts
<1>2. CASE UNCHANGED vars
  BY <1>1, <1>2, RestPaging, RestBuffer DEF vars, animVars, Parts, FilesAreReadAsWritten
<1>3. CASE TakeFirstPage
  BY <1>1, <1>3, PageTaken, RestBuffer, Sizes
     DEF TakeFirstPage, Parts, FilesAreReadAsWritten
<1>4. CASE ChooseChannel \/ SendPacket \/ EndChannel \/ EndUpload \/ EndShow
  <2>1. UNCHANGED <<animVars, bufferVars, type>>
    BY <1>4 DEF ChooseChannel, SendPacket, EndChannel, EndUpload, EndShow
  <2> QED
    BY <1>1, <2>1, RestPaging, RestBuffer DEF animVars, Parts, FilesAreReadAsWritten
<1>5. CASE TakeNextPage
  <2> DEFINE lists == [ch \in Channel |-> Anim!PageOf(ch, KeysPerPage)]
  <2>1. lists \in Page
    <3>1. \A ch \in Channel : /\ Anim!PageOf(ch, KeysPerPage) \in Seq(Key)
                              /\ Len(Anim!PageOf(ch, KeysPerPage)) <= KeysPerPage
      BY <1>1, Sizes, PageOfChannel
    <3> QED
      BY <3>1 DEF Page
  <2>2. Construct(lists)
    BY <1>5 DEF TakeNextPage
  <2>3. BufferInv'
    <3> HIDE DEF lists
    <3> QED
      BY <1>1, <2>1, <2>2, ConstructKeeps
  <2>4. Anim!GetNKeys(KeysPerPage) /\ type' = type
    BY <1>5 DEF TakeNextPage
  <2>5. P!IInv' /\ data' = data
    BY <1>1, <2>4, PageTaken, Sizes
  <2> QED
    BY <1>1, <2>3, <2>4, <2>5 DEF Parts, FilesAreReadAsWritten
<1>6. CASE BuildPage
  <2>1. UNCHANGED <<animVars, type>> /\ Build
    BY <1>6 DEF BuildPage
  <2>2. BufferInv'
    BY <1>1, <2>1, BufferKeeps DEF BufferNext
  <2> QED
    BY <1>1, <2>1, <2>2, RestPaging DEF animVars, Parts, FilesAreReadAsWritten
<1>7. CASE SendKeys
  <2>1. UNCHANGED <<animVars, type>> /\ Release
    BY <1>7 DEF SendKeys
  <2>2. BufferInv'
    BY <1>1, <2>1, ReleaseKeeps
  <2> QED
    BY <1>1, <2>1, <2>2, RestPaging DEF animVars, Parts, FilesAreReadAsWritten
<1> QED
  BY <1>2, <1>3, <1>4, <1>5, <1>6, <1>7 DEF Next

LEMMA PartsInvariant == Spec => []Parts
BY InitParts, StepParts, PTL DEF Spec

(* An animation that comes from a file is the one that was exported.       *)
THEOREM FilesRead == Spec => []FilesAreReadAsWritten
<1>1. Parts => FilesAreReadAsWritten
  BY DEF Parts
<1> QED
  BY <1>1, PartsInvariant, PTL

(* The buffer of every page that is sent has room for what is written.     *)
THEOREM SentPagesFit == Spec => []WritesStayInTheBuffer
<1>1. Parts => WritesStayInTheBuffer
  BY RoomToWrite DEF Parts
<1> QED
  BY <1>1, PartsInvariant, PTL

(* In every page that is sent each node finds its keys.                    *)
THEOREM SentPagesAreRead == Spec => []NodesReadTheirKeys
<1>1. Parts => NodesReadTheirKeys
  BY PageIsRead DEF Parts
<1> QED
  BY <1>1, PartsInvariant, PTL
------------------------------------------------------------------------------
(* The upload over TCP: one packet.                                        *)
LEMMA SingleIsRead ==
  ASSUME NEW part \in Seq(Key), Len(part) < CountMod
  PROVE  ReadSingle(Single(part)) = part
<1> DEFINE n == Len(part)
           buffer == Single(part)
<1>1. n \in Nat /\ n % CountMod = n
  BY Widths, KeyframeDataAssumption
<1>2. buffer = [a \in 0 .. 7 * n |->
                  IF a = 0 THEN Byte(n, 0, 1)
                  ELSE Byte(part[((a - 1) \div 7) + 1], (a - 1) % 7, 7)]
  BY <1>1 DEF Single, KeyBytes
<1> HIDE DEF buffer, n
<1>3. Get(buffer, 0, 1) = n
  <2>1. 0 \in DOMAIN buffer /\ buffer[0] = Byte(n, 0, 1)
    BY <1>1, <1>2
  <2>2. \A i \in 0 .. 1 - 1 : i = 0 /\ 0 + i = 0
    OBVIOUS
  <2>3. Holds(buffer, 0, n, 1) /\ 0 \in Int /\ 1 \in Nat \ {0}
    BY <2>1, <2>2 DEF Holds
  <2> QED
    BY <2>3, HeldIsRead
<1>4. ASSUME NEW j \in 1 .. n PROVE Get(buffer, 1 + 7 * (j - 1), 7) = part[j]
  <2> DEFINE c == j - 1
             address == 1 + 7 * c
  <2>1. c \in Nat /\ c + 1 = j /\ c + 1 <= n /\ address \in Int /\ 7 \in Nat \ {0}
    BY <1>1
  <2>2. ASSUME NEW i \in 0 .. 6
        PROVE  address + i \in DOMAIN buffer /\ buffer[address + i] = Byte(part[j], i, 7)
    <3> DEFINE a == address + i
    <3>1. a - 1 = 7 * c + i /\ a \in Nat /\ a # 0 /\ a \in 0 .. 7 * n
      <4> HIDE DEF c
      <4> QED
        BY <1>1, <2>1
    <3> HIDE DEF a, c
    <3>2. (a - 1) \div 7 = c /\ (a - 1) % 7 = i
      BY <2>1, <3>1, Quotients
    <3>3. a \in DOMAIN buffer /\ buffer[a] = Byte(part[j], i, 7)
      BY <1>2, <2>1, <3>1, <3>2
    <3> QED
      BY <3>3 DEF a
  <2> HIDE DEF address
  <2>3. Holds(buffer, address, part[j], 7)
    BY <2>2 DEF Holds
  <2>4. Get(buffer, address, 7) = part[j]
    BY <2>1, <2>3, HeldIsRead
  <2> QED
    BY <2>4 DEF address
<1>5. ReadSingle(buffer) = [j \in 1 .. n |-> part[j]]
  BY <1>3, <1>4 DEF ReadSingle, KeysAt, KeyBytes
<1>6. part = [j \in 1 .. n |-> part[j]]
  BY DEF n
<1> QED
  BY <1>5, <1>6 DEF buffer

(* A node has got keys up to a first cut, and the packets that follow end  *)
(* at one cut after the other, the last of them with the last key.  The    *)
(* number of keys in each fits its byte.                                   *)
Cut(parts, keys, got, cut) ==
  /\ got = SubSeq(keys, 1, cut[0]) /\ cut[Len(parts)] = Len(keys)
  /\ \A i \in 1 .. Len(parts) :
       /\ cut[i - 1] <= cut[i] /\ cut[i] - cut[i - 1] < CountMod
       /\ parts[i] = SubSeq(keys, cut[i - 1] + 1, cut[i])

OnItsWay(parts, keys, got) ==
  /\ parts \in Seq(Seq(Key))
  /\ \E cut \in [0 .. Len(parts) -> 0 .. Len(keys)] : Cut(parts, keys, got, cut)

LEMMA JoinedParts ==
  ASSUME NEW keys \in Seq(Key), NEW b \in 0 .. Len(keys), NEW a \in 0 .. b
  PROVE  SubSeq(keys, 1, a) \o SubSeq(keys, a + 1, b) = SubSeq(keys, 1, b)
<1>1. Len(keys) \in Nat
  OBVIOUS
<1>2. 1 \in 1 .. Len(keys) + 1 /\ a \in 1 - 1 .. Len(keys) /\ b \in a .. Len(keys)
  BY <1>1
<1> QED
  BY <1>2, ConcatAdjacentSubSeq

LEMMA PartOf ==
  ASSUME NEW keys \in Seq(Key), NEW b \in 0 .. Len(keys), NEW a \in 0 .. b
  PROVE  SubSeq(keys, a + 1, b) \in Seq(Key) /\ Len(SubSeq(keys, a + 1, b)) = b - a
<1>1. Len(keys) \in Nat /\ a \in Nat /\ b \in Nat /\ a <= b /\ b <= Len(keys)
  OBVIOUS
<1>2. a + 1 \in Int /\ b \in Int /\ \A i \in a + 1 .. b : keys[i] \in Key
  BY <1>1, ElementOfSeq
<1>3. /\ SubSeq(keys, a + 1, b) \in Seq(Key)
      /\ Len(SubSeq(keys, a + 1, b)) = IF a + 1 <= b THEN b - (a + 1) + 1 ELSE 0
  BY <1>2, SubSeqProperties
<1> QED
  BY <1>1, <1>3

(* The next packet arrives.                                                *)
LEMMA PacketArrives ==
  ASSUME NEW parts, NEW keys \in Seq(Key), NEW got, OnItsWay(parts, keys, got),
         parts # << >>
  PROVE  /\ ReadSingle(Single(Head(parts))) = Head(parts) /\ Head(parts) \in Seq(Key)
         /\ OnItsWay(Tail(parts), keys, got \o Head(parts))
<1>1. PICK cut \in [0 .. Len(parts) -> 0 .. Len(keys)] : Cut(parts, keys, got, cut)
  BY DEF OnItsWay
<1> DEFINE n == Len(parts)
           total == Len(keys)
           rest == Tail(parts)
           cuts == [i \in 0 .. n - 1 |-> cut[i + 1]]
<1>2. /\ n \in Nat /\ n > 0 /\ total \in Nat /\ parts \in Seq(Seq(Key))
      /\ Head(parts) = parts[1] /\ rest \in Seq(Seq(Key))
      /\ Len(rest) = n - 1 /\ \A i \in 1 .. n - 1 : rest[i] = parts[i + 1]
  <2>1. parts \in Seq(Seq(Key))
    BY DEF OnItsWay
  <2>2. n \in Nat /\ n # 0
    BY <2>1, EmptySeq
  <2> QED
    BY <2>1, <2>2, HeadTailProperties
<1> HIDE DEF rest
<1>3. /\ got = SubSeq(keys, 1, cut[0]) /\ cut[n] = total
      /\ \A i \in 0 .. n : cut[i] \in 0 .. total
      /\ \A i \in 1 .. n :
           /\ cut[i - 1] <= cut[i] /\ cut[i] - cut[i - 1] < CountMod
           /\ parts[i] = SubSeq(keys, cut[i - 1] + 1, cut[i])
  BY <1>1 DEF Cut
<1> HIDE DEF n
<1>4. /\ cut[0] \in 0 .. total /\ cut[1] \in 0 .. total /\ cut[0] <= cut[1]
      /\ cut[1] - cut[0] < CountMod
      /\ Head(parts) = SubSeq(keys, cut[0] + 1, cut[1])
  <2>1. 0 \in 0 .. n /\ 1 \in 0 .. n /\ 1 \in 1 .. n /\ 1 - 1 = 0
    BY <1>2
  <2> QED
    BY <1>2, <1>3, <2>1
<1> DEFINE a == cut[0]
           b == cut[1]
<1>5. b \in 0 .. total /\ a \in 0 .. b /\ b - a < CountMod
      /\ Head(parts) = SubSeq(keys, a + 1, b) /\ got = SubSeq(keys, 1, a)
  <2>1. /\ a \in 0 .. total /\ b \in 0 .. total /\ a <= b
        /\ b - a < CountMod /\ Head(parts) = SubSeq(keys, a + 1, b)
        /\ got = SubSeq(keys, 1, a)
    BY <1>3, <1>4
  <2> HIDE DEF a, b, total
  <2> QED
    BY <1>2, <2>1
<1> HIDE DEF a, b
<1>6. /\ Head(parts) \in Seq(Key) /\ Len(Head(parts)) < CountMod
      /\ got \o Head(parts) = SubSeq(keys, 1, b)
  BY <1>5, PartOf, JoinedParts
<1>7. /\ cuts \in [0 .. n - 1 -> 0 .. total]
      /\ \A i \in 0 .. n - 1 : cuts[i] = cut[i + 1]
  <2>1. \A i \in 0 .. n - 1 : i + 1 \in 0 .. n
    BY <1>2
  <2> QED
    BY <1>3, <2>1
<1> HIDE DEF cuts
<1>8. cuts[0] = b /\ cuts[n - 1] = total
  <2>1. 0 \in 0 .. n - 1 /\ n - 1 \in 0 .. n - 1 /\ 0 + 1 = 1 /\ (n - 1) + 1 = n
    BY <1>2
  <2> QED
    BY <1>3, <1>7, <2>1 DEF b
<1>9. ASSUME NEW i \in 1 .. n - 1
      PROVE  /\ cuts[i - 1] <= cuts[i] /\ cuts[i] - cuts[i - 1] < CountMod
             /\ rest[i] = SubSeq(keys, cuts[i - 1] + 1, cuts[i])
  <2>1. /\ i + 1 \in 1 .. n /\ (i + 1) - 1 = i /\ (i - 1) + 1 = i
        /\ i \in 0 .. n - 1 /\ i - 1 \in 0 .. n - 1
    BY <1>2
  <2>2. cuts[i] = cut[i + 1] /\ cuts[i - 1] = cut[i]
    BY <1>7, <2>1
  <2>3. /\ cut[i] <= cut[i + 1] /\ cut[i + 1] - cut[i] < CountMod
        /\ parts[i + 1] = SubSeq(keys, cut[i] + 1, cut[i + 1])
    BY <1>3, <2>1
  <2> QED
    BY <1>2, <2>2, <2>3
<1>10. Cut(rest, keys, got \o Head(parts), cuts)
  BY <1>2, <1>6, <1>8, <1>9 DEF Cut
<1>11. OnItsWay(rest, keys, got \o Head(parts))
  BY <1>2, <1>7, <1>10 DEF OnItsWay
<1> QED
  BY <1>6, <1>11, SingleIsRead DEF rest

(* The last packet has arrived.                                            *)
LEMMA NothingOnItsWay ==
  ASSUME NEW keys \in Seq(Key), NEW got, OnItsWay(<< >>, keys, got)
  PROVE  got = keys
<1>1. Len(<< >>) = 0
  BY EmptySeq
<1>2. PICK cut \in [0 .. 0 -> 0 .. Len(keys)] : Cut(<< >>, keys, got, cut)
  BY <1>1 DEF OnItsWay
<1>3. got = SubSeq(keys, 1, Len(keys))
  BY <1>1, <1>2 DEF Cut
<1> QED
  BY <1>3, SubSeqFull

(* What sendInitialKeys() makes of a channel is all of it, in packets that *)
(* are not too long for the byte that says how many keys they have.        *)
LEMMA Multiples ==
  /\ \A n \in Nat : n * 0 = 0
  /\ \A n, i \in Nat : n * (i + 1) = n * i + n /\ n * i \in Nat
  /\ \A n, i, j \in Nat : i <= j => n * i <= n * j
  /\ \A n \in Nat \ {0} : \A m \in Nat :
       /\ m \div n \in Nat /\ m % n \in Nat /\ m % n < n
       /\ m = n * (m \div n) + (m % n)
<1>1. \A n \in Nat : n * 0 = 0
  OBVIOUS
<1>2. \A n, i \in Nat : n * (i + 1) = n * i + n /\ n * i \in Nat
  OBVIOUS
<1>3. \A n, i, j \in Nat : i <= j => n * i <= n * j
  OBVIOUS
<1>4. \A n \in Nat \ {0} : \A m \in Nat :
        /\ m \div n \in Nat /\ m % n \in Nat /\ m % n < n
        /\ m = n * (m \div n) + (m % n)
  <2>1. \A n \in Nat \ {0} : \A m \in Nat : m \div n \in Nat
    OBVIOUS
  <2>2. \A n \in Nat \ {0} : \A m \in Nat : m % n \in Nat /\ m % n < n
    OBVIOUS
  <2>3. \A n \in Nat \ {0} : \A m \in Nat : m = n * (m \div n) + (m % n)
    OBVIOUS
  <2> QED
    BY <2>1, <2>2, <2>3
<1> QED
  BY <1>1, <1>2, <1>3, <1>4

LEMMA SplitIsOnItsWay ==
  ASSUME NEW keys \in Seq(Key)
  PROVE  OnItsWay(Split(keys), keys, << >>)
<1> DEFINE n == MAX_KEYS_PER_PACKET_INIT_MODE
           total == Len(keys)
           q == total \div n
           r == total % n
           part(i) == SubSeq(keys, n * (i - 1) + 1, n * i)
           full == [i \in 1 .. q |-> part(i)]
           rest == SubSeq(keys, n * q + 1, total)
<1>1. n \in Nat \ {0} /\ n < CountMod /\ total \in Nat /\ CountMod \in Nat
  BY DeliveryAssumption, KeyframeDataAssumption
<1>2. << >> = SubSeq(keys, 1, 0)
  BY SubSeqEmpty
<1>3. ASSUME keys # << >>, total < n PROVE OnItsWay(Split(keys), keys, << >>)
  <2> DEFINE cut == [i \in 0 .. 1 |-> IF i = 0 THEN 0 ELSE total]
  <2>1. Split(keys) = <<keys>>
    BY <1>3 DEF Split
  <2>2. /\ <<keys>> \in Seq(Seq(Key)) /\ Len(<<keys>>) = 1 /\ <<keys>>[1] = keys
    OBVIOUS
  <2>3. cut \in [0 .. 1 -> 0 .. total] /\ cut[0] = 0 /\ cut[1] = total
    BY <1>1
  <2> HIDE DEF cut
  <2>4. ASSUME NEW i \in 1 .. 1
        PROVE  /\ cut[i - 1] <= cut[i] /\ cut[i] - cut[i - 1] < CountMod
               /\ <<keys>>[i] = SubSeq(keys, cut[i - 1] + 1, cut[i])
    <3>1. i = 1 /\ i - 1 = 0 /\ 0 + 1 = 1
      OBVIOUS
    <3>2. keys = SubSeq(keys, 1, total)
      BY SubSeqFull
    <3>3. cut[0] <= cut[1] /\ cut[1] - cut[0] < CountMod
      BY <1>1, <1>3, <2>3
    <3> QED
      BY <2>2, <2>3, <3>1, <3>2, <3>3
  <2>5. Cut(<<keys>>, keys, << >>, cut)
    BY <1>2, <2>2, <2>3, <2>4 DEF Cut
  <2> QED
    BY <2>1, <2>2, <2>3, <2>5 DEF OnItsWay
<1>4. /\ q \in Nat /\ r \in Nat /\ r < n /\ n * q \in Nat
      /\ total = n * q + r
      /\ n * 0 = 0
      /\ \A i \in 0 .. q : n * i \in Nat /\ n * i <= n * q
      /\ \A i \in 1 .. q : n * i = n * (i - 1) + n /\ n * (i - 1) \in Nat
  <2>1. /\ q \in Nat /\ r \in Nat /\ r < n /\ total = n * q + r
    BY <1>1, Multiples
  <2> HIDE DEF q, r, n
  <2>2. n * q \in Nat /\ n * 0 = 0
    BY <1>1, <2>1, Multiples
  <2>3. \A i \in 0 .. q : n * i \in Nat /\ n * i <= n * q
    BY <1>1, <2>1, Multiples
  <2>4. ASSUME NEW i \in 1 .. q PROVE n * i = n * (i - 1) + n /\ n * (i - 1) \in Nat
    <3> DEFINE j == i - 1
    <3>1. j \in Nat /\ i = j + 1 /\ n \in Nat
      BY <1>1
    <3> HIDE DEF j
    <3>2. n * (j + 1) = n * j + n /\ n * j \in Nat
      BY <3>1, Multiples
    <3>3. n * i = n * j + n /\ n * j \in Nat
      BY <3>1, <3>2
    <3> QED
      BY <3>3 DEF j
  <2> QED
    BY <2>1, <2>2, <2>3, <2>4
<1>5. Split(keys) = IF keys # << >> /\ total < n THEN <<keys>>
                    ELSE IF r > 0 THEN Append(full, rest) ELSE full
  BY DEF Split
<1> DEFINE at == [i \in 0 .. q |-> n * i]
<1>6. /\ at[0] = 0 /\ at[q] = n * q
      /\ \A i \in 0 .. q : at[i] \in 0 .. n * q /\ at[i] \in 0 .. total
      /\ \A i \in 1 .. q : /\ at[i - 1] <= at[i] /\ at[i] - at[i - 1] < CountMod
                           /\ part(i) = SubSeq(keys, at[i - 1] + 1, at[i])
  <2>1. \A i \in 0 .. q : at[i] = n * i
    OBVIOUS
  <2>2. 0 \in 0 .. q /\ q \in 0 .. q
    BY <1>4
  <2>3. ASSUME NEW i \in 0 .. q PROVE at[i] \in 0 .. n * q /\ at[i] \in 0 .. total
    <3> DEFINE x == n * i
               y == n * q
    <3>1. x \in Nat /\ x <= y /\ y \in Nat /\ total = y + r /\ r \in Nat
      BY <1>4
    <3>2. x \in 0 .. y /\ x \in 0 .. total
      <4> HIDE DEF x, y, r, total
      <4> QED
        BY <3>1
    <3> QED
      BY <2>1, <3>2
  <2>4. ASSUME NEW i \in 1 .. q
        PROVE  /\ at[i - 1] <= at[i] /\ at[i] - at[i - 1] < CountMod
               /\ part(i) = SubSeq(keys, at[i - 1] + 1, at[i])
    <3> DEFINE x == n * i
               y == n * (i - 1)
    <3>1. at[i] = x /\ at[i - 1] = y
      BY <1>4, <2>1
    <3>2. x = y + n /\ y \in Nat /\ n \in Nat /\ n < CountMod /\ CountMod \in Nat
      BY <1>1, <1>4
    <3>3. y <= x /\ x - y < CountMod
      <4> HIDE DEF x, y, n
      <4> QED
        BY <3>2
    <3> QED
      BY <3>1, <3>3
  <2> QED
    BY <1>4, <2>1, <2>2, <2>3, <2>4
<1>7. full \in Seq(Seq(Key)) /\ Len(full) = q /\ \A i \in 1 .. q : full[i] = part(i)
  <2>1. ASSUME NEW i \in 1 .. q PROVE part(i) \in Seq(Key)
    <3>1. /\ i - 1 \in 0 .. q /\ i \in 0 .. q
      BY <1>4
    <3>2. /\ at[i] \in 0 .. total /\ at[i - 1] \in 0 .. total /\ at[i - 1] <= at[i]
          /\ part(i) = SubSeq(keys, at[i - 1] + 1, at[i])
      BY <1>6, <3>1
    <3>3. at[i - 1] \in 0 .. at[i]
      <4> DEFINE x == at[i]
                 y == at[i - 1]
      <4>1. x \in 0 .. total /\ y \in 0 .. total /\ y <= x /\ total \in Nat
        BY <1>1, <3>2
      <4>2. y \in 0 .. x
        <5> HIDE DEF x, y, total
        <5> QED
          BY <4>1
      <4> QED
        BY <4>2
    <3> HIDE DEF at, part
    <3> QED
      BY <3>2, <3>3, PartOf
  <2>2. full \in [1 .. q -> Seq(Key)] /\ q \in Nat
    BY <1>4, <2>1
  <2> HIDE DEF q, part
  <2> QED
    BY <2>2
<1> HIDE DEF part, full, at
<1>8. CASE ~ (keys # << >> /\ total < n) /\ r = 0
  <2> DEFINE cut == at
  <2>1. Split(keys) = full
    BY <1>5, <1>8
  <2>2. total = n * q
    BY <1>4, <1>8
  <2>3. at \in [0 .. q -> 0 .. total]
    BY <1>6 DEF at
  <2> HIDE DEF q
  <2>4. Cut(full, keys, << >>, at)
    BY <1>2, <1>6, <1>7, <2>2 DEF Cut
  <2> QED
    BY <1>7, <2>1, <2>3, <2>4 DEF OnItsWay
<1>9. CASE ~ (keys # << >> /\ total < n) /\ r > 0
  <2> DEFINE parts == Append(full, rest)
             cut == [i \in 0 .. q + 1 |-> IF i <= q THEN at[i] ELSE total]
  <2>1. Split(keys) = parts
    BY <1>5, <1>9
  <2>2. n * q \in 0 .. total /\ total \in 0 .. total /\ total - n * q < CountMod
    <3> DEFINE y == n * q
    <3>1. y \in Nat /\ total = y + r /\ r \in Nat /\ r < n /\ n < CountMod
          /\ n \in Nat /\ CountMod \in Nat
      BY <1>1, <1>4
    <3> HIDE DEF y, r, n, total
    <3>2. y \in 0 .. total /\ total \in 0 .. total /\ total - y < CountMod
      BY <3>1
    <3> QED
      BY <3>2 DEF y
  <2>3. rest \in Seq(Key)
    BY <2>2, PartOf
  <2> HIDE DEF rest
  <2>4. /\ parts \in Seq(Seq(Key)) /\ Len(parts) = q + 1 /\ parts[q + 1] = rest
        /\ \A i \in 1 .. q : parts[i] = part(i)
    BY <1>7, <2>3, AppendProperties
  <2>5. /\ \A i \in 0 .. q : cut[i] = at[i]
        /\ cut[q + 1] = total
        /\ cut \in [0 .. q + 1 -> 0 .. total]
    <3>1. /\ \A i \in 0 .. q : i <= q /\ i \in 0 .. q + 1
          /\ q + 1 \in 0 .. q + 1 /\ ~ (q + 1 <= q)
          /\ \A i \in 0 .. q + 1 : i <= q => i \in 0 .. q
      BY <1>4
    <3> HIDE DEF q
    <3> QED
      BY <1>6, <2>2, <3>1
  <2> HIDE DEF parts, cut
  <2>6. ASSUME NEW i \in 1 .. q + 1
        PROVE  /\ cut[i - 1] <= cut[i] /\ cut[i] - cut[i - 1] < CountMod
               /\ parts[i] = SubSeq(keys, cut[i - 1] + 1, cut[i])
    <3>1. /\ i \in 1 .. q \/ i = q + 1
          /\ i - 1 \in 0 .. q
          /\ i \in 1 .. q => i \in 0 .. q
          /\ (q + 1) - 1 = q /\ q \in 0 .. q
      <4>1. q \in Nat
        BY <1>4
      <4> HIDE DEF q
      <4> QED
        BY <4>1
    <3>2. CASE i \in 1 .. q
      <4>1. cut[i] = at[i] /\ cut[i - 1] = at[i - 1]
        BY <2>5, <3>1, <3>2
      <4> QED
        BY <1>6, <2>4, <3>2, <4>1
    <3>3. CASE i = q + 1
      <4>1. cut[i] = total /\ cut[i - 1] = n * q
        BY <1>6, <2>5, <3>1, <3>3
      <4>2. n * q <= total
        BY <2>2
      <4>3. parts[i] = SubSeq(keys, n * q + 1, total)
        BY <2>4, <3>3 DEF rest
      <4> QED
        BY <2>2, <4>1, <4>2, <4>3
    <3> QED
      BY <3>1, <3>2, <3>3
  <2>7. cut[0] = 0
    BY <1>4, <1>6, <2>5
  <2>8. Cut(parts, keys, << >>, cut)
    BY <1>2, <2>4, <2>5, <2>6, <2>7 DEF Cut
  <2> QED
    BY <2>1, <2>4, <2>5, <2>8 DEF OnItsWay
<1>10. r = 0 \/ r > 0
  BY <1>4
<1> QED
  BY <1>3, <1>8, <1>9, <1>10
------------------------------------------------------------------------------
(* Where the play thread is, and what each node has got by then.           *)
Places ==
  /\ pc \in {"start", "choosing", "uploading", "streaming", "sending", "done"}
  /\ chNum \in 0 .. NChannels
  /\ pc = "start" => chNum = 0
  /\ pc = "uploading" => chNum < NChannels
  /\ pc \in {"streaming", "sending", "done"} => chNum = NChannels
  /\ pc = "done" /\ type = "SINGLE" => Anim!FirstKeyout = KEYTIME_MAX
  /\ received \in [Channel -> Seq(Key)]

Arrived(ch) ==
  /\ pc = "start" => sent[ch] = << >>
  /\ pc \in {"choosing", "uploading"} => list[ch] = sent[ch]
  /\ pc = "sending" => sent[ch] = received[ch] \o chKeys[ch]
  /\ pc # "sending" /\ ch < chNum => received[ch] = sent[ch]
  /\ pc = "uploading" /\ ch = chNum => OnItsWay(packets, sent[ch], received[ch])
  /\ ch > chNum \/ (ch = chNum /\ pc # "uploading") => received[ch] = << >>

Arrivals == Parts /\ Places /\ \A ch \in Channel : Arrived(ch)

LEMMA ChannelNumbers ==
  /\ NChannels \in Nat /\ NChannels > 0
  /\ \A ch \in Channel : ch \in Nat /\ ch < NChannels
  /\ \A n \in 0 .. NChannels : n < NChannels => n \in Channel /\ n + 1 \in 0 .. NChannels
BY KeyframeDataAssumption DEF Channel

LEMMA SentIsFine ==
  ASSUME P!IInv, NEW ch \in Channel
  PROVE  sent[ch] \in Seq(Key) /\ data[ch] \in Seq(Key)
<1>1. sent[ch] \in Seq(P!Time) /\ data[ch] \in Seq(P!Time)
  BY AnimationIsFine, ChannelsHaveKeys, P!ChannelTypes
<1> QED
  BY <1>1, Sizes

LEMMA InitArrivals == Init => Arrivals
<1> SUFFICES ASSUME Init PROVE Arrivals
  OBVIOUS
<1>1. Places
  <2>1. received \in [Channel -> Seq(Key)]
    BY EmptySeq DEF Init
  <2> QED
    BY <2>1, ChannelNumbers DEF Init, Places
<1>2. \A ch \in Channel : Arrived(ch)
  BY ChannelNumbers DEF Init, Arrived
<1> QED
  BY <1>1, <1>2, InitParts DEF Arrivals

(* The first page is the list that is uploaded.                            *)
LEMMA FirstPageArrives ==
  ASSUME Arrivals, TakeFirstPage PROVE Places' /\ \A ch \in Channel : Arrived(ch)'
<1>1. /\ pc = "start" /\ pc' = "choosing" /\ chNum = 0 /\ P!IInv
      /\ UNCHANGED <<bufferVars, type, chNum, packets, received>>
  BY DEF Arrivals, Parts, Places, TakeFirstPage
<1>2. Places'
  BY <1>1 DEF Arrivals, Places
<1>3. ASSUME NEW ch \in Channel PROVE Arrived(ch)'
  <2> DEFINE page == Anim!PageOf(ch, N_KEYS_ON_INIT)
  <2>1. sent[ch] = << >> /\ received[ch] = << >>
    BY <1>1, ChannelNumbers DEF Arrivals, Arrived
  <2>2. sent'[ch] = sent[ch] \o page /\ list'[ch] = page
    BY DEF TakeFirstPage, Anim!GetNKeys
  <2>3. page \in Seq(Key)
    BY <1>1, Sizes, PageOfChannel
  <2> HIDE DEF page
  <2>4. sent'[ch] = page
    BY <2>1, <2>2, <2>3, ConcatEmptySeq
  <2> QED
    BY <1>1, <2>1, <2>2, <2>4, ChannelNumbers DEF Arrived
<1> QED
  BY <1>2, <1>3

(* The upload of one channel.                                              *)
LEMMA UploadArrives ==
  ASSUME Arrivals, ChooseChannel \/ SendPacket \/ EndChannel \/ EndUpload
  PROVE  Places' /\ \A ch \in Channel : Arrived(ch)'
<1>1. /\ Places /\ P!IInv
      /\ chNum \in 0 .. NChannels /\ received \in [Channel -> Seq(Key)]
  BY DEF Arrivals, Parts, Places
<1>2. CASE ChooseChannel
  <2>1. /\ pc = "choosing" /\ pc' = "uploading" /\ chNum < NChannels
        /\ UNCHANGED <<animVars, bufferVars, type, list, chNum, received>>
        /\ packets' = Split(list[chNum]) /\ sent' = sent
    BY <1>2 DEF ChooseChannel, animVars
  <2>2. Places'
    BY <1>1, <2>1 DEF Places
  <2>3. ASSUME NEW ch \in Channel PROVE Arrived(ch)'
    <3>1. ch = chNum => OnItsWay(packets', sent[ch], received[ch])
      <4>1. ch = chNum => received[ch] = << >> /\ list[ch] = sent[ch]
        BY <2>1 DEF Arrivals, Arrived
      <4> QED
        BY <1>1, <2>1, <4>1, SentIsFine, SplitIsOnItsWay
    <3>2. Arrived(ch)
      BY DEF Arrivals
    <3> QED
      BY <2>1, <3>1, <3>2 DEF Arrived
  <2> QED
    BY <2>2, <2>3
<1>3. CASE SendPacket
  <2> DEFINE here == chNum
             part == Head(packets)
  <2>1. /\ pc = "uploading" /\ packets # << >> /\ packets' = Tail(packets)
        /\ received' = [received EXCEPT ![here] =
                          received[here] \o ReadSingle(Single(part))]
        /\ UNCHANGED <<animVars, bufferVars, pc, type, list, chNum>>
        /\ sent' = sent
    BY <1>3 DEF SendPacket, animVars
  <2>2. here \in Channel
    BY <1>1, <2>1, ChannelNumbers DEF Places
  <2>3. OnItsWay(packets, sent[here], received[here])
    BY <2>1, <2>2 DEF Arrivals, Arrived
  <2>4. /\ ReadSingle(Single(part)) = part /\ part \in Seq(Key)
        /\ OnItsWay(packets', sent[here], received[here] \o part)
    <3>1. sent[here] \in Seq(Key)
      BY <1>1, <2>2, SentIsFine
    <3> HIDE DEF here
    <3> QED
      BY <2>1, <2>3, <3>1, PacketArrives
  <2> HIDE DEF part
  <2>5. received[here] \o part \in Seq(Key)
    BY <1>1, <2>2, <2>4, ConcatProperties
  <2>6. /\ received' \in [Channel -> Seq(Key)]
        /\ received'[here] = received[here] \o part
        /\ \A ch \in Channel : ch # here => received'[ch] = received[ch]
    BY <1>1, <2>1, <2>2, <2>4, <2>5
  <2>7. Places'
    BY <1>1, <2>1, <2>6 DEF Places
  <2>8. ASSUME NEW ch \in Channel PROVE Arrived(ch)'
    <3>1. Arrived(ch)
      BY DEF Arrivals
    <3>2. CASE ch = here
      BY <1>1, <2>1, <2>4, <2>6, <3>1, <3>2, ChannelNumbers DEF Arrived
    <3>3. CASE ch # here
      BY <2>1, <2>6, <3>1, <3>3 DEF Arrived
    <3> QED
      BY <3>2, <3>3
  <2> QED
    BY <2>7, <2>8
<1>4. CASE EndChannel
  <2>1. /\ pc = "uploading" /\ pc' = "choosing" /\ packets = << >>
        /\ chNum' = chNum + 1
        /\ UNCHANGED <<animVars, bufferVars, type, list, packets, received>>
        /\ sent' = sent
    BY <1>4 DEF EndChannel, animVars
  <2>2. chNum \in Channel /\ chNum + 1 \in 0 .. NChannels /\ chNum \in Nat
    BY <1>1, <2>1, ChannelNumbers DEF Places
  <2>3. received[chNum] = sent[chNum]
    <3>1. OnItsWay(<< >>, sent[chNum], received[chNum])
      BY <2>1, <2>2 DEF Arrivals, Arrived
    <3>2. sent[chNum] \in Seq(Key)
      BY <1>1, <2>2, SentIsFine
    <3> QED
      BY <3>1, <3>2, NothingOnItsWay
  <2>4. Places'
    BY <1>1, <2>1, <2>2 DEF Places
  <2>5. ASSUME NEW ch \in Channel PROVE Arrived(ch)'
    <3>1. Arrived(ch) /\ ch \in Nat
      BY ChannelNumbers DEF Arrivals
    <3>2. /\ ch < chNum + 1 <=> ch < chNum \/ ch = chNum
          /\ ch > chNum + 1 \/ ch = chNum + 1 => ch > chNum
      BY <2>2, <3>1
    <3> QED
      BY <2>1, <2>2, <2>3, <3>1, <3>2 DEF Arrived
  <2> QED
    BY <2>4, <2>5
<1>5. CASE EndUpload
  <2>1. /\ pc = "choosing" /\ chNum = NChannels
        /\ pc' = (IF type = "SINGLE" THEN "streaming" ELSE "done")
        /\ UNCHANGED <<animVars, bufferVars, type, sendVars, received>>
        /\ sent' = sent /\ chNum' = chNum
    BY <1>5 DEF EndUpload, animVars, sendVars
  <2>2. Places'
    BY <1>1, <2>1, ChannelNumbers DEF Places
  <2>3. ASSUME NEW ch \in Channel PROVE Arrived(ch)'
    <3>1. Arrived(ch) /\ ch \in Nat /\ ch < NChannels /\ NChannels \in Nat
      BY ChannelNumbers DEF Arrivals
    <3>2. ~ (ch > chNum) /\ ch # chNum
      BY <2>1, <3>1
    <3> QED
      BY <2>1, <3>1, <3>2 DEF Arrived
  <2> QED
    BY <2>2, <2>3
<1> QED
  BY <1>2, <1>3, <1>4, <1>5

(* A page over UDP.                                                        *)
LEMMA PagesArrive ==
  ASSUME Arrivals, TakeNextPage \/ BuildPage \/ SendKeys \/ EndShow
  PROVE  Places' /\ \A ch \in Channel : Arrived(ch)'
<1>1. /\ Places /\ P!IInv /\ BufferInv
      /\ chNum \in 0 .. NChannels /\ received \in [Channel -> Seq(Key)]
  BY DEF Arrivals, Parts, Places
<1>2. ASSUME pc \in {"streaming", "sending"}, NEW ch \in Channel
      PROVE  Arrived(ch) /\ chNum = NChannels /\ ch < chNum /\ ~ (ch > chNum) /\ ch # chNum
  <2>1. Arrived(ch) /\ chNum = NChannels /\ ch \in Nat /\ ch < NChannels
        /\ NChannels \in Nat
    BY <1>2, ChannelNumbers DEF Arrivals, Places
  <2> QED
    BY <2>1
<1>3. CASE TakeNextPage
  <2> DEFINE page(ch) == Anim!PageOf(ch, KeysPerPage)
  <2>1. /\ pc = "streaming" /\ pc' = "sending" /\ Anim!GetNKeys(KeysPerPage)
        /\ chKeys' = [ch \in Channel |-> page(ch)]
        /\ UNCHANGED <<type, list, chNum, packets, received>>
    BY <1>3 DEF TakeNextPage, Construct, sendVars
  <2>2. Places'
    BY <1>1, <2>1 DEF Places
  <2>3. ASSUME NEW ch \in Channel PROVE Arrived(ch)'
    <3>1. sent'[ch] = sent[ch] \o page(ch)
      BY <2>1 DEF Anim!GetNKeys
    <3>2. received[ch] = sent[ch]
      BY <1>2, <2>1 DEF Arrived
    <3> QED
      BY <1>2, <2>1, <3>1, <3>2 DEF Arrived
  <2> QED
    BY <2>2, <2>3
<1>4. CASE BuildPage
  <2>1. /\ pc = "sending" /\ Build
        /\ UNCHANGED <<animVars, pc, type, list, chNum, packets, received>>
        /\ sent' = sent
    BY <1>4 DEF BuildPage, animVars, sendVars
  <2>2. chKeys' = chKeys
    BY <2>1 DEF Build, Count, Allocate, WriteIndex, CopyKey, EndList
  <2>3. Places'
    BY <1>1, <2>1 DEF Places
  <2>4. ASSUME NEW ch \in Channel PROVE Arrived(ch)'
    BY <1>2, <2>1, <2>2 DEF Arrived
  <2> QED
    BY <2>3, <2>4
<1>5. CASE SendKeys
  <2>1. /\ pc = "sending" /\ pc' = "streaming" /\ step = "built"
        /\ received' = [ch \in Channel |-> received[ch] \o ReadPage(data_, ch)]
        /\ UNCHANGED <<animVars, type, list, chNum, packets>>
        /\ sent' = sent
    BY <1>5 DEF SendKeys, Release, animVars, sendVars
  <2>2. \A ch \in Channel : ReadPage(data_, ch) = chKeys[ch]
    BY <1>1, <2>1, PageIsRead DEF NodesReadTheirKeys
  <2>3. \A ch \in Channel : received'[ch] = sent[ch]
    BY <1>2, <2>1, <2>2 DEF Arrived
  <2>4. received' \in [Channel -> Seq(Key)]
    BY <1>1, <2>1, <2>3, SentIsFine
  <2>5. Places'
    BY <1>1, <2>1, <2>4 DEF Places
  <2>6. ASSUME NEW ch \in Channel PROVE Arrived(ch)'
    BY <1>2, <2>1, <2>3 DEF Arrived
  <2> QED
    BY <2>5, <2>6
<1>6. CASE EndShow
  <2>1. /\ pc = "streaming" /\ pc' = "done" /\ Anim!FirstKeyout = KEYTIME_MAX
        /\ UNCHANGED <<animVars, bufferVars, type, list, chNum, packets, received>>
        /\ sent' = sent
    BY <1>6 DEF EndShow, animVars, sendVars
  <2>2. Anim!FirstKeyout' = Anim!FirstKeyout
    BY <2>1 DEF animVars, Anim!FirstKeyout, Anim!Earliest, Anim!OpenChannels,
       Anim!KeyAt, Anim!END
  <2>3. Places'
    BY <1>1, <2>1, <2>2 DEF Places
  <2>4. ASSUME NEW ch \in Channel PROVE Arrived(ch)'
    BY <1>2, <2>1 DEF Arrived
  <2> QED
    BY <2>3, <2>4
<1> QED
  BY <1>3, <1>4, <1>5, <1>6

LEMMA StepArrivals == Arrivals /\ [Next]_vars => Arrivals'
<1> SUFFICES ASSUME Arrivals, [Next]_vars PROVE Arrivals'
  OBVIOUS
<1>1. Parts'
  BY StepParts DEF Arrivals
<1>2. CASE UNCHANGED vars
  <2>1. /\ UNCHANGED <<pc, type, list, chNum, packets, received, chKeys>>
        /\ UNCHANGED animVars /\ sent' = sent
    BY <1>2 DEF vars, animVars, bufferVars, sendVars
  <2>2. Anim!FirstKeyout' = Anim!FirstKeyout
    BY <2>1 DEF animVars, Anim!FirstKeyout, Anim!Earliest, Anim!OpenChannels,
       Anim!KeyAt, Anim!END
  <2>3. Places'
    BY <2>1, <2>2 DEF Arrivals, Places
  <2>4. ASSUME NEW ch \in Channel PROVE Arrived(ch)'
    BY <2>1 DEF Arrivals, Arrived
  <2> QED
    BY <1>1, <2>3, <2>4 DEF Arrivals
<1>3. CASE Next
  BY <1>1, <1>3, FirstPageArrives, UploadArrives, PagesArrive DEF Next, Arrivals
<1> QED
  BY <1>2, <1>3

(* When the play thread is done, every node has inserted exactly the keys  *)
(* that its channel was asked for, and after a SINGLE these are all.       *)
DoneIsComplete ==
  pc = "done" => received = sent /\ (type = "SINGLE" => received = data)

LEMMA CompleteWhenDone == Arrivals => DoneIsComplete
<1> SUFFICES ASSUME Arrivals, pc = "done" PROVE DoneIsComplete
  BY DEF DoneIsComplete
<1>1. P!IInv /\ Places /\ received \in [Channel -> Seq(Key)]
  BY DEF Arrivals, Parts, Places
<1>2. sent \in [Channel -> Seq(P!Time)] /\ data \in [Channel -> Seq(P!Time)]
  BY <1>1, AnimationIsFine DEF P!IInv, P!TypeOK, P!AnimationAssumption
<1>3. \A ch \in Channel : received[ch] = sent[ch]
  BY <1>1, ChannelNumbers DEF Arrivals, Arrived, Places
<1>4. received = sent
  BY <1>1, <1>2, <1>3
<1>5. ASSUME type = "SINGLE" PROVE sent = data
  <2>1. P!FirstKeyout = KEYTIME_MAX
    BY <1>1, <1>5, SamePaging DEF Places
  <2>2. \A ch \in Channel : Len(sent[ch]) = Len(data[ch])
    BY <1>1, <2>1, AnimationIsFine, ChannelsHaveKeys, P!KeyoutIsHonest
       DEF P!KeyoutEndsWithTheLastKey
  <2>3. ASSUME NEW ch \in Channel PROVE sent[ch] = data[ch]
    <3>1. sent[ch] \in Seq(Key) /\ data[ch] \in Seq(Key)
      BY <1>1, SentIsFine
    <3>2. \A i \in 1 .. Len(sent[ch]) : sent[ch][i] = data[ch][i]
      BY <1>1 DEF P!IInv, P!NothingLostOrRepeated
    <3> QED
      BY <2>2, <3>1, <3>2, SeqEqual
  <2> QED
    BY <1>2, <2>3
<1> QED
  BY <1>4, <1>5 DEF DoneIsComplete

(* Nothing is lost, repeated or taken from another channel on the way from *)
(* the file to the nodes, however the upload and the pages are cut up.     *)
THEOREM DoneMeansDelivered == Spec => []DoneIsComplete
BY InitArrivals, StepArrivals, CompleteWhenDone, PTL DEF Spec
==============================================================================
