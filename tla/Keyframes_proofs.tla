-------------------------- MODULE Keyframes_proofs --------------------------
(***************************************************************************)
(* Proofs about Keyframes, for a heap of any size and any times: the       *)
(* pointers always describe the list, the counter counts it, and the list  *)
(* implements the queue of KeyQueue.                                       *)
(***************************************************************************)
EXTENDS Keyframes, SequenceTheorems, TLAPS

(* clearAll() took the counter before its loop, and as nothing else runs   *)
(* until the loop ends the two stay equal.                                 *)
ClearingCountsDown == clearing > 0 => clearing = internalSize

IInv ==
  /\ TypeOK
  /\ PointersFollowTheChain
  /\ NoLeakNoDangling
  /\ KeysInOrder
  /\ ClearingCountsDown
------------------------------------------------------------------------------
LEMMA InitEstablishes == Init => IInv
<1> SUFFICES ASSUME Init PROVE IInv
  OBVIOUS
<1>1. chain = << >> /\ << >> \in Seq(Cell) /\ Len(<< >>) = 0
  BY EmptySeq DEF Init
<1>2. Len(chain) = 0 /\ 1 .. Len(chain) = {}
  BY <1>1
<1>3. TypeOK
  BY <1>1 DEF Init, TypeOK
<1>4. PointersFollowTheChain
  BY <1>1, <1>2 DEF Init, PointersFollowTheChain
<1>5. NoLeakNoDangling
  BY <1>2 DEF Init, NoLeakNoDangling
<1>6. KeysInOrder
  <2>1. KeyTimes \in [{} -> Nat] /\ Len(KeyTimes) = 0
    BY <1>2 DEF KeyTimes
  <2> QED
    BY <2>1, 1 .. 0 = {} DEF KeysInOrder, Queue!InOrder
<1>7. ClearingCountsDown
  BY DEF Init, ClearingCountsDown
<1> QED
  BY <1>3, <1>4, <1>5, <1>6, <1>7 DEF IInv

LEMMA FunctionIsSequence ==
  ASSUME NEW S, NEW n \in Nat, NEW f \in [1 .. n -> S]
  PROVE  f \in Seq(S) /\ Len(f) = n
<1> QED
  OBVIOUS

(* The order of the times, said of the cells.                              *)
LEMMA OrderOfCells ==
  ASSUME chain \in Seq(Cell), time \in [Cell -> Nat]
  PROVE  /\ KeyTimes \in Seq(Nat)
         /\ Len(KeyTimes) = Len(chain)
         /\ \A i \in 1 .. Len(chain) : KeyTimes[i] = time[chain[i]]
         /\ KeysInOrder <=> \A i, j \in 1 .. Len(chain) :
                               i < j => time[chain[i]] <= time[chain[j]]
<1>1. Len(chain) \in Nat /\ \A i \in 1 .. Len(chain) : chain[i] \in Cell
  OBVIOUS
<1>2. KeyTimes \in [1 .. Len(chain) -> Nat]
  BY <1>1 DEF KeyTimes
<1>3. KeyTimes \in Seq(Nat) /\ Len(KeyTimes) = Len(chain)
  BY <1>1, <1>2
<1>4. \A i \in 1 .. Len(chain) : KeyTimes[i] = time[chain[i]]
  BY DEF KeyTimes
<1> QED
  BY <1>3, <1>4 DEF KeysInOrder, Queue!InOrder

(* A new cell is none of the list, so nothing of the list changes but the  *)
(* next pointer of its last cell.                                          *)
LEMMA AppendPreserves ==
  ASSUME IInv, NEW t \in Time, AppendKey(t), clearing = 0
  PROVE  IInv' /\ Queue!Insert(t)
<1> DEFINE N == Len(chain)
<1>1. PICK c \in Cell \ live :
        /\ live' = live \cup {c}
        /\ time' = [time EXCEPT ![c] = t]
        /\ next' = Linked(c)
        /\ first' = IF first = NULL THEN c ELSE first
        /\ last' = c
        /\ internalSize' = internalSize + 1
        /\ chain' = Append(chain, c)
        /\ UNCHANGED clearing
  BY DEF AppendKey
<1>2. /\ chain \in Seq(Cell) /\ N \in Nat /\ t \in Nat /\ NULL \notin Cell
      /\ next \in [Cell -> Cell \cup {NULL}] /\ time \in [Cell -> Nat]
      /\ \A i \in 1 .. N : chain[i] \in Cell /\ chain[i] \in live
      /\ \A i \in 1 .. N : chain[i] # c
  BY <1>1, HeapAssumption DEF IInv, TypeOK, NoLeakNoDangling
<1>3. /\ chain' \in Seq(Cell) /\ Len(chain') = N + 1
      /\ \A i \in 1 .. N : chain'[i] = chain[i]
      /\ chain'[N + 1] = c
  BY <1>1, <1>2, AppendProperties
<1> HIDE DEF N
<1>4. (first = NULL) <=> (N = 0)
  BY <1>2, EmptySeq DEF IInv, PointersFollowTheChain, N
<1>5. N # 0 => first = chain[1] /\ last = chain[N] /\ next[chain[N]] = NULL
  BY <1>2, EmptySeq DEF IInv, PointersFollowTheChain, N
<1>6. \A i \in 1 .. N - 1 : next[chain[i]] = chain[i + 1]
  BY DEF IInv, PointersFollowTheChain, N
<1>7. \A i, j \in 1 .. N : chain[i] = chain[j] => i = j
  BY DEF IInv, NoLeakNoDangling, N
<1>8. /\ next' \in [Cell -> Cell \cup {NULL}]
      /\ next'[c] = NULL
      /\ N # 0 => next'[chain[N]] = c
      /\ \A i \in 1 .. N - 1 : next'[chain[i]] = chain[i + 1]
  <2>1. CASE N = 0
    BY <1>1, <1>2, <1>4, <2>1 DEF Linked
  <2>2. CASE N # 0
    <3>1. next' = [next EXCEPT ![c] = NULL, ![chain[N]] = c]
      BY <1>1, <1>4, <1>5, <2>2 DEF Linked
    <3>2. N \in 1 .. N /\ chain[N] \in Cell /\ chain[N] # c
      BY <1>2, <2>2
    <3>3. \A i \in 1 .. N - 1 : chain[i] \in Cell /\ chain[i] # c /\ chain[i] # chain[N]
      BY <1>2, <1>7, <2>2
    <3>4. next' \in [Cell -> Cell \cup {NULL}] /\ next'[c] = NULL
      BY <1>1, <1>2, <3>1, <3>2
    <3>5. next'[chain[N]] = c
      BY <1>1, <1>2, <3>1, <3>2
    <3>6. \A i \in 1 .. N - 1 : next'[chain[i]] = next[chain[i]]
      BY <1>2, <3>1, <3>3
    <3> QED
      BY <1>6, <3>4, <3>5, <3>6
  <2> QED
    BY <2>1, <2>2
<1>9. PointersFollowTheChain'
  <2>1. first' = chain'[1]
    BY <1>1, <1>2, <1>3, <1>4, <1>5
  <2>2. ASSUME NEW i \in 1 .. N PROVE next'[chain'[i]] = chain'[i + 1]
    <3>1. CASE i = N
      BY <1>2, <1>3, <1>8, <3>1
    <3>2. CASE i # N
      <4>1. i \in 1 .. N - 1 /\ i + 1 \in 1 .. N
        BY <1>2, <3>2
      <4> QED
        BY <1>3, <1>8, <4>1
    <3> QED
      BY <3>1, <3>2
  <2>3. chain' # << >>
    BY <1>2, <1>3, EmptySeq
  <2> QED
    BY <1>1, <1>2, <1>3, <1>8, <2>1, <2>2, <2>3 DEF PointersFollowTheChain
<1>10. TypeOK'
  BY <1>1, <1>2, <1>3, <1>8 DEF TypeOK, IInv
<1>11. NoLeakNoDangling'
  <2>1. internalSize' = Len(chain')
    BY <1>1, <1>2, <1>3 DEF IInv, NoLeakNoDangling, N
  <2>2. live = {chain[i] : i \in 1 .. N}
    BY DEF IInv, NoLeakNoDangling, N
  <2>3. live' = {chain'[i] : i \in 1 .. N + 1}
    <3>1. 1 .. N + 1 = (1 .. N) \cup {N + 1}
      BY <1>2
    <3>2. \A i \in 1 .. N : chain'[i] = chain[i]
      BY <1>3
    <3> QED
      BY <1>1, <1>3, <2>2, <3>1, <3>2
  <2>4. \A i, j \in 1 .. N + 1 : chain'[i] = chain'[j] => i = j
    BY <1>2, <1>3, <1>7
  <2> QED
    BY <1>3, <2>1, <2>3, <2>4 DEF NoLeakNoDangling
<1>12. KeysInOrder /\ \A i \in 1 .. N : time[chain[i]] <= t
  <2>1. N # 0 => time[chain[N]] <= t
    <3>1. ASSUME N # 0 PROVE last # NULL /\ last = chain[N] /\ last \in Cell
      BY <1>2, <1>5, <3>1
    <3> QED
      BY <1>2, <3>1 DEF AppendKey
  <2>2. KeysInOrder
    BY DEF IInv
  <2>3. \A i, j \in 1 .. N : i < j => time[chain[i]] <= time[chain[j]]
    BY <1>2, <2>2, OrderOfCells DEF N
  <2> QED
    BY <1>2, <2>1, <2>2, <2>3
<1>13. /\ time' \in [Cell -> Nat] /\ time'[c] = t
       /\ \A i \in 1 .. N : time'[chain[i]] = time[chain[i]]
  BY <1>1, <1>2
<1>14. KeysInOrder'
  <2>1. \A i, j \in 1 .. N : i < j => time[chain[i]] <= time[chain[j]]
    BY <1>2, <1>12, OrderOfCells DEF N
  <2>2. ASSUME NEW i \in 1 .. N + 1, NEW j \in 1 .. N + 1, i < j
        PROVE  time'[chain'[i]] <= time'[chain'[j]]
    <3>1. i \in 1 .. N
      BY <1>2, <2>2
    <3>2. CASE j = N + 1
      BY <1>3, <1>12, <1>13, <3>1, <3>2
    <3>3. CASE j # N + 1
      <4>1. j \in 1 .. N
        BY <1>2, <3>3
      <4> QED
        BY <1>3, <1>13, <2>1, <2>2, <3>1, <4>1
    <3> QED
      BY <3>2, <3>3
  <2>3. /\ KeyTimes' \in [1 .. N + 1 -> Nat]
        /\ \A i \in 1 .. N + 1 : KeyTimes'[i] = time'[chain'[i]]
    BY <1>2, <1>3, <1>10 DEF KeyTimes, TypeOK
  <2>4. Len(KeyTimes') = N + 1
    BY <1>2, <2>3
  <2> QED
    BY <2>2, <2>3, <2>4 DEF KeysInOrder, Queue!InOrder
<1>15. ClearingCountsDown'
  BY <1>1 DEF ClearingCountsDown
<1>16. Queue!Insert(t)
  <2>1. /\ KeyTimes \in Seq(Nat) /\ Len(KeyTimes) = N
        /\ \A i \in 1 .. N : KeyTimes[i] = time[chain[i]]
    BY <1>2, OrderOfCells DEF N
  <2>2. Append(KeyTimes, t) \in Seq(Nat) /\ Len(Append(KeyTimes, t)) = N + 1
    BY <1>2, <2>1, AppendProperties
  <2>3. /\ \A i \in 1 .. N : Append(KeyTimes, t)[i] = KeyTimes[i]
        /\ Append(KeyTimes, t)[N + 1] = t
    BY <1>2, <2>1, AppendProperties
  <2>4. KeyTimes' = [i \in 1 .. N + 1 |-> time'[chain'[i]]]
    BY <1>3 DEF KeyTimes
  <2>5. KeyTimes' \in Seq(Nat) /\ Len(KeyTimes') = N + 1
    <3>1. KeyTimes' \in [1 .. N + 1 -> Nat]
      BY <1>2, <1>3, <1>10, <2>4 DEF TypeOK
    <3> QED
      BY <1>2, <3>1, N + 1 \in Nat, FunctionIsSequence
  <2>6. ASSUME NEW i \in 1 .. N + 1 PROVE KeyTimes'[i] = Append(KeyTimes, t)[i]
    <3>1. CASE i = N + 1
      BY <1>3, <1>13, <2>3, <2>4, <3>1
    <3>2. CASE i # N + 1
      <4>1. i \in 1 .. N
        BY <1>2, <3>2
      <4>2. KeyTimes'[i] = time'[chain'[i]]
        BY <2>4
      <4>3. time'[chain'[i]] = time[chain[i]]
        BY <1>3, <1>13, <4>1
      <4> QED
        BY <2>1, <2>3, <4>1, <4>2, <4>3
    <3> QED
      BY <3>1, <3>2
  <2>7. KeyTimes' = Append(KeyTimes, t)
    BY <2>2, <2>5, <2>6, SeqEqual
  <2>8. Queue!Accepts(t)
    <3>1. CASE N = 0
      BY <2>1, <3>1, EmptySeq DEF Queue!Accepts
    <3>2. CASE N # 0
      BY <1>2, <1>12, <2>1, <3>2 DEF Queue!Accepts, Queue!Newest
    <3> QED
      BY <3>1, <3>2
  <2> QED
    BY <2>7, <2>8 DEF Queue!Insert
<1> QED
  BY <1>9, <1>10, <1>11, <1>14, <1>15, <1>16 DEF IInv

(* The first cell leaves, the others keep their pointers and their order.  *)
LEMMA UnlinkPreserves ==
  ASSUME IInv, Unlink
  PROVE  /\ TypeOK /\ UNCHANGED clearing => TypeOK'
         /\ PointersFollowTheChain'
         /\ NoLeakNoDangling'
         /\ KeysInOrder'
         /\ Queue!DropFirst
<1> DEFINE N == Len(chain)
<1>1. /\ chain \in Seq(Cell) /\ N \in Nat /\ NULL \notin Cell
      /\ next \in [Cell -> Cell \cup {NULL}] /\ time \in [Cell -> Nat]
      /\ internalSize = N
      /\ live = {chain[i] : i \in 1 .. N}
      /\ \A i, j \in 1 .. N : chain[i] = chain[j] => i = j
      /\ \A i \in 1 .. N - 1 : next[chain[i]] = chain[i + 1]
  BY HeapAssumption DEF IInv, TypeOK, PointersFollowTheChain, NoLeakNoDangling
<1>2. chain # << >> /\ first = chain[1] /\ last = chain[N]
      /\ next[chain[N]] = NULL
  BY DEF IInv, PointersFollowTheChain, Unlink
<1>3. /\ chain' = Tail(chain)
      /\ live' = live \ {first} /\ first' = next[first]
      /\ last' = IF next[first] = NULL THEN NULL ELSE last
      /\ internalSize' = internalSize - 1
      /\ next' = next /\ time' = time
  BY DEF Unlink
<1>4. /\ chain' \in Seq(Cell) /\ Len(chain') = N - 1
      /\ \A i \in 1 .. N - 1 : chain'[i] = chain[i + 1]
  BY <1>1, <1>2, <1>3, HeadTailProperties
<1>5. N \in Nat \ {0}
  BY <1>1, <1>2, EmptySeq
<1>6. \A i \in 1 .. N : chain[i] \in Cell
  BY <1>1
<1> HIDE DEF N
<1>7. next[first] = IF N = 1 THEN NULL ELSE chain[2]
  BY <1>1, <1>2, <1>5
<1>8. (next[first] = NULL) <=> (N = 1)
  BY <1>1, <1>5, <1>6, <1>7
<1>9. chain' = << >> <=> N = 1
  BY <1>4, <1>5, EmptySeq
<1>10. PointersFollowTheChain'
  <2>1. CASE N = 1
    BY <1>3, <1>4, <1>8, <1>9, <2>1 DEF PointersFollowTheChain
  <2>2. CASE N # 1
    <3>1. N - 1 \in 1 .. N - 1 /\ 1 \in 1 .. N - 1 /\ Len(chain') = N - 1
      BY <1>4, <1>5, <2>2
    <3>2. first' = chain'[1]
      BY <1>3, <1>4, <1>7, <2>2, <3>1
    <3>3. chain'[N - 1] = chain[N]
      BY <1>4, <1>5, <3>1
    <3>4. last' = chain'[Len(chain')] /\ next'[chain'[Len(chain')]] = NULL
      BY <1>2, <1>3, <1>8, <2>2, <3>1, <3>3
    <3>5. ASSUME NEW i \in 1 .. Len(chain') - 1
          PROVE  next'[chain'[i]] = chain'[i + 1]
      <4>1. i \in 1 .. N - 1 /\ i + 1 \in 1 .. N - 1
        BY <1>5, <3>1
      <4>2. chain'[i] = chain[i + 1] /\ chain'[i + 1] = chain[i + 1 + 1]
        BY <1>4, <4>1
      <4> QED
        BY <1>1, <1>3, <4>1, <4>2
    <3> QED
      BY <1>9, <2>2, <3>2, <3>4, <3>5 DEF PointersFollowTheChain
  <2> QED
    BY <2>1, <2>2
<1>11. NoLeakNoDangling'
  <2>1. internalSize' = Len(chain')
    BY <1>1, <1>3, <1>4
  <2>2. live' = {chain'[i] : i \in 1 .. N - 1}
    <3>1. ASSUME NEW x \in live' PROVE x \in {chain'[i] : i \in 1 .. N - 1}
      <4>1. PICK i \in 1 .. N : x = chain[i]
        BY <1>1, <1>3
      <4>2. i # 1
        BY <1>2, <1>3, <4>1
      <4>3. i - 1 \in 1 .. N - 1 /\ (i - 1) + 1 = i
        BY <1>5, <4>2
      <4>4. chain'[i - 1] = chain[(i - 1) + 1]
        BY <1>4, <4>3
      <4>5. chain'[i - 1] = x
        BY <4>1, <4>3, <4>4
      <4> QED
        BY <4>3, <4>5
    <3>2. ASSUME NEW i \in 1 .. N - 1 PROVE chain'[i] \in live'
      <4>1. i + 1 \in 1 .. N /\ 1 \in 1 .. N /\ i + 1 # 1
        BY <1>5
      <4>2. chain[i + 1] # chain[1]
        BY <1>1, <4>1
      <4>3. chain[i + 1] \in live
        BY <1>1, <4>1
      <4>4. chain'[i] = chain[i + 1]
        BY <1>4
      <4> QED
        BY <1>2, <1>3, <4>2, <4>3, <4>4
    <3> QED
      BY <3>1, <3>2
  <2>3. ASSUME NEW i \in 1 .. N - 1, NEW j \in 1 .. N - 1, chain'[i] = chain'[j]
        PROVE  i = j
    <3>1. i + 1 \in 1 .. N /\ j + 1 \in 1 .. N
      BY <1>5
    <3>2. chain[i + 1] = chain[j + 1]
      BY <1>4, <2>3
    <3>3. i + 1 = j + 1
      BY <1>1, <3>1, <3>2
    <3> QED
      BY <1>5, <3>3
  <2> QED
    BY <1>4, <2>1, <2>2, <2>3 DEF NoLeakNoDangling
<1>12. TypeOK /\ UNCHANGED clearing => TypeOK'
  <2>1. internalSize' \in Nat
    BY <1>1, <1>3, <1>5
  <2>2. first' \in Cell \cup {NULL}
    BY <1>1, <1>2, <1>3, <1>5, <1>6
  <2> QED
    BY <1>3, <1>4, <2>1, <2>2 DEF TypeOK
<1>13. /\ KeyTimes \in Seq(Nat) /\ Len(KeyTimes) = N
       /\ \A i \in 1 .. N : KeyTimes[i] = time[chain[i]]
       /\ \A i, j \in 1 .. N : i < j => time[chain[i]] <= time[chain[j]]
  BY <1>1, OrderOfCells DEF IInv, N
<1>14. /\ KeyTimes' \in Seq(Nat) /\ Len(KeyTimes') = N - 1
       /\ \A i \in 1 .. N - 1 : KeyTimes'[i] = time[chain[i + 1]]
  <2>1. KeyTimes' = [i \in 1 .. N - 1 |-> time[chain'[i]]]
    BY <1>3, <1>4 DEF KeyTimes
  <2>2. \A i \in 1 .. N - 1 : chain'[i] \in Cell
    BY <1>4
  <2>3. KeyTimes' \in [1 .. N - 1 -> Nat]
    BY <1>1, <2>1, <2>2
  <2>4. N - 1 \in Nat
    BY <1>5
  <2>5. \A i \in 1 .. N - 1 : KeyTimes'[i] = time[chain[i + 1]]
    BY <1>4, <2>1
  <2> QED
    BY <2>3, <2>4, <2>5, FunctionIsSequence
<1>15. KeysInOrder'
  <2>1. ASSUME NEW i \in 1 .. N - 1, NEW j \in 1 .. N - 1, i < j
        PROVE  KeyTimes'[i] <= KeyTimes'[j]
    <3>1. i + 1 \in 1 .. N /\ j + 1 \in 1 .. N /\ i + 1 < j + 1
      BY <1>5, <2>1
    <3> QED
      BY <1>13, <1>14, <3>1
  <2> QED
    BY <1>14, <2>1 DEF KeysInOrder, Queue!InOrder
<1>16. Queue!DropFirst
  <2>1. KeyTimes # << >>
    BY <1>5, <1>13, EmptySeq
  <2>2. /\ Tail(KeyTimes) \in Seq(Nat) /\ Len(Tail(KeyTimes)) = N - 1
        /\ \A i \in 1 .. N - 1 : Tail(KeyTimes)[i] = KeyTimes[i + 1]
    BY <1>13, <2>1, HeadTailProperties
  <2>3. ASSUME NEW i \in 1 .. N - 1 PROVE KeyTimes'[i] = Tail(KeyTimes)[i]
    <3>1. i + 1 \in 1 .. N
      BY <1>5
    <3> QED
      BY <1>13, <1>14, <2>2, <3>1
  <2>4. KeyTimes' = Tail(KeyTimes)
    BY <1>14, <2>2, <2>3, SeqEqual
  <2> QED
    BY <2>1, <2>4 DEF Queue!DropFirst
<1> QED
  BY <1>10, <1>11, <1>12, <1>15, <1>16

LEMMA StepPreserves ==
  ASSUME IInv, [Next]_vars
  PROVE  IInv' /\ [Queue!QueueNext]_KeyTimes
<1>1. ASSUME NEW t \in Time, InsertKeyframe(t)
      PROVE  IInv' /\ [Queue!QueueNext]_KeyTimes
  <2>1. CASE FilterOld(t)
    BY <2>1 DEF FilterOld, vars, IInv, TypeOK, PointersFollowTheChain,
                NoLeakNoDangling, KeysInOrder, Queue!InOrder, KeyTimes,
                ClearingCountsDown
  <2>2. CASE AppendKey(t)
    <3>1. IInv' /\ Queue!Insert(t)
      BY <1>1, <2>2, AppendPreserves DEF InsertKeyframe
    <3> QED
      BY <3>1 DEF Queue!QueueNext
  <2> QED
    BY <1>1, <2>1, <2>2 DEF InsertKeyframe
<1>2. CASE RemoveFirst
  <2>1. Unlink /\ UNCHANGED clearing /\ clearing = 0
    BY <1>2 DEF RemoveFirst
  <2>2. IInv' /\ Queue!DropFirst
    BY <2>1, UnlinkPreserves DEF IInv, ClearingCountsDown
  <2> QED
    BY <2>2 DEF Queue!QueueNext
<1>3. CASE ClearAll
  <2>1. UNCHANGED KeyTimes
    BY <1>3 DEF ClearAll, KeyTimes
  <2>2. IInv'
    BY <1>3 DEF ClearAll, pointers, IInv, TypeOK, PointersFollowTheChain,
                NoLeakNoDangling, KeysInOrder, Queue!InOrder, KeyTimes,
                ClearingCountsDown
  <2> QED
    BY <2>1, <2>2
<1>4. CASE ClearNext
  <2>1. clearing \in Nat /\ clearing > 0 /\ clearing' = clearing - 1
        /\ clearing = internalSize
    BY <1>4 DEF ClearNext, IInv, ClearingCountsDown, TypeOK
  <2>2. CASE Unlink
    <3>1. internalSize' = internalSize - 1
      BY <2>2 DEF Unlink
    <3>2. ClearingCountsDown' /\ clearing' \in Nat
      BY <2>1, <3>1 DEF ClearingCountsDown
    <3>3. /\ PointersFollowTheChain' /\ NoLeakNoDangling' /\ KeysInOrder'
          /\ Queue!DropFirst
      BY <2>2, UnlinkPreserves
    <3>4. TypeOK'
      <4>1. /\ next' = next /\ time' = time /\ live' \subseteq Cell
            /\ first' = next[first] /\ first \in Cell
            /\ last' \in Cell \cup {NULL}
        BY <2>2 DEF Unlink, IInv, TypeOK
      <4>2. chain' \in Seq(Cell)
        BY <2>2, HeadTailProperties DEF Unlink, IInv, TypeOK, PointersFollowTheChain
      <4>3. internalSize' \in Nat
        BY <2>1, <3>1
      <4> QED
        BY <3>2, <4>1, <4>2, <4>3 DEF IInv, TypeOK
    <3> QED
      BY <3>2, <3>3, <3>4 DEF IInv, Queue!QueueNext
  <2>3. CASE first = NULL /\ UNCHANGED <<pointers, time, chain>>
    (* Impossible: the counter still counts a cell. *)
    <3>1. Len(chain) # 0
      BY <2>1 DEF IInv, NoLeakNoDangling
    <3>2. chain # << >> /\ 1 \in 1 .. Len(chain)
      BY <3>1, EmptySeq DEF IInv, TypeOK
    <3>3. first \in Cell
      BY <3>2 DEF IInv, TypeOK, PointersFollowTheChain
    <3> QED
      BY <2>3, <3>3, HeapAssumption
  <2> QED
    BY <1>4, <2>2, <2>3 DEF ClearNext
<1>5. CASE UNCHANGED vars
  BY <1>5 DEF vars, IInv, TypeOK, PointersFollowTheChain,
              NoLeakNoDangling, KeysInOrder, Queue!InOrder, KeyTimes,
              ClearingCountsDown
<1> QED
  BY <1>1, <1>2, <1>3, <1>4, <1>5 DEF Next

LEMMA Inductive == Spec => []IInv
<1> QED
  BY InitEstablishes, StepPreserves, PTL DEF Spec

(* Every member of Keyframes keeps its type; the counter never wraps.      *)
THEOREM TypeCorrect == Spec => []TypeOK
<1>1. IInv => TypeOK
  BY DEF IInv
<1> QED
  BY <1>1, Inductive, PTL

(* first, last and the next pointers always describe the list of the keys  *)
(* that were inserted and not removed, in whatever order the heap hands    *)
(* its cells out again.                                                    *)
THEOREM PointersAreRight == Spec => []ListIsSound
<1>1. IInv => ListIsSound
  BY DEF IInv, ListIsSound
<1> QED
  BY <1>1, Inductive, PTL

(* The filter in insertKeyframe() keeps the list in the order of the       *)
(* times, whatever is removed or cleared in between.                       *)
THEOREM ListIsInOrder == Spec => []KeysInOrder
<1>1. IInv => KeysInOrder
  BY DEF IInv
<1> QED
  BY <1>1, Inductive, PTL

(* clearAll() empties the list.                                            *)
THEOREM ClearAllClears == Spec => ClearedListIsEmpty
<1>1. ASSUME IInv, IInv', [Next]_vars, clearing = 1, clearing' = 0
      PROVE  first' = NULL /\ live' = {}
  <2>1. ClearNext
    BY <1>1 DEF Next, vars, InsertKeyframe, FilterOld, AppendKey, RemoveFirst,
                ClearAll
  <2>2. internalSize' = 0
    <3>1. internalSize = 1
      BY <1>1 DEF IInv, ClearingCountsDown
    <3>2. CASE Unlink
      BY <3>1, <3>2 DEF Unlink
    <3>3. CASE first = NULL /\ UNCHANGED <<pointers, time, chain>>
      <4>1. Len(chain) = 1
        BY <1>1, <3>1 DEF IInv, NoLeakNoDangling
      <4>2. chain # << >> /\ 1 \in 1 .. Len(chain)
        <5>1. Len(<< >>) = 0
          BY EmptySeq
        <5> QED
          BY <4>1, <5>1
      <4>3. first \in Cell
        BY <1>1, <4>2 DEF IInv, TypeOK, PointersFollowTheChain
      <4> QED
        BY <3>3, <4>3, HeapAssumption
    <3> QED
      BY <2>1, <3>2, <3>3 DEF ClearNext
  <2>3. Len(chain') = 0
    BY <1>1, <2>2 DEF IInv, NoLeakNoDangling
  <2>4. chain' = << >> /\ 1 .. Len(chain') = {}
    BY <1>1, <2>3, EmptySeq DEF IInv, TypeOK
  <2> QED
    BY <1>1, <2>4 DEF IInv, NoLeakNoDangling, PointersFollowTheChain
<1>2. IInv /\ IInv' /\ [Next]_vars
        => [clearing = 1 /\ clearing' = 0 => first' = NULL /\ live' = {}]_vars
  BY <1>1
<1> QED
  BY <1>2, Inductive, PTL DEF Spec, ClearedListIsEmpty

(* The linked list behaves as the queue that Firmware is built on.         *)
THEOREM QueueRefinement == Spec => ImplementsQueue
<1>1. Init => Queue!EmptyQueue
  <2>1. ASSUME Init PROVE KeyTimes = << >>
    <3>1. chain = << >> /\ Len(chain) = 0
      BY <2>1, EmptySeq DEF Init
    <3>2. KeyTimes \in [1 .. 0 -> Nat]
      BY <3>1, 1 .. 0 = {} DEF KeyTimes
    <3>3. KeyTimes \in Seq(Nat) /\ Len(KeyTimes) = 0
      BY <3>2, FunctionIsSequence
    <3> QED
      BY <3>3, EmptySeq
  <2> QED
    BY <2>1 DEF Queue!EmptyQueue
<1>2. IInv /\ [Next]_vars => [Queue!QueueNext]_KeyTimes
  BY StepPreserves
<1> QED
  BY <1>1, <1>2, Inductive, PTL DEF Spec, ImplementsQueue, Queue!QueueSpec
==============================================================================
