------------------------------ MODULE Keyframes ------------------------------
(***************************************************************************)
(* firmware/src/Keyframes.cpp: the keyframes of a node, a singly linked    *)
(* list with a pointer to its last cell and a counter beside it.  Cells    *)
(* come from the heap and go back to it, and a freed cell keeps its        *)
(* contents until it is handed out again.                                  *)
(*                                                                         *)
(* clearAll() is a loop: the counter is read once, then removeFirst() is   *)
(* called that many times.  The steps of the loop are steps here, and      *)
(* nothing else happens in between.                                        *)
(***************************************************************************)
EXTENDS Integers, Sequences, FiniteSets

CONSTANTS Cell,     \* the heap; there is always room for a new keyframe
          NULL,     \* nullptr
          Time      \* the times a keyframe may have

ASSUME HeapAssumption == NULL \notin Cell /\ Time \subseteq Nat

VARIABLES first, last, internalSize,  \* the static members
          live,                       \* the cells that are allocated
          next, time,                 \* the members of every cell
          clearing,                   \* iterations left in clearAll()
          chain                       \* history: the cells, oldest first

pointers == <<first, last, internalSize, next, live>>
vars == <<first, last, internalSize, live, next, time, clearing, chain>>
------------------------------------------------------------------------------
Init ==
  /\ first = NULL /\ last = NULL
  /\ internalSize = 0
  /\ live = {}
  /\ next = [c \in Cell |-> NULL]
  /\ time = [c \in Cell |-> 0]
  /\ clearing = 0
  /\ chain = << >>

(* insertKeyframe(), "Filter out an old keyframe".                         *)
FilterOld(t) ==
  /\ last # NULL
  /\ t < time[last]
  /\ UNCHANGED vars

Linked(c) ==
  IF first = NULL
    THEN [next EXCEPT ![c] = NULL]
    ELSE [next EXCEPT ![c] = NULL, ![last] = c]

(* insertKeyframe() with a new cell; `new` answers any free one.           *)
AppendKeyWithoutFilter(t) ==
  \E c \in Cell \ live :
    /\ live' = live \cup {c}
    /\ time' = [time EXCEPT ![c] = t]
    /\ next' = Linked(c)
    /\ first' = IF first = NULL THEN c ELSE first
    /\ last' = c
    /\ internalSize' = internalSize + 1
    /\ chain' = Append(chain, c)
    /\ UNCHANGED clearing

AppendKey(t) ==
  /\ ~(last # NULL /\ t < time[last])
  /\ \E c \in Cell \ live :
       /\ live' = live \cup {c}
       /\ time' = [time EXCEPT ![c] = t]
       /\ next' = Linked(c)
       /\ first' = IF first = NULL THEN c ELSE first
       /\ last' = c
       /\ internalSize' = internalSize + 1
       /\ chain' = Append(chain, c)
  /\ UNCHANGED clearing

InsertKeyframe(t) ==
  /\ clearing = 0
  /\ FilterOld(t) \/ AppendKey(t)

UnlinkKeepingLast ==
  /\ first # NULL
  /\ live' = live \ {first}
  /\ first' = next[first]
  /\ internalSize' = internalSize - 1
  /\ chain' = Tail(chain)
  /\ UNCHANGED <<last, next, time>>

Unlink ==
  /\ first # NULL
  /\ live' = live \ {first}
  /\ first' = next[first]
  /\ last' = IF next[first] = NULL THEN NULL ELSE last
  /\ internalSize' = internalSize - 1
  /\ chain' = Tail(chain)
  /\ UNCHANGED <<next, time>>

RemoveFirst ==
  /\ clearing = 0
  /\ Unlink
  /\ UNCHANGED clearing

ClearAll ==
  /\ clearing = 0
  /\ clearing' = internalSize
  /\ UNCHANGED <<pointers, time, chain>>

(* removeFirst() does nothing on an empty list.                            *)
ClearNext ==
  /\ clearing > 0
  /\ clearing' = clearing - 1
  /\ \/ Unlink
     \/ first = NULL /\ UNCHANGED <<pointers, time, chain>>

Next ==
  \/ \E t \in Time : InsertKeyframe(t)
  \/ RemoveFirst
  \/ ClearAll
  \/ ClearNext

Spec == Init /\ [][Next]_vars
------------------------------------------------------------------------------
TypeOK ==
  /\ first \in Cell \cup {NULL}
  /\ last \in Cell \cup {NULL}
  /\ internalSize \in Nat
  /\ live \subseteq Cell
  /\ next \in [Cell -> Cell \cup {NULL}]
  /\ time \in [Cell -> Nat]
  /\ clearing \in Nat
  /\ chain \in Seq(Cell)

(* Following next from first meets exactly the cells that were inserted    *)
(* and not yet removed, in that order, and ends at last: no key is lost    *)
(* behind a stale pointer, and no freed cell is reachable.                 *)
PointersFollowTheChain ==
  /\ chain = << >> => first = NULL /\ last = NULL
  /\ chain # << >> => /\ first = chain[1]
                      /\ last = chain[Len(chain)]
                      /\ next[chain[Len(chain)]] = NULL
  /\ \A i \in 1 .. Len(chain) - 1 : next[chain[i]] = chain[i + 1]

(* The counter that playKeyframes() and clearAll() rely on counts the      *)
(* cells, every cell of the list is allocated and every allocated cell is  *)
(* on the list (no double free, no leak).                                  *)
NoLeakNoDangling ==
  /\ internalSize = Len(chain)
  /\ live = {chain[i] : i \in 1 .. Len(chain)}
  /\ \A i, j \in 1 .. Len(chain) : chain[i] = chain[j] => i = j

(* The list is sound: what first, last, next, the counter and the heap say *)
(* of it agrees with the keys inserted and not removed, in whatever order  *)
(* freed cells are handed out again.                                       *)
ListIsSound == PointersFollowTheChain /\ NoLeakNoDangling

(* clearAll() reads the counter before the first removal, and leaves an    *)
(* empty list all the same.                                                *)
ClearedListIsEmpty ==
  [][clearing = 1 /\ clearing' = 0 => first' = NULL /\ live' = {}]_vars

KeyTimes == [i \in 1 .. Len(chain) |-> time[chain[i]]]

Queue == INSTANCE KeyQueue WITH keys <- KeyTimes

(* The list is the queue of KeyQueue.                                      *)
ImplementsQueue == Queue!QueueSpec

(* What generateFrame() plays is in the order of its times.                *)
KeysInOrder == Queue!InOrder
==============================================================================
