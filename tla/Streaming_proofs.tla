-------------------------- MODULE Streaming_proofs --------------------------
(***************************************************************************)
(* Streaming, for any number of channels, any animation without empty      *)
(* channels, any page sizes and any bounds on delays, errors, hold-ups and *)
(* losses.                                                                 *)
(***************************************************************************)
EXTENDS Streaming, SequenceTheorems, TLAPS

P == INSTANCE BaseAnimation_proofs
       WITH PageSize <- {N_KEYS_ON_INIT, KeysPerPage}

KeyTime == 0 .. KEYTIME_MAX - 1

(* The page that is taken and not yet sent, and the keys of a channel that *)
(* have left the controller.                                               *)
Pending(ch) == IF thread = "sleeping" THEN page[ch] ELSE << >>
SentOut(ch) == P!Delivered(ch) - Len(Pending(ch))

Content ==
  [kind : {"pl", "sp"}] \cup [kind : {"ss"}, timeDrift : Int]
    \cup [kind : {"keys"}, keys : Seq(KeyTime)]

Datagram == [sentAt : Nat, content : Content]

Carried(datagram) ==
  IF datagram.content.kind = "keys" THEN datagram.content.keys ELSE << >>

Types ==
  /\ thread \in {"upload", "play", "syncing", "loop", "sleeping", "done"}
  /\ playing_ \in BOOLEAN /\ firstTime \in BOOLEAN
  /\ lastKeyout \in Nat /\ wake \in Nat /\ now \in Nat
  /\ lag \in Nat /\ reserve \in Nat /\ lost \in Nat
  /\ overtaken \in BOOLEAN /\ stopped \in BOOLEAN
  /\ page \in [Channel -> Seq(KeyTime)]
  /\ air \in [Channel -> Seq(Datagram)]
  /\ running \in [Channel -> BOOLEAN]
  /\ keys \in [Channel -> Seq(KeyTime)]
  /\ ahead \in [Channel -> Int]
  /\ shown \in [Channel -> Seq(KeyTime)]

(* Where the thread is, and what that says of the others.                  *)
Schedule ==
  /\ thread = "upload" <=> ~started
  /\ thread \in {"upload", "play"} =>
       /\ now = 0 /\ lag = 0
       /\ \A ch \in Channel :
            air[ch] = << >> /\ shown[ch] = << >>
  /\ thread = "upload" => \A ch \in Channel : keys[ch] = << >>
  /\ thread \in {"upload", "play", "syncing"} => firstTime
  /\ thread = "sleeping" => ~firstTime
  /\ thread \notin {"upload", "done"} /\ ~stopped => playing_
  /\ thread = "done" /\ ~stopped => P!FirstKeyout = KEYTIME_MAX

(* The pace of the loop: pages leave by the reserve earlier than the first *)
(* node would need them, and later by no more than the thread was held up. *)
Pace ==
  /\ firstTime =>
       lastKeyout = 0 /\ reserve = 0 /\ (thread # "done" => now = lag)
  /\ thread = "loop" /\ ~firstTime => now + reserve = lastKeyout + lag
  /\ thread = "sleeping" =>
       (IF now < wake THEN wake ELSE now) + reserve = lastKeyout + lag
  /\ thread \in {"loop", "sleeping"} => lastKeyout <= P!FirstKeyout

(* The page that is taken starts behind a key that lasts to lastKeyout.    *)
PageFollows(ch) ==
  thread = "sleeping" =>
    /\ page[ch] = SubSeq(data[ch], SentOut(ch) + 1, P!Delivered(ch))
    /\ page[ch] = << >> => P!Delivered(ch) = Len(data[ch])
    /\ page[ch] # << >> => lastKeyout <= data[ch][SentOut(ch)]

Traffic(ch) ==
  /\ thread # "upload" => SentOut(ch) >= 1
  /\ shown[ch] = << >> => ~running[ch]
  /\ running[ch] => Len(keys[ch]) >= 2 /\ Last(shown[ch]) = Head(keys[ch])
  /\ \A i \in 1 .. Len(air[ch]) :
       LET kind == air[ch][i].content.kind
       IN  /\ kind = "pl" => i = 1 /\ shown[ch] = << >>
           /\ kind = "sp" => stopped
           /\ kind = "keys" => ~firstTime

ShowInv ==
  /\ P!IInv /\ Types /\ Schedule /\ Pace
  /\ \A ch \in Channel : PageFollows(ch) /\ Traffic(ch)
------------------------------------------------------------------------------
Increasing(s) == \A i, j \in 1 .. Len(s) : i < j => s[i] < s[j]

(* Keys that have left the controller.                                     *)
Out(ch) == {data[ch][k] : k \in 1 .. SentOut(ch)}

Within(s, S) == \A i \in 1 .. Len(s) : s[i] \in S

Disjoint(s, t) == \A i \in 1 .. Len(s), j \in 1 .. Len(t) : s[i] # t[j]

(* No key is at two places, and none came from anywhere else.              *)
Apart(list, past, queue, out) ==
  /\ Increasing(list) /\ Within(list, out)
  /\ Increasing(past) /\ Within(past, out)
  /\ \A i \in 1 .. Len(queue) :
       /\ Increasing(Carried(queue[i])) /\ Within(Carried(queue[i]), out)
       /\ Disjoint(list, Carried(queue[i]))
       /\ \A j \in 1 .. Len(queue) :
            i # j => Disjoint(Carried(queue[i]), Carried(queue[j]))

GapsInv == \A ch \in Channel : Apart(keys[ch], shown[ch], air[ch], Out(ch))
------------------------------------------------------------------------------
(* The keys a node has got.                                                *)
Together(list, past) == IF past = << >> THEN list ELSE past \o Tail(list)
Got(ch) == Together(keys[ch], shown[ch])

(* What a node has got and what is on its way to it are the first keys of  *)
(* its channel, in order: cut[i] of them up to the datagram i, and all     *)
(* that were sent up to the last.  Each page left in time before the last  *)
(* key sent before it.                                                     *)
Flow(got, queue, channel, out, slack, cut) ==
  LET n == Len(queue)
  IN  /\ got = SubSeq(channel, 1, cut[0]) /\ cut[n] = out
      /\ \A i, j \in 0 .. n : i <= j => cut[i] <= cut[j]
      /\ \A i \in 1 .. n :
           /\ Carried(queue[i]) = SubSeq(channel, cut[i - 1] + 1, cut[i])
           /\ cut[i - 1] < cut[i] =>
                queue[i].sentAt + slack <= channel[cut[i - 1]]

Flowing(got, queue, channel, out, slack) ==
  \E cut \in [0 .. Len(queue) -> 1 .. Len(channel)] :
    Flow(got, queue, channel, out, slack, cut)

(* A node that plays, or will when it is told to.                          *)
Listening(ch) == running[ch] \/ (shown[ch] = << >> /\ Len(keys[ch]) >= 2)

(* The reserve there is, or will be.                                       *)
Reserve == IF firstTime THEN (P!FirstKeyout + 1) \div 2 ELSE reserve

Flawless == lost = 0 /\ ~overtaken /\ ~stopped

ToldToPlay(ch) ==
  thread \notin {"upload", "play"} /\ shown[ch] = << >>
    => \/ Len(keys[ch]) < 2
       \/ air[ch] # << >> /\ air[ch][1].content.kind = "pl"

Supplied(ch) ==
  thread # "upload" /\ Listening(ch)
    => Flowing(Got(ch), air[ch], data[ch], SentOut(ch), reserve - lag)

(* A node that is out of keys has come to all of them, or the reserve was  *)
(* not enough.                                                             *)
Finished(ch) ==
  shown[ch] # << >> /\ ~running[ch]
    => \E r \in 1 .. Len(data[ch]) :
         /\ shown[ch] = SubSeq(data[ch], 1, r)
         /\ r # Len(data[ch]) => Reserve < lag + MaxDelay + ahead[ch]

CompleteInv ==
  Flawless =>
    \A ch \in Channel : ToldToPlay(ch) /\ Supplied(ch) /\ Finished(ch)
------------------------------------------------------------------------------
LEMMA Constants ==
  /\ KEYTIME_MAX \in Nat \ {0} /\ SIZE_MAX \in Nat
  /\ N_KEYS_ON_INIT \in 1 .. SIZE_MAX /\ KeysPerPage \in 1 .. SIZE_MAX
  /\ MaxDelay \in Nat
  /\ Animation \subseteq [Channel -> Seq(KeyTime)]
BY StreamingAssumption DEF KeyTime

(* Streaming keeps to what BaseAnimation asks of its parameters.           *)
LEMMA AnimationIsFine == P!AnimationAssumption
BY StreamingAssumption DEF P!Time, P!Sorted

(* The paging is that of BaseAnimation.                                    *)
LEMMA SamePaging ==
  /\ Anim!Init <=> P!Init
  /\ Anim!FirstKeyout = P!FirstKeyout
  /\ \A ch \in Channel, n \in {N_KEYS_ON_INIT, KeysPerPage} :
       Anim!PageOf(ch, n) = P!PageOf(ch, n)
  /\ \A n \in {N_KEYS_ON_INIT, KeysPerPage} : Anim!GetNKeys(n) <=> P!GetNKeys(n)
<1>1. \A ch, n : Anim!PageOf(ch, n) = P!PageOf(ch, n)
  BY DEF Anim!PageOf, P!PageOf, Anim!END, P!END, Anim!FramesInPage,
         P!FramesInPage, Anim!FirstIndex, P!FirstIndex, Anim!KeyAt, P!KeyAt,
         Anim!Remaining, P!Remaining, Anim!Minus, P!Minus
<1>2. \A ch, n : Anim!PositionAfter(ch, n) = P!PositionAfter(ch, n)
  BY DEF Anim!PositionAfter, P!PositionAfter, Anim!END, P!END,
         Anim!LastCopied, P!LastCopied, Anim!FramesInPage,
         P!FramesInPage, Anim!FirstIndex, P!FirstIndex, Anim!KeyAt, P!KeyAt,
         Anim!Remaining, P!Remaining, Anim!Minus, P!Minus
<1>3. Anim!FirstKeyout = P!FirstKeyout
  BY DEF Anim!FirstKeyout, P!FirstKeyout, Anim!Earliest, P!Earliest,
         Anim!OpenChannels, P!OpenChannels, Anim!KeyAt, P!KeyAt,
         Anim!END, P!END
<1>4. \A n : Anim!GetNKeys(n) <=> P!GetNKeys(n)
  BY <1>1, <1>2 DEF Anim!GetNKeys, P!GetNKeys
<1> QED
  BY <1>1, <1>3, <1>4 DEF Anim!Init, P!Init

(* What is left of a sequence without one of its elements.                 *)
LEMMA Removed ==
  ASSUME NEW S, NEW s \in Seq(S), NEW i \in 1 .. Len(s)
  PROVE  /\ RemoveAt(s, i) \in Seq(S)
         /\ Len(RemoveAt(s, i)) = Len(s) - 1
         /\ \A j \in 1 .. Len(s) - 1 :
              RemoveAt(s, i)[j] = IF j < i THEN s[j] ELSE s[j + 1]
<1>1. i \in Nat /\ Len(s) \in Nat /\ 1 <= i /\ i <= Len(s)
  OBVIOUS
<1>2. /\ SubSeq(s, 1, i - 1) \in Seq(S)
      /\ Len(SubSeq(s, 1, i - 1)) = i - 1
      /\ \A j \in 1 .. i - 1 : SubSeq(s, 1, i - 1)[j] = s[j]
  BY <1>1
<1>3. /\ SubSeq(s, i + 1, Len(s)) \in Seq(S)
      /\ Len(SubSeq(s, i + 1, Len(s))) = Len(s) - i
      /\ \A j \in 1 .. Len(s) - i : SubSeq(s, i + 1, Len(s))[j] = s[i + j]
  BY <1>1
<1> DEFINE before == SubSeq(s, 1, i - 1)
           after == SubSeq(s, i + 1, Len(s))
<1>4. RemoveAt(s, i) = before \o after
  BY DEF RemoveAt
<1>7. /\ before \in Seq(S) /\ Len(before) = i - 1
      /\ after \in Seq(S) /\ Len(after) = Len(s) - i
  BY <1>2, <1>3
<1> HIDE DEF before, after
<1>5. /\ before \o after \in Seq(S)
      /\ Len(before \o after) = Len(s) - 1
      /\ \A j \in 1 .. Len(s) - 1 :
           (before \o after)[j] = IF j < i THEN before[j] ELSE after[j - (i - 1)]
  <2>1. /\ before \o after \in Seq(S)
        /\ Len(before \o after) = Len(before) + Len(after)
        /\ \A j \in 1 .. Len(before) + Len(after) : (before \o after)[j] =
             IF j <= Len(before) THEN before[j] ELSE after[j - Len(before)]
    BY <1>7, ConcatProperties
  <2>2. /\ Len(before) + Len(after) = Len(s) - 1
        /\ \A j \in 1 .. Len(s) - 1 : j <= Len(before) <=> j < i
    BY <1>1, <1>7
  <2> QED
    BY <1>7, <2>1, <2>2
<1>6. \A j \in 1 .. Len(s) - 1 :
        /\ j < i => before[j] = s[j]
        /\ ~ (j < i) => after[j - (i - 1)] = s[j + 1]
  BY <1>1, <1>2, <1>3 DEF before, after
<1> QED
  BY <1>4, <1>5, <1>6

(* A frame passes keys that are over, and stops at one that is not.        *)
LEMMA PassedKeys ==
  ASSUME NEW list \in Seq(Int), Len(list) > 0, NEW elapsed \in Int
  PROVE  LET n == Passed(list, elapsed)
         IN  /\ n \in 0 .. Len(list) - 1
             /\ \A i \in 1 .. n : list[i + 1] < elapsed
             /\ n + 1 < Len(list) => list[n + 2] >= elapsed
<1> DEFINE Ends(n) == n + 1 < Len(list) => list[n + 2] >= elapsed
           Stops == {n \in 0 .. Len(list) - 1 : Ends(n)}
<1>1. Len(list) \in Nat /\ Len(list) - 1 \in Nat
  OBVIOUS
<1>2. Stops \in SUBSET Nat /\ Len(list) - 1 \in Stops
  BY <1>1
<1>3. PICK n \in Stops : \A m \in Stops : n <= m
  BY <1>2, AnimationIsFine, P!LeastNumber
<1>4. n \in 0 .. Len(list) - 1 /\ Ends(n)
  OBVIOUS
<1>5. ASSUME NEW i \in 1 .. n PROVE list[i + 1] < elapsed
  <2>1. i \in Nat /\ i - 1 \in 0 .. Len(list) - 1 /\ i + 1 \in 1 .. Len(list)
        /\ ~ (n <= i - 1) /\ i < Len(list)
    BY <1>1, <1>4
  <2>2. ~ Ends(i - 1)
    BY <1>3, <2>1
  <2>3. ~ (list[(i - 1) + 2] >= elapsed) /\ (i - 1) + 2 = i + 1
    BY <2>1, <2>2
  <2>4. list[i + 1] \in Int
    BY <2>1
  <2> QED
    BY <2>3, <2>4
<1> DEFINE Exit(m) == /\ \A i \in 1 .. m : list[i + 1] < elapsed
                      /\ m + 1 < Len(list) => list[m + 2] >= elapsed
<1>6. \E m \in 0 .. Len(list) - 1 : Exit(m)
  BY <1>4, <1>5
<1>7. Passed(list, elapsed) = CHOOSE m \in 0 .. Len(list) - 1 : Exit(m)
  BY DEF Passed
<1> HIDE DEF Exit
<1>8. /\ Passed(list, elapsed) \in 0 .. Len(list) - 1
      /\ Exit(Passed(list, elapsed))
  BY <1>6, <1>7
<1> QED
  BY <1>8 DEF Exit

(* insertKeyframe() for one key after the other: the lists in between.     *)
LEMMA Inserting ==
  ASSUME NEW list, NEW new \in Seq(Int)
  PROVE  \E f : /\ DOMAIN f = 0 .. Len(new)
                /\ f[0] = list
                /\ \A n \in 1 .. Len(new) : f[n] = Insert(f[n - 1], new[n])
                /\ InsertAll(list, new) = f[Len(new)]
<1> DEFINE Step(f, n) == IF n = 0 THEN list ELSE Insert(f[n - 1], new[n])
           Good(f, m) == f = [n \in 0 .. m |-> Step(f, n)]
           Bad == {m \in 0 .. Len(new) : ~ \E f : Good(f, m)}
<1>1. Len(new) \in Nat
  OBVIOUS
<1>2. Bad = {}
  <2>1. SUFFICES ASSUME Bad # {} PROVE FALSE
    OBVIOUS
  <2>2. PICK m \in Bad : \A k \in Bad : m <= k
    <3> HIDE DEF Good
    <3>1. Bad \in SUBSET Nat
      BY <1>1
    <3> HIDE DEF Bad
    <3> QED
      BY <2>1, <3>1, AnimationIsFine, P!LeastNumber
  <2>3. m # 0
    <3>1. Good([n \in 0 .. 0 |-> list], 0)
      BY DEF Step
    <3> QED
      BY <3>1
  <2>4. m \in Nat /\ m - 1 \in 0 .. Len(new) /\ ~ (m <= m - 1)
    BY <1>1, <2>3
  <2>5. PICK g : Good(g, m - 1)
    BY <2>2, <2>4
  <2> DEFINE f == [n \in 0 .. m |-> IF n < m THEN g[n]
                                    ELSE Insert(g[m - 1], new[m])]
  <2>6. ASSUME NEW n \in 0 .. m PROVE f[n] = Step(f, n)
    <3>1. CASE n = 0
      BY <2>3, <2>4, <2>5, <3>1
    <3>2. CASE n # 0 /\ n < m
      <4>1. n \in 0 .. m - 1 /\ n - 1 \in 0 .. m /\ n - 1 < m
        BY <2>4, <3>2
      <4>2. g[n] = Insert(g[n - 1], new[n])
        BY <2>5, <3>2, <4>1
      <4> QED
        BY <3>2, <4>1, <4>2
    <3>3. CASE n = m
      <4>1. n - 1 \in 0 .. m /\ n - 1 < m /\ ~ (n < m)
        BY <2>3, <2>4, <3>3
      <4> QED
        BY <2>3, <3>3, <4>1
    <3> QED
      BY <2>4, <3>1, <3>2, <3>3
  <2>7. Good(f, m)
    <3>1. f = [n \in 0 .. m |-> f[n]]
      OBVIOUS
    <3> HIDE DEF f, Step
    <3> QED
      BY <2>6, <3>1
  <2> HIDE DEF f, Good
  <2> QED
    BY <2>7
<1>3. \E f : Good(f, Len(new))
  BY <1>1, <1>2
<1> DEFINE inserted == CHOOSE f : Good(f, Len(new))
<1>4. InsertAll(list, new) = inserted[Len(new)]
  BY DEF InsertAll
<1>5. Good(inserted, Len(new))
  <2> HIDE DEF Good
  <2> QED
    BY <1>3
<1> HIDE DEF inserted
<1>6. /\ DOMAIN inserted = 0 .. Len(new)
      /\ inserted[0] = list
      /\ \A n \in 1 .. Len(new) : inserted[n] = Insert(inserted[n - 1], new[n])
  <2>1. 0 \in 0 .. Len(new) /\ \A n \in 1 .. Len(new) : n \in 0 .. Len(new) /\ n # 0
    BY <1>1
  <2>2. inserted = [n \in 0 .. Len(new) |-> Step(inserted, n)]
    BY <1>5
  <2> QED
    BY <2>1, <2>2
<1> QED
  BY <1>4, <1>6

LEMMA AppendedInOrder ==
  ASSUME NEW S \in SUBSET Int, NEW s \in Seq(S), NEW e \in S,
         Increasing(s), \A i \in 1 .. Len(s) : s[i] < e
  PROVE  Increasing(Append(s, e))
<1>1. SUFFICES ASSUME NEW i \in 1 .. Len(Append(s, e)),
                      NEW j \in 1 .. Len(Append(s, e)), i < j
               PROVE  Append(s, e)[i] < Append(s, e)[j]
  BY DEF Increasing
<1>2. Len(s) \in Nat /\ i \in 1 .. Len(s) /\ j \in 1 .. Len(s) + 1
  BY <1>1
<1>3. Append(s, e)[i] = s[i]
  BY <1>2
<1>4. CASE j = Len(s) + 1
  <2>1. Append(s, e)[j] = e
    BY <1>4
  <2> QED
    BY <1>2, <1>3, <2>1
<1>5. CASE j # Len(s) + 1
  <2>1. j \in 1 .. Len(s) /\ Append(s, e)[j] = s[j]
    BY <1>2, <1>5
  <2> QED
    BY <1>1, <1>2, <1>3, <2>1 DEF Increasing
<1> QED
  BY <1>4, <1>5

(* Of a page a list takes keys of the page only, behind those it has, and  *)
(* stays in order; it takes all of a page that comes in its turn.          *)
LEMMA InsertedInOrder ==
  ASSUME NEW S \in SUBSET Int, NEW list \in Seq(S), NEW new \in Seq(S),
         Increasing(list), Increasing(new), Disjoint(list, new)
  PROVE  LET all == InsertAll(list, new)
         IN  /\ all \in Seq(S) /\ Increasing(all)
             /\ Len(list) <= Len(all)
             /\ \A i \in 1 .. Len(list) : all[i] = list[i]
             /\ \A i \in 1 .. Len(all) :
                  \/ \E j \in 1 .. Len(list) : all[i] = list[j]
                  \/ \E j \in 1 .. Len(new) : all[i] = new[j]
<1>1. list \in Seq(Int) /\ new \in Seq(Int) /\ Len(list) \in Nat /\ Len(new) \in Nat
  <2>1. S \subseteq Int
    OBVIOUS
  <2>2. list \in Seq(Int) /\ new \in Seq(Int)
    BY <2>1, SeqMonotonic
  <2> QED
    BY <2>2, LenProperties
<1>2. PICK f : /\ DOMAIN f = 0 .. Len(new)
               /\ f[0] = list
               /\ \A n \in 1 .. Len(new) : f[n] = Insert(f[n - 1], new[n])
               /\ InsertAll(list, new) = f[Len(new)]
  BY <1>1, Inserting
<1> DEFINE Good(n) ==
      /\ f[n] \in Seq(S) /\ Increasing(f[n])
      /\ Len(list) <= Len(f[n])
      /\ \A i \in 1 .. Len(list) : f[n][i] = list[i]
      /\ \A i \in 1 .. Len(f[n]) :
           \/ \E j \in 1 .. Len(list) : f[n][i] = list[j]
           \/ \E j \in 1 .. n : f[n][i] = new[j]
<1>3. Good(0)
  <2>1. \A i \in 1 .. Len(list) : \E j \in 1 .. Len(list) : list[i] = list[j]
    OBVIOUS
  <2> QED
    BY <1>1, <1>2, <2>1
<1>4. ASSUME NEW n \in 1 .. Len(new), Good(n - 1) PROVE Good(n)
  <2> DEFINE old == f[n - 1]
             key == new[n]
  <2>1. /\ old \in Seq(S) /\ Increasing(old) /\ Len(old) \in Nat
        /\ Len(list) <= Len(old)
        /\ \A i \in 1 .. Len(list) : old[i] = list[i]
        /\ \A i \in 1 .. Len(old) :
             \/ \E j \in 1 .. Len(list) : old[i] = list[j]
             \/ \E j \in 1 .. n - 1 : old[i] = new[j]
    <3>1. Good(n - 1)
      BY <1>4
    <3>2. old \in Seq(S)
      BY <3>1
    <3>3. Len(old) \in Nat
      <4> HIDE DEF old
      <4> QED
        BY <3>2
    <3> QED
      BY <3>1, <3>3
  <2>2. key \in S /\ n \in Nat
    BY <1>1
  <2>3. f[n] = IF old = << >> \/ Last(old) <= key THEN Append(old, key) ELSE old
    BY <1>2 DEF Insert
  <2>4. CASE ~ (old = << >> \/ Last(old) <= key)
    <3>1. f[n] = old
      BY <2>3, <2>4
    <3> HIDE DEF old
    <3> QED
      BY <2>1, <3>1, <2>2
  <2>5. CASE old = << >> \/ Last(old) <= key
    <3>1. f[n] = Append(old, key)
      BY <2>3, <2>5
    <3>2. ASSUME NEW i \in 1 .. Len(old) PROVE old[i] < key
      <4>1. old # << >> /\ Last(old) = old[Len(old)] /\ Len(old) \in 1 .. Len(old)
        BY <2>1, <3>2 DEF Last
      <4>2. old[Len(old)] # key
        <5>1. CASE \E j \in 1 .. Len(list) : old[Len(old)] = list[j]
          <6>1. PICK j \in 1 .. Len(list) : old[Len(old)] = list[j]
            BY <5>1
          <6>2. list[j] # new[n]
            BY DEF Disjoint
          <6> QED
            BY <6>1, <6>2
        <5>2. CASE \E j \in 1 .. n - 1 : old[Len(old)] = new[j]
          <6>1. PICK j \in 1 .. n - 1 : old[Len(old)] = new[j]
            BY <5>2
          <6>2. j \in 1 .. Len(new) /\ j < n
            BY <1>1
          <6>3. new[j] < new[n] /\ new[j] \in Int
            BY <1>1, <6>2 DEF Increasing
          <6> QED
            BY <2>2, <6>1, <6>3
        <5> HIDE DEF old, key
        <5> QED
          BY <2>1, <4>1, <5>1, <5>2
      <4>3. i < Len(old) => old[i] < old[Len(old)]
        BY <2>1, <4>1 DEF Increasing
      <4>4. old[i] \in Int /\ old[Len(old)] \in Int /\ key \in Int
        <5>1. old[i] \in S /\ old[Len(old)] \in S /\ S \subseteq Int
          <6> HIDE DEF old, key
          <6> QED
            BY <2>1, <4>1, ElementOfSeq
        <5> HIDE DEF old, key
        <5> QED
          BY <2>2, <5>1
      <4> HIDE DEF old, key
      <4> QED
        BY <2>1, <2>5, <4>1, <4>2, <4>3, <4>4
    <3>3. /\ f[n] \in Seq(S) /\ Len(f[n]) = Len(old) + 1
          /\ \A i \in 1 .. Len(old) : f[n][i] = old[i]
          /\ f[n][Len(old) + 1] = key
      <4> HIDE DEF old, key
      <4> QED
        BY <2>1, <2>2, <3>1
    <3>4. Increasing(f[n])
      <4> HIDE DEF old, key
      <4> QED
        BY <2>1, <2>2, <3>1, <3>2, AppendedInOrder
    <3>5. \A i \in 1 .. Len(f[n]) :
           \/ \E j \in 1 .. Len(list) : f[n][i] = list[j]
           \/ \E j \in 1 .. n : f[n][i] = new[j]
      <4> TAKE i \in 1 .. Len(f[n])
      <4>1. CASE i = Len(old) + 1
        <5>1. f[n][i] = new[n] /\ n \in 1 .. n
          BY <2>2, <3>3, <4>1
        <5> QED
          BY <5>1
      <4>2. CASE i # Len(old) + 1
        <5>1. i \in 1 .. Len(old) /\ f[n][i] = old[i]
          BY <2>1, <3>3, <4>2
        <5>2. 1 .. n - 1 \subseteq 1 .. n
          BY <2>2
        <5> HIDE DEF old
        <5> QED
          BY <2>1, <5>1, <5>2
      <4> QED
        BY <4>1, <4>2
    <3>6. /\ Len(list) <= Len(f[n])
          /\ \A i \in 1 .. Len(list) : f[n][i] = list[i]
      <4> HIDE DEF old
      <4> QED
        BY <1>1, <2>1, <3>3
    <3> QED
      BY <3>3, <3>4, <3>5, <3>6
  <2> QED
    BY <2>4, <2>5
<1> HIDE DEF Good
<1>5. \A n \in 0 .. Len(new) : Good(n)
  <2> DEFINE Bad == {n \in 0 .. Len(new) : ~ Good(n)}
  <2>1. SUFFICES ASSUME Bad # {} PROVE FALSE
    OBVIOUS
  <2>2. Bad \in SUBSET Nat
    BY <1>1
  <2>3. PICK n \in Bad : \A m \in Bad : n <= m
    <3> HIDE DEF Bad
    <3> QED
      BY <2>1, <2>2, AnimationIsFine, P!LeastNumber
  <2>4. n \in 1 .. Len(new) /\ n - 1 \in 0 .. Len(new) /\ ~ (n <= n - 1)
    BY <1>1, <1>3
  <2> QED
    BY <1>4, <2>3, <2>4
<1>6. Good(Len(new))
  BY <1>1, <1>5
<1> QED
  BY <1>2, <1>6 DEF Good

LEMMA InsertedAll ==
  ASSUME NEW S \in SUBSET Int, NEW list \in Seq(S), NEW new \in Seq(S),
         list # << >>,
         \A i \in 1 .. Len(new) : Last(list) <= new[i],
         \A i, j \in 1 .. Len(new) : i < j => new[i] <= new[j]
  PROVE  InsertAll(list, new) = list \o new
<1>1. list \in Seq(Int) /\ new \in Seq(Int) /\ Len(list) \in Nat /\ Len(new) \in Nat
  <2>1. S \subseteq Int
    OBVIOUS
  <2>2. list \in Seq(Int) /\ new \in Seq(Int)
    BY <2>1, SeqMonotonic
  <2> QED
    BY <2>2, LenProperties
<1>2. PICK f : /\ DOMAIN f = 0 .. Len(new)
               /\ f[0] = list
               /\ \A n \in 1 .. Len(new) : f[n] = Insert(f[n - 1], new[n])
               /\ InsertAll(list, new) = f[Len(new)]
  BY <1>1, Inserting
<1> DEFINE Good(n) ==
      /\ f[n] \in Seq(Int) /\ Len(f[n]) = Len(list) + n
      /\ \A i \in 1 .. Len(list) + n :
           f[n][i] = IF i <= Len(list) THEN list[i] ELSE new[i - Len(list)]
<1>3. Good(0)
  BY <1>1, <1>2
<1>4. ASSUME NEW n \in 1 .. Len(new), Good(n - 1) PROVE Good(n)
  <2> DEFINE old == f[n - 1]
             key == new[n]
  <2>1. /\ old \in Seq(Int) /\ Len(old) = Len(list) + (n - 1)
        /\ \A i \in 1 .. Len(list) + (n - 1) :
             old[i] = IF i <= Len(list) THEN list[i] ELSE new[i - Len(list)]
    BY <1>4
  <2>2. key \in Int /\ n \in Nat /\ n >= 1 /\ Len(list) > 0
    BY <1>1
  <2>3. f[n] = IF old = << >> \/ Last(old) <= key THEN Append(old, key) ELSE old
    BY <1>2 DEF Insert
  <2>4. Last(old) <= key
    <3>1. Last(old) = old[Len(old)]
      BY DEF Last
    <3>2. old[Len(old)] =
            IF n = 1 THEN list[Len(list)] ELSE new[n - 1]
      <4>1. /\ Len(old) \in 1 .. Len(list) + (n - 1)
            /\ Len(old) <= Len(list) <=> n = 1
            /\ Len(old) - Len(list) = n - 1
            /\ n = 1 => Len(old) = Len(list)
        <5> HIDE DEF old, key
        <5> QED
          BY <1>1, <2>1, <2>2
      <4>2. old[Len(old)] = IF Len(old) <= Len(list) THEN list[Len(old)]
                                                     ELSE new[Len(old) - Len(list)]
        BY <2>1, <4>1
      <4> HIDE DEF old, key
      <4> QED
        BY <4>1, <4>2
    <3>3. list[Len(list)] <= new[n]
      BY DEF Last
    <3>4. n # 1 => new[n - 1] <= new[n]
      BY <1>1, <2>2
    <3> QED
      BY <3>1, <3>2, <3>3, <3>4
  <2>5. f[n] = Append(old, key)
    BY <2>3, <2>4
  <2> HIDE DEF old
  <2>6. /\ f[n] \in Seq(Int) /\ Len(f[n]) = Len(old) + 1
        /\ \A i \in 1 .. Len(old) : f[n][i] = old[i]
        /\ f[n][Len(old) + 1] = key
    <3> HIDE DEF key
    <3> QED
      BY <2>1, <2>2, <2>5
  <2>7. Len(list) + (n - 1) + 1 = Len(list) + n
    BY <1>1, <2>2
  <2>8. \A i \in 1 .. Len(list) + n :
          f[n][i] = IF i <= Len(list) THEN list[i] ELSE new[i - Len(list)]
    <3> TAKE i \in 1 .. Len(list) + n
    <3>1. CASE i = Len(list) + n
      BY <1>1, <2>1, <2>2, <2>6, <2>7, <3>1
    <3>2. CASE i # Len(list) + n
      <4>1. i \in 1 .. Len(list) + (n - 1)
        <5>1. Len(list) \in Nat /\ i \in Nat /\ 1 <= i /\ i <= Len(list) + n
          BY <1>1, <2>2
        <5> QED
          BY <2>2, <3>2, <5>1
      <4>2. f[n][i] = old[i]
        BY <2>1, <2>6, <4>1
      <4> QED
        BY <2>1, <4>1, <4>2
    <3> QED
      BY <3>1, <3>2
  <2> QED
    BY <2>1, <2>6, <2>7, <2>8
<1> HIDE DEF Good
<1>5. \A n \in 0 .. Len(new) : Good(n)
  <2> DEFINE Bad == {n \in 0 .. Len(new) : ~ Good(n)}
  <2>1. SUFFICES ASSUME Bad # {} PROVE FALSE
    OBVIOUS
  <2>2. Bad \in SUBSET Nat
    BY <1>1
  <2>3. PICK n \in Bad : \A m \in Bad : n <= m
    <3> HIDE DEF Bad
    <3> QED
      BY <2>1, <2>2, AnimationIsFine, P!LeastNumber
  <2>4. n \in 1 .. Len(new) /\ n - 1 \in 0 .. Len(new) /\ ~ (n <= n - 1)
    BY <1>1, <1>3
  <2> QED
    BY <1>4, <2>3, <2>4
<1>6. Good(Len(new))
  BY <1>1, <1>5
<1>7. /\ f[Len(new)] \in Seq(Int) /\ Len(f[Len(new)]) = Len(list) + Len(new)
      /\ \A i \in 1 .. Len(list) + Len(new) : f[Len(new)][i] =
           IF i <= Len(list) THEN list[i] ELSE new[i - Len(list)]
  BY <1>6 DEF Good
<1>8. /\ list \o new \in Seq(Int) /\ Len(list \o new) = Len(list) + Len(new)
      /\ \A i \in 1 .. Len(list) + Len(new) : (list \o new)[i] =
           IF i <= Len(list) THEN list[i] ELSE new[i - Len(list)]
  BY <1>1, ConcatProperties
<1>9. f[Len(new)] = list \o new
  <2> DEFINE all == f[Len(new)]
             both == list \o new
  <2>1. \A i \in 1 .. Len(list) + Len(new) : all[i] = both[i]
    BY <1>7, <1>8
  <2>2. all \in Seq(Int) /\ both \in Seq(Int) /\ Len(all) = Len(both)
    BY <1>7, <1>8
  <2>3. \A i \in 1 .. Len(all) : all[i] = both[i]
    BY <1>7, <2>1
  <2> HIDE DEF all, both
  <2>4. all = both
    BY <2>2, <2>3, SeqEqual
  <2> QED
    BY <2>4 DEF all, both
<1> QED
  BY <1>2, <1>9
------------------------------------------------------------------------------
(* A channel and how much of it was taken.                                 *)
LEMMA ChannelKeys ==
  ASSUME P!NonEmptyChannels, P!IInv, NEW ch \in Channel
  PROVE  /\ data[ch] \in Seq(KeyTime) /\ Len(data[ch]) \in Nat /\ Len(data[ch]) > 0
         /\ \A i \in 1 .. Len(data[ch]) : data[ch][i] \in Nat
         /\ \A i, j \in 1 .. Len(data[ch]) : i <= j => data[ch][i] <= data[ch][j]
         /\ P!Delivered(ch) \in 0 .. Len(data[ch])
         /\ ~started => P!Delivered(ch) = 0
<1>1. data \in Animation
  BY DEF P!IInv, P!TypeOK
<1>2. data[ch] \in Seq(KeyTime)
  BY <1>1, Constants
<1>3. Len(data[ch]) \in Nat /\ \A i \in 1 .. Len(data[ch]) : data[ch][i] \in KeyTime
  BY <1>2, LenProperties, ElementOfSeq
<1>4. Len(data[ch]) > 0
  BY <1>1 DEF P!NonEmptyChannels
<1>5. \A i, j \in 1 .. Len(data[ch]) : i < j => data[ch][i] <= data[ch][j]
  BY <1>1, StreamingAssumption
<1>6. \A i \in 1 .. Len(data[ch]) : data[ch][i] \in Nat
  BY <1>3, Constants DEF KeyTime
<1>7. P!Delivered(ch) \in 0 .. Len(data[ch])
  BY <1>3, Constants DEF P!Delivered, P!IInv, P!Positions, P!TypeOK
<1>8. ~started => P!Delivered(ch) = 0
  BY DEF P!Delivered
<1>9. \A i, j \in 1 .. Len(data[ch]) : i <= j => data[ch][i] <= data[ch][j]
  BY <1>3, <1>5, <1>6
<1> QED
  BY <1>2, <1>3, <1>4, <1>6, <1>7, <1>8, <1>9

(* What getNKeys() hands out are the next keys of every channel.           *)
LEMMA PageTaken ==
  ASSUME P!NonEmptyChannels, P!IInv,
         NEW n \in {N_KEYS_ON_INIT, KeysPerPage}, Anim!GetNKeys(n)
  PROVE  /\ P!IInv' /\ started' /\ data' = data
         /\ started => P!FirstKeyout <= P!FirstKeyout'
         /\ \A ch \in Channel :
              LET new == Anim!PageOf(ch, n)
              IN  /\ new \in Seq(KeyTime) /\ Len(new) \in Nat
                  /\ P!Delivered(ch)' = P!Delivered(ch) + Len(new)
                  /\ P!Delivered(ch)' \in 1 .. Len(data[ch])
                  /\ \A i \in 1 .. Len(new) : new[i] = data[ch][P!Delivered(ch) + i]
                  /\ new = << >> => P!Delivered(ch) = Len(data[ch])
<1>1. P!GetNKeys(n)
  BY SamePaging
<1>2. P!IInv'
  BY <1>1, AnimationIsFine, P!PagePreserves
<1>3. started' /\ data' = data
  BY <1>1 DEF P!GetNKeys
<1>4. started => P!FirstKeyout <= P!FirstKeyout'
  BY <1>1, AnimationIsFine, P!PageMovesKeyoutsOn
<1>5. ASSUME NEW ch \in Channel
      PROVE  LET new == Anim!PageOf(ch, n)
             IN  /\ new \in Seq(KeyTime) /\ Len(new) \in Nat
                 /\ P!Delivered(ch)' = P!Delivered(ch) + Len(new)
                 /\ P!Delivered(ch)' \in 1 .. Len(data[ch])
                 /\ \A i \in 1 .. Len(new) : new[i] = data[ch][P!Delivered(ch) + i]
                 /\ new = << >> => P!Delivered(ch) = Len(data[ch])
  <2> DEFINE new == P!PageOf(ch, n)
             D == P!Delivered(ch)
             L == Len(data[ch])
             after == P!PositionAfter(ch, n)
  <2>1. Anim!PageOf(ch, n) = new
    BY SamePaging
  <2>2. /\ new \in Seq(P!Time)
        /\ (IF after = P!END THEN L ELSE after + 1) = D + Len(new)
        /\ D \in Nat
        /\ D + Len(new) = IF D + n < L THEN D + n ELSE L
        /\ \A i \in 1 .. Len(new) : new[i] = data[ch][D + i]
    BY AnimationIsFine, P!PageLemma
  <2>3. new \in Seq(KeyTime)
    BY <2>2 DEF P!Time, KeyTime
  <2>4. Len(new) \in Nat
    <3> HIDE DEF new
    <3> QED
      BY <2>3
  <2>5. /\ L \in Nat /\ L > 0 /\ D <= L /\ n \in Nat /\ n > 0
    BY ChannelKeys, Constants
  <2>6. D' = IF after = P!END THEN L ELSE after + 1
    BY <1>1, <1>3 DEF P!GetNKeys, P!Delivered
  <2> HIDE DEF new, D, L, after
  <2>7. D' = D + Len(new) /\ D' \in 1 .. L
    BY <2>2, <2>4, <2>5, <2>6
  <2>8. new = << >> => D = L
    BY <2>2, <2>5
  <2> QED
    BY <2>1, <2>2, <2>3, <2>4, <2>7, <2>8 DEF new, D, L
<1> QED
  BY <1>2, <1>3, <1>4, <1>5

(* The key that was taken last of an open channel is the keyout or later.  *)
LEMMA KeyoutBound ==
  ASSUME P!NonEmptyChannels, P!IInv, started
  PROVE  /\ P!FirstKeyout \in Nat
         /\ \A ch \in Channel :
              P!Delivered(ch) # Len(data[ch]) =>
                /\ P!Delivered(ch) \in 1 .. Len(data[ch]) - 1
                /\ P!FirstKeyout <= data[ch][P!Delivered(ch)]
                /\ P!FirstKeyout # KEYTIME_MAX
<1>1. /\ P!Keyouts \in SUBSET Nat
      /\ P!FirstKeyout \in P!Keyouts
      /\ \A u \in P!Keyouts : P!FirstKeyout <= u
  BY AnimationIsFine, P!FirstKeyoutIsLeast
<1>2. ASSUME NEW ch \in Channel, P!Delivered(ch) # Len(data[ch])
      PROVE  /\ P!Delivered(ch) \in 1 .. Len(data[ch]) - 1
             /\ P!FirstKeyout <= data[ch][P!Delivered(ch)]
             /\ P!FirstKeyout # KEYTIME_MAX
  <2>1. ch \in P!OpenChannels
    BY <1>2 DEF P!OpenChannels, P!Delivered
  <2>2. /\ P!Keyout(ch) \in P!Time
        /\ P!Keyout(ch) = data[ch][P!Delivered(ch)]
        /\ P!Delivered(ch) \in 1 .. Len(data[ch]) - 1
    BY <2>1, AnimationIsFine, P!OpenKeyouts
  <2>3. P!Keyout(ch) \in P!Keyouts
    BY <2>1 DEF P!Keyouts
  <2>4. P!FirstKeyout <= P!Keyout(ch)
    BY <1>1, <2>3
  <2>5. P!FirstKeyout # KEYTIME_MAX
    BY <1>1, <2>2, <2>4, Constants DEF P!Time
  <2> QED
    BY <2>2, <2>4, <2>5
<1> QED
  BY <1>1, <1>2
------------------------------------------------------------------------------
(* What the steps do to the parts of the state.                            *)

LEMMA PagingRests ==
  ASSUME P!NonEmptyChannels, P!IInv, UNCHANGED animVars
  PROVE  /\ P!IInv' /\ P!FirstKeyout' = P!FirstKeyout
         /\ data' = data /\ started' = started
         /\ \A ch \in Channel : P!Delivered(ch)' = P!Delivered(ch)
<1>1. /\ data' = data /\ keyframePositions' = keyframePositions
      /\ started' = started /\ sent' = sent
  BY DEF animVars
<1>2. [P!Next]_(P!vars)
  BY <1>1 DEF P!vars
<1>3. P!IInv'
  BY <1>2, AnimationIsFine, P!StepPreserves
<1>4. P!FirstKeyout' = P!FirstKeyout
  BY <1>1 DEF P!FirstKeyout, P!Earliest, P!OpenChannels, P!KeyAt, P!END
<1>5. \A ch \in Channel : P!Delivered(ch)' = P!Delivered(ch)
  BY <1>1 DEF P!Delivered, P!END
<1> QED
  BY <1>1, <1>3, <1>4, <1>5

LEMMA Broadcasting ==
  ASSUME Types, NEW content \in [Channel -> Content], Broadcast(content)
  PROVE  /\ air' \in [Channel -> Seq(Datagram)]
         /\ \A ch \in Channel :
              /\ Len(air[ch]) \in Nat
              /\ Len(air'[ch]) = Len(air[ch]) + 1
              /\ \A i \in 1 .. Len(air[ch]) : air'[ch][i] = air[ch][i]
              /\ air'[ch][Len(air[ch]) + 1].sentAt = now
              /\ air'[ch][Len(air[ch]) + 1].content = content[ch]
<1>1. SUFFICES ASSUME NEW ch \in Channel
               PROVE  LET all == Append(air[ch], [sentAt |-> now, content |-> content[ch]])
                          n == Len(air[ch])
                      IN  /\ all \in Seq(Datagram)
                          /\ n \in Nat /\ Len(all) = n + 1
                          /\ \A i \in 1 .. n : all[i] = air[ch][i]
                          /\ all[n + 1].sentAt = now
                          /\ all[n + 1].content = content[ch]
  BY DEF Broadcast
<1>2. air[ch] \in Seq(Datagram)
  BY DEF Types
<1>3. [sentAt |-> now, content |-> content[ch]] \in Datagram
  BY DEF Types, Datagram
<1> DEFINE new == [sentAt |-> now, content |-> content[ch]]
<1>4. new.sentAt = now /\ new.content = content[ch]
  OBVIOUS
<1> HIDE DEF new
<1>5. new \in Datagram
  BY <1>3 DEF new
<1>6. /\ Append(air[ch], new) \in Seq(Datagram)
      /\ Len(air[ch]) \in Nat
      /\ Len(Append(air[ch], new)) = Len(air[ch]) + 1
      /\ \A i \in 1 .. Len(air[ch]) : Append(air[ch], new)[i] = air[ch][i]
      /\ Append(air[ch], new)[Len(air[ch]) + 1] = new
  BY <1>2, <1>5
<1> QED
  BY <1>4, <1>6 DEF new

LEMMA LeavingTheAir ==
  ASSUME Types, NEW ch \in Channel, NEW i \in 1 .. Len(air[ch]),
         air' = [air EXCEPT ![ch] = RemoveAt(@, i)]
  PROVE  /\ air' \in [Channel -> Seq(Datagram)]
         /\ \A other \in Channel \ {ch} : air'[other] = air[other]
         /\ Len(air[ch]) \in Nat
         /\ Len(air'[ch]) = Len(air[ch]) - 1
         /\ \A j \in 1 .. Len(air[ch]) - 1 :
              air'[ch][j] = IF j < i THEN air[ch][j] ELSE air[ch][j + 1]
<1>1. air \in [Channel -> Seq(Datagram)] /\ air[ch] \in Seq(Datagram)
  BY DEF Types
<1>2. /\ RemoveAt(air[ch], i) \in Seq(Datagram)
      /\ Len(RemoveAt(air[ch], i)) = Len(air[ch]) - 1
      /\ \A j \in 1 .. Len(air[ch]) - 1 : RemoveAt(air[ch], i)[j] =
           IF j < i THEN air[ch][j] ELSE air[ch][j + 1]
  BY <1>1, Removed
<1>3. air'[ch] = RemoveAt(air[ch], i)
  BY <1>1
<1>4. Len(air[ch]) \in Nat
  BY <1>1
<1> QED
  BY <1>1, <1>2, <1>3, <1>4

LEMMA DatagramTypes ==
  ASSUME Types, NEW ch \in Channel, NEW i \in 1 .. Len(air[ch])
  PROVE  /\ air[ch][i].sentAt \in Nat
         /\ air[ch][i].content \in Content
         /\ air[ch][i].content.kind = "keys"
              => air[ch][i].content.keys \in Seq(KeyTime)
         /\ air[ch][i].content.kind = "ss" => air[ch][i].content.timeDrift \in Int
         /\ Carried(air[ch][i]) \in Seq(KeyTime)
<1>1. air[ch][i] \in Datagram
  BY DEF Types
<1> DEFINE d == air[ch][i]
<1> HIDE DEF d
<1>2. d \in Datagram
  BY <1>1 DEF d
<1>3. d.sentAt \in Nat /\ d.content \in Content
  BY <1>2 DEF Datagram
<1>4. /\ d.content.kind = "keys" => d.content.keys \in Seq(KeyTime)
      /\ d.content.kind = "ss" => d.content.timeDrift \in Int
  BY <1>3 DEF Content
<1>5. Carried(d) \in Seq(KeyTime)
  BY <1>4 DEF Carried
<1> QED
  BY <1>3, <1>4, <1>5 DEF d

(* A frame leaves idle nodes alone and moves keys from the list of a node  *)
(* that plays to those it has come to.                                     *)
LEMMA Framing ==
  ASSUME Types, NEW time \in Nat, Frame(time),
         \A ch \in Channel : running[ch] => Len(keys[ch]) >= 2
  PROVE  /\ keys' \in [Channel -> Seq(KeyTime)]
         /\ shown' \in [Channel -> Seq(KeyTime)]
         /\ running' \in [Channel -> BOOLEAN]
         /\ ahead' = ahead
         /\ \A ch \in Channel :
              IF running[ch]
                THEN \E n \in 0 .. Len(keys[ch]) - 1 :
                       /\ keys'[ch] = SubSeq(keys[ch], n + 1, Len(keys[ch]))
                       /\ shown'[ch] = shown[ch] \o SubSeq(keys[ch], 2, n + 1)
                       /\ running'[ch] <=> n + 1 < Len(keys[ch])
                       /\ \A i \in 1 .. n : keys[ch][i + 1] < time + ahead[ch]
                ELSE /\ keys'[ch] = keys[ch] /\ shown'[ch] = shown[ch]
                     /\ ~running'[ch]
<1> DEFINE passed == [ch \in Channel |->
              IF running[ch] THEN Passed(keys[ch], time + ahead[ch]) ELSE 0]
<1>1. /\ keys' = [ch \in Channel |->
                    SubSeq(keys[ch], passed[ch] + 1, Len(keys[ch]))]
      /\ shown' = [ch \in Channel |->
                     shown[ch] \o SubSeq(keys[ch], 2, passed[ch] + 1)]
      /\ running' = [ch \in Channel |-> running[ch] /\ Len(keys'[ch]) > 1]
      /\ ahead' = ahead
  BY DEF Frame
<1>2. ASSUME NEW ch \in Channel
      PROVE  /\ keys'[ch] \in Seq(KeyTime)
             /\ shown'[ch] \in Seq(KeyTime)
             /\ running'[ch] \in BOOLEAN
             /\ IF running[ch]
                  THEN \E n \in 0 .. Len(keys[ch]) - 1 :
                         /\ keys'[ch] = SubSeq(keys[ch], n + 1, Len(keys[ch]))
                         /\ shown'[ch] = shown[ch] \o SubSeq(keys[ch], 2, n + 1)
                         /\ running'[ch] <=> n + 1 < Len(keys[ch])
                         /\ \A i \in 1 .. n : keys[ch][i + 1] < time + ahead[ch]
                  ELSE /\ keys'[ch] = keys[ch] /\ shown'[ch] = shown[ch]
                       /\ ~running'[ch]
  <2>1. /\ keys[ch] \in Seq(KeyTime) /\ shown[ch] \in Seq(KeyTime)
        /\ running[ch] \in BOOLEAN /\ ahead[ch] \in Int
        /\ Len(keys[ch]) \in Nat
    BY DEF Types
  <2>2. CASE ~running[ch]
    <3>1. /\ keys'[ch] = SubSeq(keys[ch], 1, Len(keys[ch]))
          /\ shown'[ch] = shown[ch] \o SubSeq(keys[ch], 2, 1)
          /\ ~running'[ch]
      <4>1. passed[ch] + 1 = 1
        BY <2>2
      <4> HIDE DEF passed
      <4> QED
        BY <1>1, <2>2, <4>1
    <3>2. SubSeq(keys[ch], 1, Len(keys[ch])) = keys[ch]
      BY <2>1
    <3>3. SubSeq(keys[ch], 2, 1) = << >>
      BY <2>1
    <3>4. shown[ch] \o << >> = shown[ch]
      BY <2>1, ConcatEmptySeq
    <3> QED
      BY <1>1, <2>1, <2>2, <3>1, <3>2, <3>3, <3>4
  <2>3. CASE running[ch]
    <3> DEFINE n == Passed(keys[ch], time + ahead[ch])
    <3>1. Len(keys[ch]) >= 2
      BY <2>3
    <3>2. keys[ch] \in Seq(Int) /\ Len(keys[ch]) > 0 /\ time + ahead[ch] \in Int
      <4>1. KeyTime \subseteq Int
        BY DEF KeyTime
      <4>2. keys[ch] \in Seq(Int)
        BY <2>1, <4>1, SeqMonotonic
      <4> QED
        BY <2>1, <3>1, <4>2
    <3>3. /\ n \in 0 .. Len(keys[ch]) - 1
          /\ \A i \in 1 .. n : keys[ch][i + 1] < time + ahead[ch]
      BY <3>2, PassedKeys
    <3>4. /\ keys'[ch] = SubSeq(keys[ch], n + 1, Len(keys[ch]))
          /\ shown'[ch] = shown[ch] \o SubSeq(keys[ch], 2, n + 1)
          /\ running'[ch] <=> Len(keys'[ch]) > 1
          /\ running'[ch] \in BOOLEAN
      BY <1>1, <2>3
    <3> HIDE DEF n
    <3>5. n \in Nat /\ n + 1 \in 1 .. Len(keys[ch])
      BY <2>1, <3>3
    <3>6. /\ SubSeq(keys[ch], n + 1, Len(keys[ch])) \in Seq(KeyTime)
          /\ Len(SubSeq(keys[ch], n + 1, Len(keys[ch]))) = Len(keys[ch]) - n
          /\ SubSeq(keys[ch], 2, n + 1) \in Seq(KeyTime)
      BY <2>1, <3>5
    <3>7. shown[ch] \o SubSeq(keys[ch], 2, n + 1) \in Seq(KeyTime)
      BY <2>1, <3>6, ConcatProperties
    <3>8. running'[ch] <=> n + 1 < Len(keys[ch])
      BY <2>1, <3>4, <3>5, <3>6
    <3> QED
      BY <2>3, <3>3, <3>4, <3>6, <3>7, <3>8
  <2> QED
    BY <2>1, <2>2, <2>3
<1> HIDE DEF passed
<1>3. /\ keys' \in [Channel -> Seq(KeyTime)]
      /\ shown' \in [Channel -> Seq(KeyTime)]
      /\ running' \in [Channel -> BOOLEAN]
  BY <1>1, <1>2
<1> QED
  BY <1>1, <1>2, <1>3

(* What a node does with a datagram: start, stop, correct its clock,       *)
(* insert keys, or nothing.                                                *)
Starts(ch, content) == content.kind = "pl" /\ ~running[ch] /\ Len(keys[ch]) >= 2
Stops(ch, content) == content.kind = "sp" /\ running[ch]
Corrects(ch, content) == content.kind = "ss" /\ running[ch]
Takes(ch, content) == content.kind = "keys" /\ running[ch]

LEMMA Receiving ==
  ASSUME NEW ch, NEW content, Receive(ch, content)
  PROVE  /\ Starts(ch, content) =>
              /\ running' = [running EXCEPT ![ch] = TRUE]
              /\ ahead' = [ahead EXCEPT ![ch] = -now]
              /\ shown' = [shown EXCEPT ![ch] = <<Head(keys[ch])>>]
              /\ keys' = keys
         /\ Stops(ch, content) =>
              /\ running' = [running EXCEPT ![ch] = FALSE]
              /\ UNCHANGED <<keys, ahead, shown>>
         /\ Corrects(ch, content) =>
              /\ ahead' = [ahead EXCEPT ![ch] = @ + content.timeDrift]
              /\ UNCHANGED <<running, keys, shown>>
         /\ Takes(ch, content) =>
              /\ keys' = [keys EXCEPT ![ch] = InsertAll(@, content.keys)]
              /\ UNCHANGED <<running, ahead, shown>>
         /\ \/ Starts(ch, content) \/ Stops(ch, content)
            \/ Corrects(ch, content) \/ Takes(ch, content)
            \/ UNCHANGED nodeVars
BY DEF Receive, Starts, Stops, Corrects, Takes

(* Whatever a page holds, a list that takes it only grows at its end.      *)
LEMMA Grown ==
  ASSUME NEW S \in SUBSET Int, NEW list \in Seq(S), NEW new \in Seq(S)
  PROVE  /\ InsertAll(list, new) \in Seq(S)
         /\ Len(list) <= Len(InsertAll(list, new))
         /\ \A i \in 1 .. Len(list) : InsertAll(list, new)[i] = list[i]
<1>1. list \in Seq(Int) /\ new \in Seq(Int) /\ Len(list) \in Nat /\ Len(new) \in Nat
  <2>1. S \subseteq Int
    OBVIOUS
  <2>2. list \in Seq(Int) /\ new \in Seq(Int)
    BY <2>1, SeqMonotonic
  <2> QED
    BY <2>2, LenProperties
<1>2. PICK f : /\ DOMAIN f = 0 .. Len(new)
               /\ f[0] = list
               /\ \A n \in 1 .. Len(new) : f[n] = Insert(f[n - 1], new[n])
               /\ InsertAll(list, new) = f[Len(new)]
  BY <1>1, Inserting
<1> DEFINE Good(n) ==
      /\ f[n] \in Seq(S)
      /\ Len(list) <= Len(f[n])
      /\ \A i \in 1 .. Len(list) : f[n][i] = list[i]
<1>3. Good(0)
  BY <1>1, <1>2
<1>4. ASSUME NEW n \in 1 .. Len(new), Good(n - 1) PROVE Good(n)
  <2> DEFINE old == f[n - 1]
             key == new[n]
  <2>1. /\ old \in Seq(S)
        /\ Len(list) <= Len(old)
        /\ \A i \in 1 .. Len(list) : old[i] = list[i]
    BY <1>4
  <2>2. key \in S
    BY <1>1
  <2>3. f[n] = Append(old, key) \/ f[n] = old
    BY <1>2 DEF Insert
  <2> HIDE DEF old, key
  <2>4. /\ Len(old) \in Nat
        /\ Append(old, key) \in Seq(S) /\ Len(Append(old, key)) = Len(old) + 1
        /\ \A i \in 1 .. Len(old) : Append(old, key)[i] = old[i]
    BY <2>1, <2>2
  <2>5. CASE f[n] = old
    BY <2>1, <2>5
  <2>6. CASE f[n] = Append(old, key)
    <3>1. \A i \in 1 .. Len(list) : i \in 1 .. Len(old)
      BY <1>1, <2>1, <2>4
    <3>2. Len(list) <= Len(f[n])
      BY <1>1, <2>1, <2>4, <2>6
    <3>3. \A i \in 1 .. Len(list) : f[n][i] = list[i]
      BY <2>1, <2>4, <2>6, <3>1
    <3> QED
      BY <2>4, <2>6, <3>2, <3>3
  <2> QED
    BY <2>3, <2>5, <2>6
<1> HIDE DEF Good
<1>5. \A n \in 0 .. Len(new) : Good(n)
  <2> DEFINE Bad == {n \in 0 .. Len(new) : ~ Good(n)}
  <2>1. SUFFICES ASSUME Bad # {} PROVE FALSE
    OBVIOUS
  <2>2. Bad \in SUBSET Nat
    BY <1>1
  <2>3. PICK n \in Bad : \A m \in Bad : n <= m
    <3> HIDE DEF Bad
    <3> QED
      BY <2>1, <2>2, AnimationIsFine, P!LeastNumber
  <2>4. n \in 1 .. Len(new) /\ n - 1 \in 0 .. Len(new) /\ ~ (n <= n - 1)
    BY <1>1, <1>3
  <2> QED
    BY <1>4, <2>3, <2>4
<1>6. Good(Len(new))
  BY <1>1, <1>5
<1> QED
  BY <1>2, <1>6 DEF Good

LEMMA SentOrNew ==
  ASSUME Types, NEW content \in [Channel -> Content], Broadcast(content),
         NEW ch \in Channel, NEW i \in 1 .. Len(air'[ch])
  PROVE  \/ i \in 1 .. Len(air[ch]) /\ air'[ch][i] = air[ch][i]
         \/ /\ i = Len(air[ch]) + 1
            /\ air'[ch][i].sentAt = now
            /\ air'[ch][i].content = content[ch]
<1>1. /\ Len(air[ch]) \in Nat
      /\ Len(air'[ch]) = Len(air[ch]) + 1
      /\ \A j \in 1 .. Len(air[ch]) : air'[ch][j] = air[ch][j]
      /\ air'[ch][Len(air[ch]) + 1].sentAt = now
      /\ air'[ch][Len(air[ch]) + 1].content = content[ch]
  BY Broadcasting
<1>2. i \in 1 .. Len(air[ch]) \/ i = Len(air[ch]) + 1
  BY <1>1
<1> QED
  BY <1>1, <1>2

LEMMA StillInTheAir ==
  ASSUME Types, NEW ch \in Channel, NEW i \in 1 .. Len(air[ch]),
         air' = [air EXCEPT ![ch] = RemoveAt(@, i)]
  PROVE  \A other \in Channel : \A j \in 1 .. Len(air'[other]) :
           \E k \in 1 .. Len(air[other]) :
             /\ air'[other][j] = air[other][k] /\ (k = 1 => j = 1)
             /\ other = ch => k # i
<1> TAKE other \in Channel
<1> TAKE j \in 1 .. Len(air'[other])
<1>1. /\ \A o \in Channel \ {ch} : air'[o] = air[o]
      /\ Len(air[ch]) \in Nat
      /\ Len(air'[ch]) = Len(air[ch]) - 1
      /\ \A n \in 1 .. Len(air[ch]) - 1 :
           air'[ch][n] = IF n < i THEN air[ch][n] ELSE air[ch][n + 1]
  BY LeavingTheAir
<1>2. CASE other # ch
  BY <1>1, <1>2
<1>3. CASE other = ch
  <2>1. j \in 1 .. Len(air[ch]) - 1 /\ j \in Nat /\ i \in Nat
    BY <1>1, <1>3
  <2>2. CASE j < i
    <3>1. air'[ch][j] = air[ch][j] /\ j \in 1 .. Len(air[ch]) /\ j # i
      BY <1>1, <2>1, <2>2
    <3> QED
      BY <1>3, <3>1
  <2>3. CASE ~ (j < i)
    <3>1. /\ air'[ch][j] = air[ch][j + 1] /\ j + 1 \in 1 .. Len(air[ch])
          /\ j + 1 # 1 /\ j + 1 # i
      BY <1>1, <2>1, <2>3
    <3> QED
      BY <1>3, <3>1
  <2> QED
    BY <2>2, <2>3
<1> QED
  BY <1>2, <1>3
------------------------------------------------------------------------------
(* The invariant of the schedule.                                          *)

LEMMA InitShow ==
  ASSUME Init PROVE ShowInv
<1> USE DEF Init
<1>1. P!IInv
  BY SamePaging, AnimationIsFine, P!InitEstablishes
<1>2. ~started
  BY SamePaging DEF P!Init
<1>3. Types
  <2>1. << >> \in Seq(KeyTime) /\ << >> \in Seq(Datagram)
    BY EmptySeq
  <2>2. /\ page \in [Channel -> Seq(KeyTime)]
        /\ keys \in [Channel -> Seq(KeyTime)]
        /\ shown \in [Channel -> Seq(KeyTime)]
    BY <2>1
  <2>3. air \in [Channel -> Seq(Datagram)]
    BY <2>1
  <2>4. running \in [Channel -> BOOLEAN] /\ ahead \in [Channel -> Int]
    OBVIOUS
  <2> QED
    BY <2>2, <2>3, <2>4 DEF Types
<1>4. Schedule
  BY <1>2 DEF Schedule
<1>5. Pace
  BY DEF Pace
<1>6. \A ch \in Channel : PageFollows(ch) /\ Traffic(ch)
  <2> TAKE ch \in Channel
  <2>1. Len(air[ch]) = 0
    BY EmptySeq
  <2> QED
    BY <2>1 DEF PageFollows, Traffic
<1> QED
  BY <1>1, <1>3, <1>4, <1>5, <1>6 DEF ShowInv

LEMMA UploadShow ==
  ASSUME P!NonEmptyChannels, ShowInv, Upload PROVE ShowInv'
<1> USE DEF Upload, faultVars
<1> DEFINE n == N_KEYS_ON_INIT
<1>1. /\ P!IInv' /\ started' /\ data' = data
      /\ \A ch \in Channel :
           /\ Anim!PageOf(ch, n) \in Seq(KeyTime)
           /\ P!Delivered(ch)' \in 1 .. Len(data[ch])
  BY PageTaken DEF ShowInv
<1>2. Types'
  BY <1>1 DEF ShowInv, Types
<1>3. Schedule'
  BY <1>1 DEF ShowInv, Schedule
<1>4. Pace'
  BY DEF ShowInv, Pace, Schedule
<1>5. \A ch \in Channel : PageFollows(ch)' /\ Traffic(ch)'
  <2> TAKE ch \in Channel
  <2>1. PageFollows(ch)'
    BY DEF PageFollows
  <2>2. Len(air[ch]) = 0 /\ shown[ch] = << >> /\ ~running[ch]
    BY EmptySeq DEF ShowInv, Schedule, Traffic
  <2>3. SentOut(ch)' \in 1 .. Len(data[ch])
    <3>1. SentOut(ch)' = P!Delivered(ch)' - 0
      BY EmptySeq DEF SentOut, Pending
    <3>2. P!Delivered(ch)' \in Int
      BY <1>1
    <3> QED
      BY <1>1, <3>1, <3>2
  <2> QED
    BY <2>1, <2>2, <2>3 DEF Traffic
<1> QED
  BY <1>1, <1>2, <1>3, <1>4, <1>5 DEF ShowInv

(* The steps that leave the paging, the page and the nodes alone and send  *)
(* a datagram that is no page.                                             *)
LEMMA CommandTraffic ==
  ASSUME P!NonEmptyChannels, ShowInv,
         NEW content \in Content, Broadcast(ToAll(content)),
         UNCHANGED animVars, page' = page, UNCHANGED nodeVars,
         thread = "sleeping" <=> thread' = "sleeping", thread # "upload",
         firstTime' = firstTime, stopped => stopped',
         content.kind # "keys", content.kind = "sp" => stopped',
         content.kind = "pl" => thread = "play"
  PROVE  /\ P!IInv' /\ air' \in [Channel -> Seq(Datagram)]
         /\ P!FirstKeyout' = P!FirstKeyout /\ started' = started /\ data' = data
         /\ \A ch \in Channel : Traffic(ch)'
         /\ \A ch \in Channel : P!Delivered(ch)' = P!Delivered(ch) /\ SentOut(ch)' = SentOut(ch)
<1>1. ToAll(content) \in [Channel -> Content]
  BY DEF ToAll
<1>2. /\ P!IInv' /\ P!FirstKeyout' = P!FirstKeyout
      /\ data' = data /\ started' = started
      /\ \A ch \in Channel : P!Delivered(ch)' = P!Delivered(ch)
  BY PagingRests DEF ShowInv
<1>3. Types
  BY DEF ShowInv
<1>4. air' \in [Channel -> Seq(Datagram)]
  BY <1>1, <1>3, Broadcasting
<1>5. ASSUME NEW ch \in Channel PROVE SentOut(ch)' = SentOut(ch)
  BY <1>2 DEF SentOut, Pending
<1>6. ASSUME NEW ch \in Channel PROVE Traffic(ch)'
  <2>1. Traffic(ch)
    BY DEF ShowInv
  <2>2. ASSUME NEW i \in 1 .. Len(air'[ch])
        PROVE  LET kind == air'[ch][i].content.kind
               IN  /\ kind = "pl" => i = 1 /\ shown[ch] = << >>
                   /\ kind = "sp" => stopped'
                   /\ kind = "keys" => ~firstTime
    <3>1. CASE i \in 1 .. Len(air[ch]) /\ air'[ch][i] = air[ch][i]
      BY <2>1, <3>1 DEF Traffic
    <3>2. CASE /\ i = Len(air[ch]) + 1
               /\ air'[ch][i].content = ToAll(content)[ch]
      <4>1. air'[ch][i].content = content
        BY <3>2 DEF ToAll
      <4>2. content.kind = "pl" => i = 1 /\ shown[ch] = << >>
        <5>1. thread = "play" => air[ch] = << >> /\ shown[ch] = << >>
          BY DEF ShowInv, Schedule
        <5> QED
          BY <3>2, <5>1, EmptySeq
      <4> QED
        BY <4>1, <4>2
    <3> QED
      BY <1>1, <1>3, <3>1, <3>2, SentOrNew
  <2>3. /\ thread' # "upload" => SentOut(ch)' >= 1
        /\ shown'[ch] = << >> => ~running'[ch]
        /\ running'[ch] => Len(keys'[ch]) >= 2 /\ Last(shown'[ch]) = Head(keys'[ch])
        /\ shown' = shown
    BY <1>5, <2>1 DEF Traffic, nodeVars
  <2> QED
    BY <2>2, <2>3 DEF Traffic
<1> QED
  BY <1>2, <1>4, <1>5, <1>6

LEMMA BroadcastPlayShow ==
  ASSUME P!NonEmptyChannels, ShowInv, BroadcastPlay PROVE ShowInv'
<1> USE DEF BroadcastPlay, faultVars
<1> DEFINE content == [kind |-> "pl"]
<1>1. content \in Content /\ content.kind = "pl"
  BY DEF Content
<1> HIDE DEF content
<1>2. Broadcast(ToAll(content))
  BY DEF content
<1>3. /\ P!IInv' /\ air' \in [Channel -> Seq(Datagram)]
      /\ P!FirstKeyout' = P!FirstKeyout /\ started' = started /\ data' = data
      /\ \A ch \in Channel : Traffic(ch)'
  BY <1>1, <1>2, CommandTraffic
<1>4. Types'
  BY <1>3 DEF ShowInv, Types, nodeVars
<1>5. Schedule' /\ Pace'
  BY <1>3 DEF ShowInv, Schedule, Pace, nodeVars
<1>6. \A ch \in Channel : PageFollows(ch)'
  BY DEF PageFollows
<1> QED
  BY <1>3, <1>4, <1>5, <1>6 DEF ShowInv

LEMMA CorrectDriftShow ==
  ASSUME P!NonEmptyChannels, ShowInv, CorrectDrift PROVE ShowInv'
<1> USE DEF CorrectDrift, faultVars
<1>1. /\ P!IInv' /\ air' \in [Channel -> Seq(Datagram)]
      /\ P!FirstKeyout' = P!FirstKeyout /\ started' = started /\ data' = data
      /\ \A ch \in Channel : Traffic(ch)'
  <2>1. CASE UNCHANGED air
    <3>1. /\ P!IInv' /\ P!FirstKeyout' = P!FirstKeyout
          /\ data' = data /\ started' = started
          /\ \A ch \in Channel : P!Delivered(ch)' = P!Delivered(ch)
      BY PagingRests DEF ShowInv
    <3>2. \A ch \in Channel : SentOut(ch)' = SentOut(ch)
      BY <3>1 DEF SentOut, Pending
    <3> QED
      BY <2>1, <3>1, <3>2 DEF ShowInv, Types, Traffic, nodeVars
  <2>2. CASE \E first \in Channel, error \in -MaxError .. MaxError :
               /\ running[first]
               /\ ahead[first] + error # 0
               /\ Broadcast(ToAll([kind |-> "ss",
                                   timeDrift |-> -(ahead[first] + error)]))
    <3>1. PICK first \in Channel, error \in -MaxError .. MaxError :
            Broadcast(ToAll([kind |-> "ss", timeDrift |-> -(ahead[first] + error)]))
      BY <2>2
    <3> DEFINE content == [kind |-> "ss", timeDrift |-> -(ahead[first] + error)]
    <3>2. ahead[first] \in Int /\ error \in Int
      BY StreamingAssumption DEF ShowInv, Types
    <3>3. content \in Content /\ content.kind = "ss"
      BY <3>2 DEF Content
    <3> HIDE DEF content
    <3>4. Broadcast(ToAll(content))
      BY <3>1 DEF content
    <3> QED
      BY <3>3, <3>4, CommandTraffic
  <2> QED
    BY <2>1, <2>2
<1>2. Types'
  BY <1>1 DEF ShowInv, Types, nodeVars
<1>3. Schedule' /\ Pace'
  <2>1. firstTime /\ thread = "syncing"
    BY DEF ShowInv, Schedule
  <2>2. P!FirstKeyout \in Nat
    BY <2>1, KeyoutBound DEF ShowInv, Schedule
  <2> QED
    BY <1>1, <2>1, <2>2 DEF ShowInv, Schedule, Pace, nodeVars
<1>4. \A ch \in Channel : PageFollows(ch)'
  BY DEF PageFollows
<1> QED
  BY <1>1, <1>2, <1>3, <1>4 DEF ShowInv

LEMMA StopShow ==
  ASSUME P!NonEmptyChannels, ShowInv, Stop PROVE ShowInv'
<1> USE DEF Stop
<1> DEFINE content == [kind |-> "sp"]
<1>1. content \in Content /\ content.kind = "sp"
  BY DEF Content
<1> HIDE DEF content
<1>2. Broadcast(ToAll(content))
  BY DEF content
<1>3. /\ P!IInv' /\ air' \in [Channel -> Seq(Datagram)]
      /\ P!FirstKeyout' = P!FirstKeyout /\ started' = started /\ data' = data
      /\ \A ch \in Channel : Traffic(ch)'
      /\ \A ch \in Channel : P!Delivered(ch)' = P!Delivered(ch) /\ SentOut(ch)' = SentOut(ch)
  BY <1>1, <1>2, CommandTraffic
<1>4. Types'
  BY <1>3 DEF ShowInv, Types, nodeVars
<1>5. Schedule' /\ Pace'
  BY <1>3 DEF ShowInv, Schedule, Pace, nodeVars
<1>6. \A ch \in Channel : PageFollows(ch)'
  BY <1>3 DEF ShowInv, PageFollows
<1> QED
  BY <1>3, <1>4, <1>5, <1>6 DEF ShowInv

LEMMA EndLoopShow ==
  ASSUME P!NonEmptyChannels, ShowInv, EndLoop PROVE ShowInv'
<1> USE DEF EndLoop, faultVars, nodeVars
<1>1. /\ P!IInv' /\ P!FirstKeyout' = P!FirstKeyout
      /\ data' = data /\ started' = started
      /\ \A ch \in Channel : P!Delivered(ch)' = P!Delivered(ch)
  BY PagingRests DEF ShowInv
<1>2. \A ch \in Channel : SentOut(ch)' = SentOut(ch)
  BY <1>1 DEF SentOut, Pending
<1>3. Types'
  BY DEF ShowInv, Types
<1>4. Schedule' /\ Pace'
  BY <1>1, SamePaging DEF ShowInv, Schedule, Pace, More
<1>5. \A ch \in Channel : PageFollows(ch)' /\ Traffic(ch)'
  BY <1>2 DEF ShowInv, PageFollows, Traffic
<1> QED
  BY <1>1, <1>3, <1>4, <1>5 DEF ShowInv

LEMMA Halves ==
  ASSUME NEW k \in Nat
  PROVE  /\ k \div 2 \in Nat /\ (k + 1) \div 2 \in Nat
         /\ k \div 2 + (k + 1) \div 2 = k
         /\ (k + 1) \div 2 <= k
OBVIOUS

(* Two keys that follow each other in a part of a channel.                 *)
LEMMA PartOf ==
  ASSUME NEW S, NEW s \in Seq(S), NEW t \in Seq(S),
         NEW m \in Nat, NEW n \in Nat, m + Len(t) = n, n <= Len(s),
         \A i \in 1 .. Len(t) : t[i] = s[m + i]
  PROVE  t = SubSeq(s, m + 1, n)
<1>1. Len(s) \in Nat /\ Len(t) \in Nat
  OBVIOUS
<1> DEFINE part == SubSeq(s, m + 1, n)
<1>2. /\ part \in Seq(S) /\ Len(part) = n - m
      /\ \A i \in 1 .. n - m : part[i] = s[m + i]
  BY <1>1
<1>3. Len(t) = n - m
  BY <1>1
<1> HIDE DEF part
<1>4. \A i \in 1 .. Len(t) : t[i] = part[i]
  BY <1>2, <1>3
<1>5. t = part
  BY <1>2, <1>3, <1>4, SeqEqual
<1> QED
  BY <1>5 DEF part

LEMMA LoopShow ==
  ASSUME P!NonEmptyChannels, ShowInv, Loop PROVE ShowInv'
<1> USE DEF Loop
<1> DEFINE n == KeysPerPage
           keyout == P!FirstKeyout
<1>1. started
  BY DEF ShowInv, Schedule
<1>2. /\ P!IInv' /\ started' /\ data' = data
      /\ keyout <= keyout'
      /\ \A ch \in Channel :
           /\ page'[ch] \in Seq(KeyTime) /\ Len(page'[ch]) \in Nat
           /\ P!Delivered(ch)' = P!Delivered(ch) + Len(page'[ch])
           /\ P!Delivered(ch)' \in 1 .. Len(data[ch])
           /\ \A i \in 1 .. Len(page'[ch]) : page'[ch][i] = data[ch][P!Delivered(ch) + i]
           /\ page'[ch] = << >> => P!Delivered(ch) = Len(data[ch])
  BY <1>1, PageTaken DEF ShowInv
<1>3. keyout \in Nat
  BY <1>1, KeyoutBound DEF ShowInv
<1>4. /\ wake' = now + (IF firstTime THEN (keyout - lastKeyout) \div 2
                                     ELSE keyout - lastKeyout)
      /\ lastKeyout' = keyout
      /\ reserve' = IF firstTime THEN (keyout + 1) \div 2 ELSE reserve
  BY SamePaging DEF MsToSleep
<1>5. /\ now \in Nat /\ lag \in Nat /\ reserve \in Nat /\ lastKeyout \in Nat
      /\ firstTime => lastKeyout = 0 /\ reserve = 0 /\ now = lag
      /\ ~firstTime => now + reserve = lastKeyout + lag
      /\ lastKeyout <= keyout
  BY DEF ShowInv, Types, Pace
<1> HIDE DEF keyout
<1>6. wake' \in Nat /\ reserve' \in Nat /\ now <= wake'
      /\ wake' + reserve' = lastKeyout' + lag
  <2>1. CASE firstTime
    <3>1. wake' = now + keyout \div 2 /\ reserve' = (keyout + 1) \div 2
      BY <1>3, <1>4, <1>5, <2>1
    <3>2. /\ keyout \div 2 \in Nat /\ (keyout + 1) \div 2 \in Nat
          /\ keyout \div 2 + (keyout + 1) \div 2 = keyout
      BY <1>3, Halves
    <3> DEFINE a == keyout \div 2
               b == (keyout + 1) \div 2
    <3> HIDE DEF a, b
    <3>3. wake' = now + a /\ reserve' = b /\ a \in Nat /\ b \in Nat /\ a + b = keyout
      BY <3>1, <3>2 DEF a, b
    <3> QED
      BY <1>3, <1>4, <1>5, <2>1, <3>3
  <2>2. CASE ~firstTime
    BY <1>3, <1>4, <1>5, <2>2
  <2> QED
    BY <2>1, <2>2
<1>7. Types'
  <2>1. page' \in [Channel -> Seq(KeyTime)]
    BY <1>2
  <2> QED
    BY <1>3, <1>4, <1>6, <2>1 DEF ShowInv, Types, nodeVars
<1>8. Schedule'
  BY <1>2 DEF ShowInv, Schedule, More
<1>9. Pace'
  <2>1. /\ ~firstTime' /\ thread' = "sleeping" /\ lag' = lag /\ now' = now
    OBVIOUS
  <2>2. (IF now < wake' THEN wake' ELSE now) = wake'
    BY <1>5, <1>6
  <2>3. lastKeyout' <= keyout'
    BY <1>2, <1>4
  <2> QED
    BY <1>6, <2>1, <2>2, <2>3 DEF Pace, keyout
<1>10. ASSUME NEW ch \in Channel PROVE PageFollows(ch)' /\ Traffic(ch)'
  <2>1. /\ data[ch] \in Seq(KeyTime) /\ Len(data[ch]) \in Nat
        /\ P!Delivered(ch) \in Nat
    BY ChannelKeys DEF ShowInv
  <2>2. SentOut(ch) = P!Delivered(ch)
    BY <2>1, EmptySeq DEF SentOut, Pending
  <2>3. SentOut(ch)' = P!Delivered(ch)
    <3>1. SentOut(ch)' = P!Delivered(ch)' - Len(page'[ch])
      BY DEF SentOut, Pending
    <3> QED
      BY <1>2, <2>1, <3>1
  <2>4. page'[ch] = SubSeq(data[ch], SentOut(ch)' + 1, P!Delivered(ch)')
    <3> DEFINE s == data[ch]
               t == page'[ch]
               D == P!Delivered(ch)
               E == P!Delivered(ch)'
    <3>1. /\ s \in Seq(KeyTime) /\ t \in Seq(KeyTime) /\ D \in Nat /\ E = D + Len(t)
          /\ E \in 1 .. Len(s) /\ Len(s) \in Nat
          /\ \A i \in 1 .. Len(t) : t[i] = s[D + i]
      BY <1>2, <2>1
    <3> HIDE DEF s, t, D, E
    <3>2. t = SubSeq(s, D + 1, E)
      BY <3>1, PartOf
    <3> QED
      BY <2>3, <3>2 DEF s, t, D, E
  <2>5. page'[ch] = << >> => P!Delivered(ch)' = Len(data[ch])
    BY <1>2, <2>1, EmptySeq
  <2>6. page'[ch] # << >> => lastKeyout' <= data[ch][SentOut(ch)']
    <3>1. ASSUME page'[ch] # << >> PROVE P!Delivered(ch) # Len(data[ch])
      <4>1. Len(page'[ch]) # 0
        BY <1>2, <3>1, EmptySeq
      <4> QED
        BY <1>2, <2>1, <4>1
    <3>2. page'[ch] # << >> => keyout <= data[ch][P!Delivered(ch)]
      BY <1>1, <3>1, KeyoutBound DEF ShowInv, keyout
    <3> QED
      BY <1>4, <2>3, <3>2
  <2>7. Traffic(ch)'
    BY <2>2, <2>3 DEF ShowInv, Traffic, nodeVars
  <2> QED
    BY <1>2, <2>4, <2>5, <2>6, <2>7 DEF PageFollows
<1> QED
  BY <1>2, <1>7, <1>8, <1>9, <1>10 DEF ShowInv

LEMMA SendKeysShow ==
  ASSUME P!NonEmptyChannels, ShowInv, SendKeys PROVE ShowInv'
<1> USE DEF SendKeys, faultVars, nodeVars
<1> DEFINE content == [ch \in Channel |-> [kind |-> "keys", keys |-> page[ch]]]
<1>1. content \in [Channel -> Content] /\ Broadcast(content)
  BY DEF ShowInv, Types, Content
<1>2. \A ch \in Channel : content[ch].kind = "keys"
  OBVIOUS
<1> HIDE DEF content
<1>3. Types
  BY DEF ShowInv
<1>4. air' \in [Channel -> Seq(Datagram)]
  BY <1>1, <1>3, Broadcasting
<1>5. /\ P!IInv' /\ P!FirstKeyout' = P!FirstKeyout
      /\ data' = data /\ started' = started
      /\ \A ch \in Channel : P!Delivered(ch)' = P!Delivered(ch)
  BY PagingRests DEF ShowInv
<1>6. Types'
  BY <1>4 DEF ShowInv, Types
<1>7. Schedule' /\ Pace'
  BY <1>5, <1>3 DEF ShowInv, Schedule, Pace, Types
<1>8. ASSUME NEW ch \in Channel PROVE PageFollows(ch)' /\ Traffic(ch)'
  <2>1. PageFollows(ch)'
    BY DEF PageFollows
  <2>2. Traffic(ch) /\ ~firstTime
    BY DEF ShowInv, Schedule
  <2>3. ASSUME NEW i \in 1 .. Len(air'[ch])
        PROVE  LET kind == air'[ch][i].content.kind
               IN  /\ kind = "pl" => i = 1 /\ shown[ch] = << >>
                   /\ kind = "sp" => stopped
                   /\ kind = "keys" => ~firstTime
    <3>1. CASE i \in 1 .. Len(air[ch]) /\ air'[ch][i] = air[ch][i]
      BY <2>2, <3>1 DEF Traffic
    <3>2. CASE air'[ch][i].content = content[ch]
      BY <1>2, <2>2, <3>2
    <3> QED
      BY <1>1, <1>3, <3>1, <3>2, SentOrNew
  <2>4. SentOut(ch)' >= 1
    <3>1. P!Delivered(ch) \in Nat /\ Len(page[ch]) \in Nat
      BY <1>3, ChannelKeys DEF ShowInv, Types
    <3>2. SentOut(ch) = P!Delivered(ch) - Len(page[ch]) /\ SentOut(ch) >= 1
      BY <2>2 DEF SentOut, Pending, Traffic
    <3>3. SentOut(ch)' = P!Delivered(ch) - 0
      BY <1>5, EmptySeq DEF SentOut, Pending
    <3> QED
      BY <3>1, <3>2, <3>3
  <2> QED
    BY <2>1, <2>2, <2>3, <2>4 DEF Traffic
<1> QED
  BY <1>5, <1>6, <1>7, <1>8 DEF ShowInv

(* What does not touch the thread leaves what it has sent and its pace.    *)
LEMMA ThreadRests ==
  ASSUME P!NonEmptyChannels, ShowInv, UNCHANGED animVars, UNCHANGED threadVars
  PROVE  /\ P!IInv' /\ P!FirstKeyout' = P!FirstKeyout
         /\ data' = data /\ started' = started
         /\ \A ch \in Channel :
              /\ P!Delivered(ch)' = P!Delivered(ch)
              /\ SentOut(ch)' = SentOut(ch)
              /\ PageFollows(ch)'
<1>1. /\ P!IInv' /\ P!FirstKeyout' = P!FirstKeyout
      /\ data' = data /\ started' = started
      /\ \A ch \in Channel : P!Delivered(ch)' = P!Delivered(ch)
  BY PagingRests DEF ShowInv
<1>2. \A ch \in Channel : SentOut(ch)' = SentOut(ch)
  BY <1>1 DEF SentOut, Pending, threadVars
<1>3. \A ch \in Channel : PageFollows(ch)'
  BY <1>1, <1>2 DEF ShowInv, PageFollows, threadVars
<1> QED
  BY <1>1, <1>2, <1>3

LEMMA LoseShow ==
  ASSUME P!NonEmptyChannels, ShowInv, NEW ch \in Channel, Lose(ch)
  PROVE  ShowInv'
<1> USE DEF Lose
<1>1. /\ P!IInv' /\ P!FirstKeyout' = P!FirstKeyout
      /\ data' = data /\ started' = started
      /\ \A c \in Channel : SentOut(c)' = SentOut(c) /\ PageFollows(c)'
  BY ThreadRests
<1>2. PICK i \in 1 .. Len(air[ch]) : air' = [air EXCEPT ![ch] = RemoveAt(@, i)]
  OBVIOUS
<1>3. Types
  BY DEF ShowInv
<1>4. air' \in [Channel -> Seq(Datagram)]
  BY <1>2, <1>3, LeavingTheAir
<1>5. Types'
  BY <1>4 DEF ShowInv, Types, threadVars, nodeVars
<1>6. thread \notin {"upload", "play"}
  BY <1>2, EmptySeq DEF ShowInv, Schedule
<1>7. Schedule' /\ Pace'
  BY <1>1, <1>6 DEF ShowInv, Schedule, Pace, threadVars, nodeVars
<1>8. ASSUME NEW c \in Channel PROVE Traffic(c)'
  <2>1. Traffic(c)
    BY DEF ShowInv
  <2>2. \A d \in Channel : \A j \in 1 .. Len(air'[d]) : \E k \in 1 .. Len(air[d]) :
          /\ air'[d][j] = air[d][k] /\ (k = 1 => j = 1)
          /\ d = ch => k # i
    <3> HIDE DEF Lose
    <3> QED
      BY <1>2, <1>3, StillInTheAir
  <2>3. ASSUME NEW j \in 1 .. Len(air'[c])
        PROVE  LET kind == air'[c][j].content.kind
               IN  /\ kind = "pl" => j = 1 /\ shown[c] = << >>
                   /\ kind = "sp" => stopped
                   /\ kind = "keys" => ~firstTime
    <3>1. PICK k \in 1 .. Len(air[c]) :
            air'[c][j] = air[c][k] /\ (k = 1 => j = 1)
      BY <2>2
    <3> QED
      BY <2>1, <3>1 DEF Traffic
  <2> QED
    BY <1>1, <2>1, <2>3 DEF Traffic, threadVars, nodeVars
<1> QED
  BY <1>1, <1>5, <1>7, <1>8 DEF ShowInv

LEMMA ArriveShow ==
  ASSUME P!NonEmptyChannels, ShowInv, NEW ch \in Channel, Arrive(ch)
  PROVE  ShowInv'
<1>1. PICK i \in 1 .. Len(air[ch]) :
        /\ Receive(ch, air[ch][i].content)
        /\ air' = [air EXCEPT ![ch] = RemoveAt(@, i)]
        /\ overtaken' = (overtaken \/ i > 1)
        /\ UNCHANGED <<animVars, threadVars, now, lag, reserve, lost, stopped>>
  BY DEF Arrive
<1>2. /\ P!IInv' /\ P!FirstKeyout' = P!FirstKeyout
      /\ data' = data /\ started' = started
      /\ \A c \in Channel : SentOut(c)' = SentOut(c) /\ PageFollows(c)'
  BY <1>1, ThreadRests
<1>3. Types
  BY DEF ShowInv
<1> DEFINE content == air[ch][i].content
<1>4. /\ content.kind = "keys" => content.keys \in Seq(KeyTime)
      /\ content.kind = "ss" => content.timeDrift \in Int
  BY <1>3, DatagramTypes
<1>5. /\ content.kind = "pl" => i = 1 /\ shown[ch] = << >>
      /\ \A c \in Channel : Traffic(c)
  BY DEF ShowInv, Traffic
<1> HIDE DEF content
<1>6. /\ air' \in [Channel -> Seq(Datagram)]
      /\ \A c \in Channel : \A j \in 1 .. Len(air'[c]) :
           \E k \in 1 .. Len(air[c]) :
             /\ air'[c][j] = air[c][k] /\ (k = 1 => j = 1)
             /\ c = ch => k # i
  <2>1. air' = [air EXCEPT ![ch] = RemoveAt(@, i)]
    BY <1>1
  <2>2. air' \in [Channel -> Seq(Datagram)]
    BY <1>3, <2>1, LeavingTheAir
  <2>3. \A c \in Channel : \A j \in 1 .. Len(air'[c]) :
          \E k \in 1 .. Len(air[c]) :
            /\ air'[c][j] = air[c][k] /\ (k = 1 => j = 1)
            /\ c = ch => k # i
    BY <1>3, <2>1, StillInTheAir
  <2> QED
    BY <2>2, <2>3
<1>7. thread \notin {"upload", "play"}
  BY <1>1, EmptySeq DEF ShowInv, Schedule
<1> DEFINE Node(c) ==
      /\ shown'[c] = << >> => ~running'[c]
      /\ running'[c] => Len(keys'[c]) >= 2 /\ Last(shown'[c]) = Head(keys'[c])
<1>8. /\ keys' \in [Channel -> Seq(KeyTime)] /\ shown' \in [Channel -> Seq(KeyTime)]
      /\ running' \in [Channel -> BOOLEAN] /\ ahead' \in [Channel -> Int]
      /\ \A c \in Channel : Node(c)
      /\ \A c \in Channel : \/ shown'[c] = shown[c]
                            \/ c = ch /\ content.kind = "pl"
  <2>1. /\ keys \in [Channel -> Seq(KeyTime)] /\ shown \in [Channel -> Seq(KeyTime)]
        /\ running \in [Channel -> BOOLEAN] /\ ahead \in [Channel -> Int]
        /\ now \in Nat
    BY <1>3 DEF Types
  <2>2. \A c \in Channel :
          /\ shown[c] = << >> => ~running[c]
          /\ running[c] => Len(keys[c]) >= 2 /\ Last(shown[c]) = Head(keys[c])
    BY <1>5 DEF Traffic
  <2>3. Receive(ch, content)
    BY <1>1 DEF content
  <2>4. CASE Starts(ch, content)
    <3>1. /\ running' = [running EXCEPT ![ch] = TRUE]
          /\ ahead' = [ahead EXCEPT ![ch] = -now]
          /\ shown' = [shown EXCEPT ![ch] = <<Head(keys[ch])>>]
          /\ keys' = keys
      BY <2>3, <2>4, Receiving
    <3>2. Len(keys[ch]) >= 2 /\ content.kind = "pl"
      BY <2>4 DEF Starts
    <3> DEFINE first == Head(keys[ch])
    <3>3. first \in KeyTime
      BY <2>1, <3>2
    <3>4. <<first>> # << >> /\ Last(<<first>>) = first /\ <<first>> \in Seq(KeyTime)
      BY <3>3 DEF Last
    <3>5. shown'[ch] = <<first>> /\ keys'[ch] = keys[ch]
          /\ \A c \in Channel \ {ch} : shown'[c] = shown[c] /\ running'[c] = running[c]
      BY <2>1, <3>1
    <3>6. shown' = [shown EXCEPT ![ch] = <<first>>]
      BY <3>1
    <3>7. Node(ch)
      BY <3>2, <3>4, <3>5
    <3>8. \A c \in Channel \ {ch} : Node(c)
      BY <2>2, <3>1, <3>5
    <3> HIDE DEF first, Node
    <3> QED
      BY <2>1, <3>1, <3>2, <3>4, <3>5, <3>6, <3>7, <3>8
  <2>5. CASE Stops(ch, content)
    BY <2>1, <2>2, <2>3, <2>5, Receiving
  <2>6. CASE Corrects(ch, content)
    <3>1. /\ ahead' = [ahead EXCEPT ![ch] = @ + content.timeDrift]
          /\ UNCHANGED <<running, keys, shown>>
      BY <2>3, <2>6, Receiving
    <3>2. content.timeDrift \in Int
      BY <1>4, <2>6 DEF Corrects
    <3> QED
      BY <2>1, <2>2, <3>1, <3>2
  <2>7. CASE Takes(ch, content)
    <3>1. /\ keys' = [keys EXCEPT ![ch] = InsertAll(@, content.keys)]
          /\ UNCHANGED <<running, ahead, shown>>
      BY <2>3, <2>7, Receiving
    <3> DEFINE all == InsertAll(keys[ch], content.keys)
    <3>2. /\ keys[ch] \in Seq(KeyTime) /\ content.keys \in Seq(KeyTime)
          /\ Len(keys[ch]) >= 2 /\ Len(keys[ch]) \in Nat
      BY <1>4, <2>1, <2>2, <2>7 DEF Takes
    <3>3. KeyTime \in SUBSET Int
      BY DEF KeyTime
    <3>4. /\ all \in Seq(KeyTime) /\ Len(keys[ch]) <= Len(all)
          /\ \A j \in 1 .. Len(keys[ch]) : all[j] = keys[ch][j]
      BY <3>2, <3>3, Grown
    <3>5. keys' = [keys EXCEPT ![ch] = all]
      BY <3>1
    <3> HIDE DEF all
    <3>6. Len(all) >= 2 /\ Head(all) = Head(keys[ch])
      <4>1. Len(all) \in Nat
        BY <3>4
      <4>2. all # << >> /\ keys[ch] # << >> /\ 1 \in 1 .. Len(keys[ch])
        BY <3>2, <3>4, <4>1
      <4>3. Head(all) = all[1] /\ Head(keys[ch]) = keys[ch][1]
        BY <3>2, <3>4, <4>2
      <4> QED
        BY <3>2, <3>4, <4>1, <4>2, <4>3
    <3>7. Node(ch)
      BY <2>1, <2>2, <3>1, <3>5, <3>6
    <3>8. \A c \in Channel \ {ch} : Node(c)
      BY <2>1, <2>2, <3>1, <3>5
    <3> HIDE DEF Node
    <3> QED
      BY <2>1, <3>1, <3>4, <3>5, <3>7, <3>8
  <2>8. CASE UNCHANGED nodeVars
    BY <2>1, <2>2, <2>8 DEF nodeVars
  <2> QED
    BY <2>3, <2>4, <2>5, <2>6, <2>7, <2>8, Receiving
<1>9. Types'
  BY <1>1, <1>3, <1>6, <1>8 DEF Types, threadVars
<1>10. Schedule' /\ Pace'
  BY <1>1, <1>2, <1>7 DEF ShowInv, Schedule, Pace, threadVars
<1>11. ASSUME NEW c \in Channel PROVE Traffic(c)'
  <2>1. Node(c) /\ (shown'[c] = shown[c] \/ (c = ch /\ content.kind = "pl"))
    BY <1>8
  <2>2. ASSUME NEW j \in 1 .. Len(air'[c])
        PROVE  LET kind == air'[c][j].content.kind
               IN  /\ kind = "pl" => j = 1 /\ shown'[c] = << >>
                   /\ kind = "sp" => stopped'
                   /\ kind = "keys" => ~firstTime'
    <3>1. PICK k \in 1 .. Len(air[c]) :
             /\ air'[c][j] = air[c][k] /\ (k = 1 => j = 1)
             /\ c = ch => k # i
      BY <1>6
    <3>2. LET kind == air[c][k].content.kind
          IN  /\ kind = "pl" => k = 1 /\ shown[c] = << >>
              /\ kind = "sp" => stopped
              /\ kind = "keys" => ~firstTime
      BY <1>5 DEF Traffic
    <3>3. stopped' = stopped /\ firstTime' = firstTime
      BY <1>1 DEF threadVars
    <3> QED
      BY <1>5, <2>1, <3>1, <3>2, <3>3
  <2>3. thread' # "upload" => SentOut(c)' >= 1
    BY <1>1, <1>2, <1>5 DEF Traffic, threadVars
  <2> QED
    BY <2>1, <2>2, <2>3 DEF Traffic
<1> QED
  BY <1>2, <1>9, <1>10, <1>11 DEF ShowInv

(* What becomes of a list and of the keys shown before it when n keys pass
   from the one to the other: rest is left, all has been shown.            *)
PassedOn(list, past, n, rest, all) ==
  /\ Len(rest) = Len(list) - n /\ Len(rest) \in Nat
  /\ rest \in Seq(KeyTime) /\ all \in Seq(KeyTime)
  /\ \A i \in 1 .. Len(rest) : rest[i] = list[n + i]
  /\ Len(all) = Len(past) + n /\ Len(past) \in Nat /\ Len(past) > 0
  /\ \A i \in 1 .. Len(all) :
       all[i] = IF i <= Len(past) THEN past[i] ELSE list[i - Len(past) + 1]
  /\ all # << >> /\ Last(all) = Head(rest)

(* Moving keys from the head of one list to the end of another.            *)
LEMMA KeysPassed ==
  ASSUME NEW list \in Seq(KeyTime), NEW past \in Seq(KeyTime), Len(list) >= 2,
         past # << >>, Last(past) = Head(list),
         NEW n \in 0 .. Len(list) - 1
  PROVE  PassedOn(list, past, n, SubSeq(list, n + 1, Len(list)),
                  past \o SubSeq(list, 2, n + 1))
<1> DEFINE rest == SubSeq(list, n + 1, Len(list))
           new == SubSeq(list, 2, n + 1)
           all == past \o new
<1>1. /\ Len(list) \in Nat /\ n \in Nat /\ n + 1 <= Len(list)
      /\ Len(past) \in Nat /\ Len(past) > 0
  <2>1. Len(past) \in Nat /\ Len(past) # 0
    BY EmptySeq
  <2> QED
    BY <2>1
<1>2. /\ rest \in Seq(KeyTime) /\ Len(rest) = Len(list) - n
      /\ \A i \in 1 .. Len(list) - n : rest[i] = list[n + i]
  BY <1>1
<1>3. /\ new \in Seq(KeyTime) /\ Len(new) = n
      /\ \A i \in 1 .. n : new[i] = list[i + 1]
  BY <1>1
<1> HIDE DEF rest, new
<1>4. /\ all \in Seq(KeyTime) /\ Len(all) = Len(past) + n
      /\ \A i \in 1 .. Len(past) + n :
           all[i] = IF i <= Len(past) THEN past[i] ELSE new[i - Len(past)]
  BY <1>1, <1>3, ConcatProperties
<1> HIDE DEF all
<1>5. ASSUME NEW i \in 1 .. Len(all)
      PROVE  all[i] = IF i <= Len(past) THEN past[i] ELSE list[i - Len(past) + 1]
  <2> DEFINE p == Len(past)
  <2>1. /\ i \in Nat /\ i >= 1 /\ i <= p + n /\ p \in Nat
        /\ all[i] = IF i <= p THEN past[i] ELSE new[i - p]
    BY <1>1, <1>4
  <2> HIDE DEF p
  <2>2. ~ (i <= p) => i - p \in 1 .. n
    BY <1>1, <2>1
  <2>3. ~ (i <= p) => new[i - p] = list[i - p + 1]
    BY <1>3, <2>2
  <2>4. all[i] = IF i <= p THEN past[i] ELSE list[i - p + 1]
    BY <2>1, <2>3
  <2> QED
    BY <2>4 DEF p
<1>6. Head(rest) = list[n + 1] /\ Last(past) = past[Len(past)] /\ Head(list) = list[1]
  <2>1. rest # << >> /\ list # << >>
    BY <1>1, <1>2, EmptySeq
  <2>2. Head(rest) = rest[1]
    BY <1>2, <2>1
  <2> QED
    BY <1>1, <1>2, <2>1, <2>2 DEF Last
<1>7. all # << >> /\ Last(all) = all[Len(all)]
  BY <1>1, <1>4, EmptySeq DEF Last
<1>8. all[Len(all)] = list[n + 1]
  <2> DEFINE p == Len(past)
  <2>1. p \in Nat /\ p > 0 /\ Len(all) = p + n /\ Len(all) \in 1 .. Len(all)
    BY <1>1, <1>4
  <2>2. all[Len(all)] = IF Len(all) <= p THEN past[Len(all)] ELSE list[Len(all) - p + 1]
    BY <1>5, <2>1
  <2> HIDE DEF p
  <2>3. CASE n = 0
    <3>1. Len(all) = p /\ Len(all) <= p /\ n + 1 = 1
      BY <2>1, <2>3
    <3>2. past[p] = list[1]
      BY <1>6 DEF p
    <3> QED
      BY <2>2, <3>1, <3>2
  <2>4. CASE n > 0
    <3>1. ~ (Len(all) <= p) /\ Len(all) - p + 1 = n + 1
      BY <1>1, <2>1, <2>4
    <3> QED
      BY <2>2, <3>1
  <2> QED
    BY <1>1, <2>3, <2>4
<1>9. PassedOn(list, past, n, rest, all)
  <2>1. /\ Len(rest) = Len(list) - n /\ Len(rest) \in Nat
        /\ Len(all) = Len(past) + n /\ Len(past) \in Nat /\ Len(past) > 0
    BY <1>1, <1>2, <1>4
  <2>2. \A i \in 1 .. Len(rest) : rest[i] = list[n + i]
    BY <1>2
  <2>3. all # << >> /\ Last(all) = Head(rest)
    BY <1>6, <1>7, <1>8
  <2>4. rest \in Seq(KeyTime) /\ all \in Seq(KeyTime)
    BY <1>2, <1>4
  <2> QED
    BY <2>1, <2>2, <2>3, <2>4, <1>5 DEF PassedOn
<1> QED
  BY <1>9 DEF rest, all, new

(* A frame of a node that plays: it passes n keys.                         *)
LEMMA NodeFrame ==
  ASSUME Types, NEW time \in Nat, Frame(time),
         \A c \in Channel : Traffic(c), NEW ch \in Channel, running[ch]
  PROVE  \E n \in 0 .. Len(keys[ch]) - 1 :
           /\ Len(keys[ch]) >= 2
           /\ keys'[ch] \in Seq(KeyTime) /\ Len(keys'[ch]) = Len(keys[ch]) - n
           /\ \A i \in 1 .. Len(keys'[ch]) : keys'[ch][i] = keys[ch][n + i]
           /\ Len(shown[ch]) \in Nat /\ Len(shown[ch]) > 0
           /\ shown'[ch] \in Seq(KeyTime) /\ Len(shown'[ch]) = Len(shown[ch]) + n
           /\ \A i \in 1 .. Len(shown'[ch]) :
                shown'[ch][i] = IF i <= Len(shown[ch]) THEN shown[ch][i]
                                ELSE keys[ch][i - Len(shown[ch]) + 1]
           /\ shown'[ch] # << >> /\ Last(shown'[ch]) = Head(keys'[ch])
           /\ running'[ch] <=> n + 1 < Len(keys[ch])
           /\ \A i \in 1 .. n : keys[ch][i + 1] < time + ahead[ch]
<1>1. \A c \in Channel : running[c] => Len(keys[c]) >= 2
  BY DEF Traffic
<1>2. \E n \in 0 .. Len(keys[ch]) - 1 :
        /\ keys'[ch] = SubSeq(keys[ch], n + 1, Len(keys[ch]))
        /\ shown'[ch] = shown[ch] \o SubSeq(keys[ch], 2, n + 1)
        /\ running'[ch] <=> n + 1 < Len(keys[ch])
        /\ \A i \in 1 .. n : keys[ch][i + 1] < time + ahead[ch]
  BY <1>1, Framing
<1>3. PICK n \in 0 .. Len(keys[ch]) - 1 :
        /\ keys'[ch] = SubSeq(keys[ch], n + 1, Len(keys[ch]))
        /\ shown'[ch] = shown[ch] \o SubSeq(keys[ch], 2, n + 1)
        /\ running'[ch] <=> n + 1 < Len(keys[ch])
        /\ \A i \in 1 .. n : keys[ch][i + 1] < time + ahead[ch]
  BY <1>2
<1> DEFINE list == keys[ch]
           past == shown[ch]
           rest == SubSeq(list, n + 1, Len(list))
           all == past \o SubSeq(list, 2, n + 1)
<1>4. /\ list \in Seq(KeyTime) /\ past \in Seq(KeyTime)
      /\ Len(list) >= 2 /\ past # << >>
      /\ Last(past) = Head(list) /\ n \in 0 .. Len(list) - 1
  BY DEF Traffic, Types
<1>5. keys'[ch] = rest /\ shown'[ch] = all
  BY <1>3
<1>6. PassedOn(list, past, n, rest, all)
  <2> HIDE DEF list, past
  <2> QED
    BY <1>4, KeysPassed
<1> HIDE DEF rest, all
<1>7. PassedOn(keys[ch], shown[ch], n, keys'[ch], shown'[ch])
  BY <1>5, <1>6
<1> QED
  BY <1>3, <1>4, <1>7 DEF PassedOn

LEMMA TickShow ==
  ASSUME P!NonEmptyChannels, ShowInv, Tick PROVE ShowInv'
<1> USE DEF Tick
<1>1. /\ P!IInv' /\ P!FirstKeyout' = P!FirstKeyout
      /\ data' = data /\ started' = started
      /\ \A ch \in Channel : SentOut(ch)' = SentOut(ch) /\ PageFollows(ch)'
  BY ThreadRests
<1>2. Types /\ \A ch \in Channel : Traffic(ch)
  BY DEF ShowInv
<1>3. now' \in Nat /\ now' = now + 1 /\ Frame(now') /\ now \in Nat
  BY <1>2 DEF Types
<1>4. \A ch \in Channel : running[ch] => Len(keys[ch]) >= 2
  BY <1>2 DEF Traffic
<1>5. /\ keys' \in [Channel -> Seq(KeyTime)]
      /\ shown' \in [Channel -> Seq(KeyTime)]
      /\ running' \in [Channel -> BOOLEAN]
      /\ ahead' = ahead
      /\ \A ch \in Channel :
           IF running[ch]
             THEN \E n \in 0 .. Len(keys[ch]) - 1 :
                    /\ keys'[ch] = SubSeq(keys[ch], n + 1, Len(keys[ch]))
                    /\ shown'[ch] = shown[ch] \o SubSeq(keys[ch], 2, n + 1)
                    /\ running'[ch] <=> n + 1 < Len(keys[ch])
                    /\ \A i \in 1 .. n : keys[ch][i + 1] < now' + ahead[ch]
             ELSE /\ keys'[ch] = keys[ch] /\ shown'[ch] = shown[ch]
                  /\ ~running'[ch]
  <2> HIDE DEF Tick
  <2> QED
    BY <1>2, <1>3, <1>4, Framing
<1>6. lag' \in Nat /\ lag' = IF thread = "done" \/ (thread = "sleeping" /\ now < wake)
                               THEN lag ELSE lag + 1
  BY <1>2 DEF Types
<1>7. Types'
  BY <1>2, <1>3, <1>5, <1>6 DEF Types, threadVars
<1>8. Schedule'
  BY <1>1 DEF ShowInv, Schedule, threadVars
<1>9. Pace'
  <2>1. /\ now \in Nat /\ wake \in Nat /\ lag \in Nat /\ reserve \in Nat
        /\ lastKeyout \in Nat
    BY <1>2 DEF Types
  <2>2. Pace /\ Schedule
    BY DEF ShowInv
  <2>3. firstTime' =>
          lastKeyout' = 0 /\ reserve' = 0 /\ (thread' # "done" => now' = lag')
    BY <1>6, <2>1, <2>2 DEF Pace, Schedule, threadVars
  <2>4. thread' = "loop" /\ ~firstTime' => now' + reserve' = lastKeyout' + lag'
    BY <1>6, <2>1, <2>2 DEF Pace, threadVars
  <2>5. thread' = "sleeping" =>
          (IF now' < wake' THEN wake' ELSE now') + reserve' = lastKeyout' + lag'
    <3>1. CASE now < wake
      BY <1>6, <2>1, <2>2, <3>1 DEF Pace, threadVars
    <3>2. CASE ~ (now < wake)
      BY <1>6, <2>1, <2>2, <3>2 DEF Pace, threadVars
    <3> QED
      BY <3>1, <3>2
  <2>6. thread' \in {"loop", "sleeping"} => lastKeyout' <= P!FirstKeyout'
    BY <1>1, <2>2 DEF Pace, threadVars
  <2> QED
    BY <2>3, <2>4, <2>5, <2>6 DEF Pace
<1>10. ASSUME NEW ch \in Channel PROVE Traffic(ch)'
  <2>1. /\ shown'[ch] = << >> => ~running'[ch]
        /\ running'[ch] => Len(keys'[ch]) >= 2 /\ Last(shown'[ch]) = Head(keys'[ch])
        /\ shown[ch] = << >> => shown'[ch] = << >>
    <3>1. CASE ~running[ch]
      BY <1>5, <3>1
    <3>2. CASE running[ch]
      <4>1. PICK n \in 0 .. Len(keys[ch]) - 1 :
              /\ Len(keys[ch]) >= 2 /\ Len(keys'[ch]) = Len(keys[ch]) - n
              /\ shown'[ch] # << >> /\ Last(shown'[ch]) = Head(keys'[ch])
              /\ running'[ch] <=> n + 1 < Len(keys[ch])
        <5> HIDE DEF Tick
        <5> QED
          BY <1>2, <1>3, <3>2, NodeFrame
      <4>2. Len(keys[ch]) \in Nat /\ shown[ch] # << >>
        BY <1>2, <3>2 DEF Traffic, Types
      <4> HIDE DEF Tick
      <4> QED
        BY <4>1, <4>2
    <3> QED
      BY <3>1, <3>2
  <2>2. Traffic(ch)
    BY <1>2
  <2> QED
    BY <1>1, <2>1, <2>2 DEF Traffic, threadVars
<1> QED
  BY <1>1, <1>7, <1>8, <1>9, <1>10 DEF ShowInv

LEMMA RestShow ==
  ASSUME P!NonEmptyChannels, ShowInv, UNCHANGED vars PROVE ShowInv'
<1> USE DEF vars, faultVars
<1>1. /\ P!IInv' /\ P!FirstKeyout' = P!FirstKeyout
      /\ data' = data /\ started' = started
      /\ \A ch \in Channel : SentOut(ch)' = SentOut(ch) /\ PageFollows(ch)'
  BY ThreadRests
<1>2. Types' /\ Schedule' /\ Pace'
  BY <1>1 DEF ShowInv, Types, Schedule, Pace, threadVars, nodeVars
<1>3. \A ch \in Channel : Traffic(ch)'
  BY <1>1 DEF ShowInv, Traffic, threadVars, nodeVars
<1> QED
  BY <1>1, <1>2, <1>3 DEF ShowInv

LEMMA StepShow ==
  ASSUME P!NonEmptyChannels, ShowInv, [Next]_vars PROVE ShowInv'
<1>1. CASE PlayThread
  BY <1>1, UploadShow, BroadcastPlayShow, CorrectDriftShow, LoopShow,
     SendKeysShow, EndLoopShow DEF PlayThread
<1>2. CASE \E ch \in Channel : Arrive(ch) \/ Lose(ch)
  BY <1>2, ArriveShow, LoseShow
<1> QED
  BY <1>1, <1>2, StopShow, TickShow, RestShow DEF Next

(* The thread keeps its pace and the datagrams their kinds.                *)
LEMMA ShowInductive == ASSUME P!NonEmptyChannels PROVE Spec => []ShowInv
<1> QED
  BY InitShow, StepShow, PTL DEF Spec
------------------------------------------------------------------------------
(* No key twice: what the steps do to keys that are apart.                 *)

LEMMA MoreIsOut ==
  ASSUME NEW list, NEW past, NEW queue, NEW out, NEW out2,
         Apart(list, past, queue, out), out \subseteq out2
  PROVE  Apart(list, past, queue, out2)
BY DEF Apart, Within

LEMMA ApartInTheAir ==
  ASSUME NEW list, NEW past, NEW queue \in Seq(Datagram), NEW out,
         Apart(list, past, queue, out), NEW d \in Datagram,
         Increasing(Carried(d)), Within(Carried(d), out),
         Disjoint(list, Carried(d)),
         \A j \in 1 .. Len(queue) : Disjoint(Carried(queue[j]), Carried(d))
  PROVE  Apart(list, past, Append(queue, d), out)
<1> DEFINE q == Append(queue, d)
           n == Len(queue)
<1>1. /\ n \in Nat /\ Len(q) = n + 1 /\ q[n + 1] = d
      /\ \A i \in 1 .. n : q[i] = queue[i]
  OBVIOUS
<1> HIDE DEF q
<1>2. ASSUME NEW i \in 1 .. Len(q)
      PROVE  \/ i \in 1 .. n /\ q[i] = queue[i]
             \/ i = n + 1 /\ q[i] = d
  BY <1>1
<1> HIDE DEF n
<1>3. ASSUME NEW i \in 1 .. Len(q)
      PROVE  /\ Increasing(Carried(q[i])) /\ Within(Carried(q[i]), out)
             /\ Disjoint(list, Carried(q[i]))
             /\ \A j \in 1 .. Len(q) :
                  i # j => Disjoint(Carried(q[i]), Carried(q[j]))
  <2>1. CASE i \in 1 .. n /\ q[i] = queue[i]
    <3>1. ASSUME NEW j \in 1 .. Len(q), i # j
          PROVE  Disjoint(Carried(q[i]), Carried(q[j]))
      BY <1>2, <2>1, <3>1 DEF Apart, n
    <3> QED
      BY <2>1, <3>1 DEF Apart, n
  <2>2. CASE i = n + 1 /\ q[i] = d
    <3>1. ASSUME NEW j \in 1 .. Len(q), i # j
          PROVE  Disjoint(Carried(q[i]), Carried(q[j]))
      <4>1. j \in 1 .. n /\ q[j] = queue[j]
        BY <1>2, <2>2, <3>1
      <4>2. Disjoint(Carried(queue[j]), Carried(d))
        BY <4>1 DEF n
      <4> QED
        BY <2>2, <4>1, <4>2 DEF Disjoint
    <3> QED
      BY <2>2, <3>1
  <2> QED
    BY <1>2, <2>1, <2>2
<1>4. Apart(list, past, q, out)
  BY <1>3 DEF Apart
<1> QED
  BY <1>4 DEF q

LEMMA ApartWithout ==
  ASSUME NEW list, NEW past, NEW queue \in Seq(Datagram), NEW out,
         NEW i \in 1 .. Len(queue),
         Apart(list, past, queue, out)
  PROVE  /\ Apart(list, past, RemoveAt(queue, i), out)
         /\ \A j \in 1 .. Len(RemoveAt(queue, i)) :
              Disjoint(Carried(queue[i]), Carried(RemoveAt(queue, i)[j]))
<1> DEFINE q == RemoveAt(queue, i)
           at(j) == IF j < i THEN j ELSE j + 1
<1>1. /\ Len(queue) \in Nat /\ Len(q) = Len(queue) - 1
      /\ \A j \in 1 .. Len(queue) - 1 : q[j] = IF j < i THEN queue[j] ELSE queue[j + 1]
  BY Removed
<1> HIDE DEF q
<1>2. ASSUME NEW j \in 1 .. Len(q)
      PROVE  at(j) \in 1 .. Len(queue) /\ at(j) # i /\ q[j] = queue[at(j)]
  BY <1>1
<1>3. ASSUME NEW j \in 1 .. Len(q), NEW k \in 1 .. Len(q), j # k
      PROVE  at(j) # at(k)
  BY <1>1, <1>3
<1> HIDE DEF at
<1>4. Apart(list, past, q, out)
  BY <1>2, <1>3 DEF Apart
<1>5. \A j \in 1 .. Len(q) : Disjoint(Carried(queue[i]), Carried(q[j]))
  BY <1>2 DEF Apart
<1> QED
  BY <1>4, <1>5 DEF q

(* A list that takes a page.                                               *)
LEMMA ApartTaken ==
  ASSUME NEW list \in Seq(KeyTime), NEW past, NEW queue \in Seq(Datagram), NEW out,
         NEW i \in 1 .. Len(queue), NEW new \in Seq(KeyTime),
         new = Carried(queue[i]),
         Apart(list, past, queue, out)
  PROVE  Apart(InsertAll(list, new), past, RemoveAt(queue, i), out)
<1> DEFINE q == RemoveAt(queue, i)
           all == InsertAll(list, new)
<1>1. /\ Apart(list, past, q, out)
      /\ \A j \in 1 .. Len(q) : Disjoint(new, Carried(q[j]))
  BY ApartWithout
<1>2. /\ Increasing(list) /\ Increasing(new) /\ Disjoint(list, new)
      /\ Within(list, out) /\ Within(new, out)
  BY DEF Apart
<1>3. KeyTime \in SUBSET Int
  BY DEF KeyTime
<1>4. /\ Increasing(all)
      /\ \A n \in 1 .. Len(all) :
           \/ \E j \in 1 .. Len(list) : all[n] = list[j]
           \/ \E j \in 1 .. Len(new) : all[n] = new[j]
  BY <1>2, <1>3, InsertedInOrder
<1> HIDE DEF q, all
<1>5. Within(all, out)
  BY <1>2, <1>4 DEF Within
<1>6. ASSUME NEW j \in 1 .. Len(q) PROVE Disjoint(all, Carried(q[j]))
  <2>1. Disjoint(list, Carried(q[j])) /\ Disjoint(new, Carried(q[j]))
    BY <1>1 DEF Apart
  <2> QED
    BY <1>4, <2>1 DEF Disjoint
<1>7. Apart(all, past, q, out)
  BY <1>1, <1>4, <1>5, <1>6 DEF Apart
<1> QED
  BY <1>7 DEF q, all

(* A frame: the keys passed come behind those the node had come to.        *)
LEMMA ApartFrame ==
  ASSUME NEW list \in Seq(KeyTime), NEW past \in Seq(KeyTime), NEW queue, NEW out,
         NEW n \in 0 .. Len(list) - 1, NEW rest \in Seq(KeyTime), NEW all \in Seq(KeyTime),
         Len(rest) = Len(list) - n,
         \A i \in 1 .. Len(rest) : rest[i] = list[n + i],
         Len(past) > 0, past[Len(past)] = list[1],
         Len(all) = Len(past) + n,
         \A i \in 1 .. Len(all) : all[i] = IF i <= Len(past) THEN past[i]
                                           ELSE list[i - Len(past) + 1],
         Apart(list, past, queue, out)
  PROVE  Apart(rest, all, queue, out)
<1>1. /\ Len(list) \in Nat /\ n \in Nat /\ n < Len(list) /\ Len(past) \in Nat
      /\ Len(rest) \in Nat /\ Len(all) \in Nat
  OBVIOUS
<1>2. /\ Increasing(list) /\ Within(list, out) /\ Increasing(past) /\ Within(past, out)
  BY DEF Apart
<1>3. \A i \in 1 .. Len(rest) : n + i \in 1 .. Len(list)
  BY <1>1
<1>4. Increasing(rest)
  <2>1. SUFFICES ASSUME NEW i \in 1 .. Len(rest), NEW j \in 1 .. Len(rest), i < j
                 PROVE  rest[i] < rest[j]
    BY DEF Increasing
  <2>2. n + i \in 1 .. Len(list) /\ n + j \in 1 .. Len(list) /\ n + i < n + j
    BY <1>1, <1>3, <2>1
  <2>3. list[n + i] < list[n + j]
    BY <1>2, <2>2 DEF Increasing
  <2> QED
    BY <2>3
<1>5. Within(rest, out)
  BY <1>2, <1>3 DEF Within
<1>6. Increasing(all)
  <2>1. SUFFICES ASSUME NEW i \in 1 .. Len(all), NEW j \in 1 .. Len(all), i < j
                 PROVE  all[i] < all[j]
    BY DEF Increasing
  <2>2. /\ all[i] = IF i <= Len(past) THEN past[i] ELSE list[i - Len(past) + 1]
        /\ all[j] = IF j <= Len(past) THEN past[j] ELSE list[j - Len(past) + 1]
    OBVIOUS
  <2>3. CASE j <= Len(past)
    <3>1. i \in 1 .. Len(past) /\ j \in 1 .. Len(past) /\ i <= Len(past)
      BY <1>1, <2>1, <2>3
    <3>2. past[i] < past[j]
      BY <1>2, <2>1, <3>1 DEF Increasing
    <3> QED
      BY <2>2, <2>3, <3>1, <3>2
  <2>4. CASE ~ (j <= Len(past)) /\ ~ (i <= Len(past))
    <3>1. /\ i - Len(past) + 1 \in 1 .. Len(list)
          /\ j - Len(past) + 1 \in 1 .. Len(list)
          /\ i - Len(past) + 1 < j - Len(past) + 1
      BY <1>1, <2>1, <2>4
    <3>2. list[i - Len(past) + 1] < list[j - Len(past) + 1]
      BY <1>2, <3>1 DEF Increasing
    <3> QED
      BY <2>2, <2>4, <3>2
  <2>5. CASE ~ (j <= Len(past)) /\ i <= Len(past)
    <3>1. /\ i \in 1 .. Len(past) /\ Len(past) \in 1 .. Len(past)
          /\ j - Len(past) + 1 \in 1 .. Len(list)
          /\ 1 < j - Len(past) + 1 /\ 1 \in 1 .. Len(list)
      BY <1>1, <2>1, <2>5
    <3>2. list[1] < list[j - Len(past) + 1]
      BY <1>2, <3>1 DEF Increasing
    <3>3. i # Len(past) => past[i] < past[Len(past)]
      <4>1. i # Len(past) => i < Len(past)
        BY <1>1, <2>5
      <4> QED
        BY <1>2, <3>1, <4>1 DEF Increasing
    <3>4. all[i] = past[i] /\ all[j] = list[j - Len(past) + 1]
      BY <2>2, <2>5
    <3>5. past[i] \in Int /\ list[1] \in Int /\ list[j - Len(past) + 1] \in Int
      <4>1. past[i] \in KeyTime /\ list[1] \in KeyTime /\ list[j - Len(past) + 1] \in KeyTime
        BY <3>1, ElementOfSeq
      <4> QED
        BY <4>1 DEF KeyTime
    <3>6. past[i] = list[1] \/ past[i] < list[1]
      BY <3>3
    <3> DEFINE x == past[i]
               y == list[1]
               z == list[j - Len(past) + 1]
    <3>7. x < z
      <4>1. x \in Int /\ y \in Int /\ z \in Int /\ (x = y \/ x < y) /\ y < z
        BY <3>2, <3>5, <3>6
      <4> HIDE DEF x, y, z
      <4> QED
        BY <4>1
    <3> QED
      BY <3>4, <3>7
  <2> QED
    BY <2>3, <2>4, <2>5
<1>7. Within(all, out)
  <2>1. SUFFICES ASSUME NEW i \in 1 .. Len(all) PROVE all[i] \in out
    BY DEF Within
  <2>2. CASE i <= Len(past)
    <3>1. i \in 1 .. Len(past) /\ all[i] = past[i]
      BY <1>1, <2>2
    <3> QED
      BY <1>2, <3>1 DEF Within
  <2>3. CASE ~ (i <= Len(past))
    <3>1. i - Len(past) + 1 \in 1 .. Len(list) /\ all[i] = list[i - Len(past) + 1]
      BY <1>1, <2>3
    <3> QED
      BY <1>2, <3>1 DEF Within
  <2> QED
    BY <2>2, <2>3
<1>8. ASSUME NEW i \in 1 .. Len(queue) PROVE Disjoint(rest, Carried(queue[i]))
  <2>1. Disjoint(list, Carried(queue[i]))
    BY DEF Apart
  <2> DEFINE carried == Carried(queue[i])
  <2> HIDE DEF carried
  <2>2. ASSUME NEW k \in 1 .. Len(rest), NEW j \in 1 .. Len(carried)
        PROVE  rest[k] # carried[j]
    <3>1. n + k \in 1 .. Len(list) /\ rest[k] = list[n + k]
      BY <1>3
    <3> QED
      BY <2>1, <3>1 DEF Disjoint, carried
  <2> QED
    BY <2>2 DEF Disjoint, carried
<1> QED
  BY <1>4, <1>5, <1>6, <1>7, <1>8 DEF Apart

(* A page that is taken is behind everything that has left.                *)
LEMMA NewKeysAreNew ==
  ASSUME P!NonEmptyChannels, KeysApart, P!IInv, NEW ch \in Channel,
         NEW m \in 0 .. Len(data[ch]), NEW n \in m .. Len(data[ch]), NEW new \in Seq(KeyTime),
         new = SubSeq(data[ch], m + 1, n)
  PROVE  /\ Len(new) = n - m
         /\ \A i \in 1 .. Len(new) : new[i] = data[ch][m + i]
         /\ Increasing(new)
         /\ Within(new, {data[ch][k] : k \in 1 .. n})
         /\ \A i \in 1 .. Len(new) : new[i] \notin {data[ch][k] : k \in 1 .. m}
<1>1. /\ data[ch] \in Seq(KeyTime) /\ Len(data[ch]) \in Nat
      /\ \A i \in 1 .. Len(data[ch]) : data[ch][i] \in Nat
  BY ChannelKeys
<1>2. \A i, j \in 1 .. Len(data[ch]) : i < j => data[ch][i] < data[ch][j]
  BY DEF KeysApart, P!IInv, P!TypeOK
<1> DEFINE s == data[ch]
<1> HIDE DEF s
<1>3. /\ s \in Seq(KeyTime) /\ Len(s) \in Nat
      /\ \A i, j \in 1 .. Len(s) : i < j => s[i] < s[j]
      /\ \A i \in 1 .. Len(s) : s[i] \in Nat
      /\ m \in Nat /\ n \in Nat /\ m <= n /\ n <= Len(s)
      /\ new = SubSeq(s, m + 1, n)
  BY <1>1, <1>2 DEF s
<1>4. /\ Len(new) = n - m
      /\ \A i \in 1 .. Len(new) : new[i] = s[m + i] /\ m + i \in 1 .. Len(s)
  BY <1>3
<1>5. Increasing(new)
  <2>1. SUFFICES ASSUME NEW i \in 1 .. Len(new), NEW j \in 1 .. Len(new), i < j
                 PROVE  new[i] < new[j]
    BY DEF Increasing
  <2>2. m + i < m + j
    BY <1>3, <1>4, <2>1
  <2> QED
    BY <1>3, <1>4, <2>2
<1>6. Within(new, {s[k] : k \in 1 .. n})
  <2>1. \A i \in 1 .. Len(new) : m + i \in 1 .. n
    BY <1>3, <1>4
  <2> QED
    BY <1>4, <2>1 DEF Within
<1>7. ASSUME NEW i \in 1 .. Len(new), NEW k \in 1 .. m PROVE new[i] # s[k]
  <2>1. k \in 1 .. Len(s) /\ k < m + i
    BY <1>3, <1>4
  <2>2. s[k] < s[m + i] /\ s[k] \in Nat /\ s[m + i] \in Nat
    BY <1>3, <1>4, <2>1
  <2> QED
    BY <1>4, <2>2
<1> QED
  BY <1>4, <1>5, <1>6, <1>7 DEF s

LEMMA SameOut ==
  ASSUME NEW ch \in Channel, data' = data, SentOut(ch)' = SentOut(ch)
  PROVE  Out(ch)' = Out(ch)
BY DEF Out

(* A datagram that is no page.                                             *)
LEMMA CommandGaps ==
  ASSUME ShowInv, GapsInv, NEW content \in Content, content.kind # "keys",
         Broadcast(ToAll(content)), UNCHANGED nodeVars, data' = data,
         \A ch \in Channel : SentOut(ch)' = SentOut(ch)
  PROVE  GapsInv'
<1>1. SUFFICES ASSUME NEW ch \in Channel
               PROVE  Apart(keys[ch], shown[ch], air'[ch], Out(ch))
  BY SameOut DEF GapsInv, nodeVars
<1> DEFINE d == [sentAt |-> now, content |-> content]
<1>2. d \in Datagram /\ Carried(d) = << >>
  BY DEF ShowInv, Types, Datagram, Carried
<1> HIDE DEF d
<1>3. air'[ch] = Append(air[ch], d)
  BY DEF Broadcast, ToAll, d
<1>4. /\ Apart(keys[ch], shown[ch], air[ch], Out(ch))
      /\ air[ch] \in Seq(Datagram)
  BY DEF GapsInv, ShowInv, Types
<1>5. Len(Carried(d)) = 0
  BY <1>2, EmptySeq
<1>6. /\ Increasing(Carried(d)) /\ Within(Carried(d), Out(ch))
      /\ Disjoint(keys[ch], Carried(d))
      /\ \A j \in 1 .. Len(air[ch]) : Disjoint(Carried(air[ch][j]), Carried(d))
  BY <1>5 DEF Increasing, Within, Disjoint
<1>7. Apart(keys[ch], shown[ch], Append(air[ch], d), Out(ch))
  BY <1>2, <1>4, <1>6, ApartInTheAir
<1> QED
  BY <1>3, <1>7

LEMMA InitGaps ==
  ASSUME Init PROVE GapsInv
<1>1. SUFFICES ASSUME NEW ch \in Channel
               PROVE  Apart(keys[ch], shown[ch], air[ch], Out(ch))
  BY DEF GapsInv
<1>2. keys[ch] = << >> /\ shown[ch] = << >> /\ air[ch] = << >>
  BY DEF Init
<1>3. Len(keys[ch]) = 0 /\ Len(shown[ch]) = 0 /\ Len(air[ch]) = 0
  BY <1>2, EmptySeq
<1> QED
  BY <1>3 DEF Apart, Increasing, Within

LEMMA UploadGaps ==
  ASSUME P!NonEmptyChannels, KeysApart, ShowInv, Upload PROVE GapsInv'
<1>1. SUFFICES ASSUME NEW ch \in Channel
               PROVE  Apart(keys'[ch], shown'[ch], air'[ch], Out(ch)')
  BY DEF GapsInv
<1> DEFINE new == Anim!PageOf(ch, N_KEYS_ON_INIT)
           n == P!Delivered(ch)'
<1>2. keys'[ch] = new /\ shown'[ch] = << >> /\ air'[ch] = << >>
  BY DEF Upload, ShowInv, Schedule
<1>3. Anim!GetNKeys(N_KEYS_ON_INIT) /\ ~started /\ P!IInv
  BY DEF Upload, ShowInv, Schedule
<1>4. /\ new \in Seq(KeyTime) /\ Len(new) \in Nat
      /\ n = P!Delivered(ch) + Len(new)
      /\ n \in 1 .. Len(data[ch]) /\ data' = data
      /\ \A i \in 1 .. Len(new) : new[i] = data[ch][P!Delivered(ch) + i]
  BY <1>3, PageTaken
<1>5. /\ P!Delivered(ch) = 0 /\ data[ch] \in Seq(KeyTime) /\ Len(data[ch]) \in Nat
  BY <1>3, ChannelKeys
<1>6. SentOut(ch)' = n
  <2>1. SentOut(ch)' = n - 0
    BY EmptySeq DEF SentOut, Pending, Upload
  <2> HIDE DEF n
  <2> QED
    BY <1>4, <2>1
<1> HIDE DEF new, n
<1>7. new = SubSeq(data[ch], 0 + 1, n)
  <2> DEFINE s == data[ch]
  <2>1. s \in Seq(KeyTime) /\ n <= Len(s) /\ \A i \in 1 .. Len(new) : new[i] = s[0 + i]
    BY <1>4, <1>5
  <2>2. n \in Nat /\ 0 + Len(new) = n /\ 0 \in Nat
    BY <1>4, <1>5
  <2> HIDE DEF s
  <2>3. new = SubSeq(s, 0 + 1, n)
    BY <1>4, <2>1, <2>2, PartOf
  <2> QED
    BY <2>3 DEF s
<1>8. 0 \in 0 .. Len(data[ch]) /\ n \in 0 .. Len(data[ch])
  BY <1>4, <1>5
<1>9. Increasing(new) /\ Within(new, {data[ch][k] : k \in 1 .. n})
  BY <1>3, <1>4, <1>7, <1>8, NewKeysAreNew
<1>10. Out(ch)' = {data[ch][k] : k \in 1 .. n}
  BY <1>4, <1>6 DEF Out
<1>11. Len(<< >>) = 0
  BY EmptySeq
<1> QED
  BY <1>2, <1>9, <1>10, <1>11 DEF Apart, Increasing, Within

LEMMA SendKeysGaps ==
  ASSUME P!NonEmptyChannels, KeysApart, ShowInv, GapsInv, SendKeys PROVE GapsInv'
<1>1. SUFFICES ASSUME NEW ch \in Channel
               PROVE  Apart(keys[ch], shown[ch], air'[ch], Out(ch)')
  BY DEF GapsInv, SendKeys, nodeVars
<1> DEFINE new == page[ch]
           d == [sentAt |-> now, content |-> [kind |-> "keys", keys |-> new]]
           m == SentOut(ch)
           n == P!Delivered(ch)
<1>2. new \in Seq(KeyTime) /\ air[ch] \in Seq(Datagram) /\ now \in Nat
  BY DEF ShowInv, Types
<1>3. d \in Datagram /\ Carried(d) = new
  <2> HIDE DEF new
  <2> QED
    BY <1>2 DEF Datagram, Content, Carried
<1>4. air'[ch] = Append(air[ch], d)
  BY DEF SendKeys, Broadcast
<1>5. new = SubSeq(data[ch], m + 1, n) /\ m >= 1 /\ m = n - Len(new)
  BY DEF ShowInv, PageFollows, Traffic, SendKeys, SentOut, Pending
<1>6. /\ n \in 0 .. Len(data[ch]) /\ Len(data[ch]) \in Nat
  BY ChannelKeys DEF ShowInv
<1>7. UNCHANGED animVars /\ thread' = "loop"
  BY DEF SendKeys
<1>8. SentOut(ch)' = n /\ data' = data
  <2>1. P!Delivered(ch)' = n /\ data' = data
    BY <1>7, PagingRests DEF ShowInv
  <2>2. SentOut(ch)' = n - 0
    BY <1>7, <2>1, EmptySeq DEF SentOut, Pending
  <2> HIDE DEF n
  <2> QED
    BY <1>6, <2>1, <2>2
<1> HIDE DEF d, m, n
<1>9. m \in 0 .. Len(data[ch]) /\ n \in m .. Len(data[ch])
  <2>1. Len(new) \in Nat
    BY <1>2
  <2> HIDE DEF new
  <2> QED
    BY <1>5, <1>6, <2>1
<1> HIDE DEF new
<1>10. /\ Increasing(new)
       /\ Within(new, {data[ch][k] : k \in 1 .. n})
       /\ \A i \in 1 .. Len(new) : new[i] \notin {data[ch][k] : k \in 1 .. m}
  BY <1>2, <1>5, <1>9, NewKeysAreNew DEF ShowInv
<1>11. /\ Out(ch) = {data[ch][k] : k \in 1 .. m}
       /\ Out(ch)' = {data[ch][k] : k \in 1 .. n}
       /\ Out(ch) \subseteq Out(ch)'
  <2>1. 1 .. m \subseteq 1 .. n
    BY <1>6, <1>9
  <2> QED
    BY <1>8, <2>1 DEF Out, m
<1>12. Apart(keys[ch], shown[ch], air[ch], Out(ch))
  BY DEF GapsInv
<1>13. Apart(keys[ch], shown[ch], air[ch], Out(ch)')
  BY <1>11, <1>12, MoreIsOut
<1>14. Disjoint(keys[ch], Carried(d))
  BY <1>3, <1>10, <1>11, <1>12 DEF Apart, Within, Disjoint
<1>15. \A j \in 1 .. Len(air[ch]) : Disjoint(Carried(air[ch][j]), Carried(d))
  BY <1>3, <1>10, <1>11, <1>12 DEF Apart, Within, Disjoint
<1>16. Apart(keys[ch], shown[ch], Append(air[ch], d), Out(ch)')
  BY <1>2, <1>3, <1>10, <1>11, <1>13, <1>14, <1>15, ApartInTheAir
<1> QED
  BY <1>4, <1>16

LEMMA LoopSendsNothing ==
  ASSUME P!NonEmptyChannels, ShowInv, Loop
  PROVE  data' = data /\ \A ch \in Channel : SentOut(ch)' = SentOut(ch)
<1>1. Anim!GetNKeys(KeysPerPage) /\ P!IInv
  BY DEF Loop, ShowInv
<1>2. /\ data' = data
      /\ \A ch \in Channel :
           /\ page'[ch] = Anim!PageOf(ch, KeysPerPage)
           /\ Len(page'[ch]) \in Nat
           /\ P!Delivered(ch)' = P!Delivered(ch) + Len(page'[ch])
  BY <1>1, PageTaken DEF Loop
<1>3. ASSUME NEW ch \in Channel PROVE SentOut(ch)' = SentOut(ch)
  <2>1. P!Delivered(ch) \in Nat
    BY <1>1, ChannelKeys
  <2>2. SentOut(ch) = P!Delivered(ch) - 0
    BY EmptySeq DEF SentOut, Pending, Loop
  <2>3. SentOut(ch)' = P!Delivered(ch)' - Len(page'[ch])
    BY DEF SentOut, Pending, Loop
  <2> QED
    BY <1>2, <2>1, <2>2, <2>3
<1> QED
  BY <1>2, <1>3

LEMMA SendsNothing ==
  ASSUME P!NonEmptyChannels, ShowInv, UNCHANGED animVars, page' = page,
         thread = "sleeping" <=> thread' = "sleeping"
  PROVE  data' = data /\ \A ch \in Channel : SentOut(ch)' = SentOut(ch)
<1>1. data' = data /\ \A ch \in Channel : P!Delivered(ch)' = P!Delivered(ch)
  BY PagingRests DEF ShowInv
<1> QED
  BY <1>1 DEF SentOut, Pending

LEMMA ArriveGaps ==
  ASSUME P!NonEmptyChannels, ShowInv, GapsInv, NEW ch \in Channel, Arrive(ch)
  PROVE  GapsInv'
<1>1. PICK i \in 1 .. Len(air[ch]) :
        /\ Receive(ch, air[ch][i].content)
        /\ air' = [air EXCEPT ![ch] = RemoveAt(@, i)]
        /\ UNCHANGED <<animVars, threadVars>>
  BY DEF Arrive
<1>2. data' = data /\ \A c \in Channel : SentOut(c)' = SentOut(c)
  BY <1>1, SendsNothing DEF threadVars
<1>3. SUFFICES ASSUME NEW c \in Channel
               PROVE  Apart(keys'[c], shown'[c], air'[c], Out(c))
  BY <1>2, SameOut DEF GapsInv
<1> DEFINE content == air[ch][i].content
<1>4. /\ air \in [Channel -> Seq(Datagram)] /\ keys \in [Channel -> Seq(KeyTime)]
      /\ shown \in [Channel -> Seq(KeyTime)] /\ running \in [Channel -> BOOLEAN]
  BY DEF ShowInv, Types
<1>5. Receive(ch, content)
  BY <1>1
<1>6. content.kind = "keys" =>
        content.keys \in Seq(KeyTime) /\ content.keys = Carried(air[ch][i])
  BY DatagramTypes DEF ShowInv, Carried
<1> HIDE DEF content
<1>7. Apart(keys[c], shown[c], air[c], Out(c)) /\ air[c] \in Seq(Datagram)
      /\ air[ch] \in Seq(Datagram)
  BY <1>4 DEF GapsInv
<1>8. CASE c # ch
  <2>1. keys'[c] = keys[c] /\ shown'[c] = shown[c] /\ air'[c] = air[c]
    <3>1. air'[c] = air[c]
      BY <1>1, <1>4, <1>8
    <3>2. keys'[c] = keys[c] /\ shown'[c] = shown[c]
      <4>1. \/ keys' = keys
            \/ keys' = [keys EXCEPT ![ch] = InsertAll(@, content.keys)]
        BY <1>5, Receiving DEF nodeVars
      <4>2. \/ shown' = shown
            \/ shown' = [shown EXCEPT ![ch] = <<Head(keys[ch])>>]
        BY <1>5, Receiving DEF nodeVars
      <4>3. keys'[c] = keys[c]
        BY <1>4, <1>8, <4>1
      <4> QED
        BY <1>4, <1>8, <4>2, <4>3
    <3> QED
      BY <3>1, <3>2
  <2> QED
    BY <1>7, <2>1
<1>9. CASE c = ch
  <2> DEFINE list == keys[ch]
             past == shown[ch]
             queue == air[ch]
             q == RemoveAt(queue, i)
  <2>1. Apart(list, past, queue, Out(ch)) /\ queue \in Seq(Datagram) /\ i \in 1 .. Len(queue)
    BY <1>7, <1>9
  <2>2. Apart(list, past, q, Out(ch))
    <3> HIDE DEF list, past, queue
    <3> QED
      BY <2>1, ApartWithout
  <2>3. air'[ch] = q
    BY <1>1, <1>4
  <2>4. CASE Starts(ch, content)
    <3>1. keys' = keys /\ shown' = [shown EXCEPT ![ch] = <<Head(keys[ch])>>]
      BY <1>5, <2>4, Receiving
    <3>2. keys'[ch] = list /\ shown'[ch] = <<Head(list)>>
      BY <1>4, <3>1
    <3>3. list \in Seq(KeyTime) /\ Len(list) >= 2 /\ Len(list) \in Nat
      BY <1>4, <2>4 DEF Starts
    <3>4. Head(list) = list[1] /\ 1 \in 1 .. Len(list)
      BY <3>3
    <3> DEFINE one == <<Head(list)>>
    <3>5. Len(one) = 1 /\ one[1] = list[1]
      BY <3>4
    <3> HIDE DEF list, past, queue, q, one
    <3>6. list[1] \in Out(ch)
      BY <2>1, <3>4 DEF Apart, Within
    <3>7. Increasing(one) /\ Within(one, Out(ch))
      <4>1. \A j \in 1 .. Len(one) : j = 1
        BY <3>5
      <4>2. \A j, k \in 1 .. Len(one) : ~ (j < k)
        BY <4>1, <3>5
      <4> QED
        BY <3>5, <3>6, <4>1, <4>2 DEF Increasing, Within
    <3>8. Apart(list, one, q, Out(ch))
      BY <2>2, <3>7 DEF Apart
    <3> QED
      BY <1>9, <2>3, <3>2, <3>8 DEF one
  <2>5. CASE Takes(ch, content)
    <3>1. keys' = [keys EXCEPT ![ch] = InsertAll(@, content.keys)] /\ shown' = shown
      BY <1>5, <2>5, Receiving
    <3>2. keys'[ch] = InsertAll(list, content.keys) /\ shown'[ch] = past
      BY <1>4, <3>1
    <3>3. content.keys \in Seq(KeyTime) /\ content.keys = Carried(queue[i])
      BY <1>6, <2>5 DEF Takes
    <3>4. list \in Seq(KeyTime)
      BY <1>4
    <3> HIDE DEF list, past, queue
    <3>5. Apart(InsertAll(list, content.keys), past, q, Out(ch))
      BY <2>1, <3>3, <3>4, ApartTaken
    <3> HIDE DEF q
    <3> QED
      BY <1>9, <2>3, <3>2, <3>5
  <2>6. CASE keys' = keys /\ shown' = shown
    BY <1>9, <2>2, <2>3, <2>6
  <2> QED
    BY <1>5, <2>4, <2>5, <2>6, Receiving DEF nodeVars
<1> QED
  BY <1>8, <1>9

LEMMA LoseGaps ==
  ASSUME P!NonEmptyChannels, ShowInv, GapsInv, NEW ch \in Channel, Lose(ch)
  PROVE  GapsInv'
<1>1. PICK i \in 1 .. Len(air[ch]) : air' = [air EXCEPT ![ch] = RemoveAt(@, i)]
  BY DEF Lose
<1>2. UNCHANGED <<animVars, threadVars>> /\ keys' = keys /\ shown' = shown
  BY DEF Lose, nodeVars
<1>3. data' = data /\ \A c \in Channel : SentOut(c)' = SentOut(c)
  BY <1>2, SendsNothing DEF threadVars
<1>4. SUFFICES ASSUME NEW c \in Channel
               PROVE  Apart(keys[c], shown[c], air'[c], Out(c))
  BY <1>2, <1>3, SameOut DEF GapsInv
<1>5. air \in [Channel -> Seq(Datagram)]
  BY DEF ShowInv, Types
<1>6. Apart(keys[c], shown[c], air[c], Out(c))
  BY DEF GapsInv
<1>7. CASE c # ch
  BY <1>1, <1>5, <1>6, <1>7
<1>8. CASE c = ch
  <2>1. air'[ch] = RemoveAt(air[ch], i) /\ air[ch] \in Seq(Datagram)
    BY <1>1, <1>5
  <2>2. Apart(keys[ch], shown[ch], RemoveAt(air[ch], i), Out(ch))
    BY <1>6, <1>8, <2>1, ApartWithout
  <2> QED
    BY <1>8, <2>1, <2>2
<1> QED
  BY <1>7, <1>8

LEMMA TickGaps ==
  ASSUME P!NonEmptyChannels, ShowInv, GapsInv, Tick PROVE GapsInv'
<1>1. UNCHANGED <<animVars, threadVars>> /\ air' = air /\ now' = now + 1 /\ Frame(now')
  BY DEF Tick
<1>2. data' = data /\ \A c \in Channel : SentOut(c)' = SentOut(c)
  BY <1>1, SendsNothing DEF threadVars
<1>3. SUFFICES ASSUME NEW c \in Channel
               PROVE  Apart(keys'[c], shown'[c], air[c], Out(c))
  BY <1>1, <1>2, SameOut DEF GapsInv
<1>4. Types /\ \A ch \in Channel : Traffic(ch)
  BY DEF ShowInv
<1>5. now' \in Nat
  BY <1>1, <1>4 DEF Types
<1>6. Apart(keys[c], shown[c], air[c], Out(c))
  BY DEF GapsInv
<1>7. CASE ~running[c]
  <2>1. \A ch \in Channel : running[ch] => Len(keys[ch]) >= 2
    BY <1>4 DEF Traffic
  <2>2. keys'[c] = keys[c] /\ shown'[c] = shown[c]
    BY <1>1, <1>4, <1>5, <1>7, <2>1, Framing
  <2> QED
    BY <1>6, <2>2
<1>8. CASE running[c]
  <2>0. \E n \in 0 .. Len(keys[c]) - 1 :
           /\ Len(keys[c]) >= 2
           /\ keys'[c] \in Seq(KeyTime) /\ Len(keys'[c]) = Len(keys[c]) - n
           /\ \A i \in 1 .. Len(keys'[c]) : keys'[c][i] = keys[c][n + i]
           /\ Len(shown[c]) \in Nat /\ Len(shown[c]) > 0
           /\ shown'[c] \in Seq(KeyTime) /\ Len(shown'[c]) = Len(shown[c]) + n
           /\ \A i \in 1 .. Len(shown'[c]) :
                shown'[c][i] = IF i <= Len(shown[c]) THEN shown[c][i]
                               ELSE keys[c][i - Len(shown[c]) + 1]
           /\ shown'[c] # << >> /\ Last(shown'[c]) = Head(keys'[c])
           /\ running'[c] <=> n + 1 < Len(keys[c])
           /\ \A i \in 1 .. n : keys[c][i + 1] < now' + ahead[c]
    BY <1>1, <1>4, <1>5, <1>8, NodeFrame
  <2>1. PICK n \in 0 .. Len(keys[c]) - 1 :
           /\ keys'[c] \in Seq(KeyTime) /\ Len(keys'[c]) = Len(keys[c]) - n
           /\ \A i \in 1 .. Len(keys'[c]) : keys'[c][i] = keys[c][n + i]
           /\ Len(shown[c]) \in Nat /\ Len(shown[c]) > 0
           /\ shown'[c] \in Seq(KeyTime) /\ Len(shown'[c]) = Len(shown[c]) + n
           /\ \A i \in 1 .. Len(shown'[c]) :
                shown'[c][i] = IF i <= Len(shown[c]) THEN shown[c][i]
                               ELSE keys[c][i - Len(shown[c]) + 1]
    BY <2>0
  <2>2. /\ keys[c] \in Seq(KeyTime) /\ shown[c] \in Seq(KeyTime)
        /\ Len(keys[c]) >= 2 /\ Last(shown[c]) = Head(keys[c])
    BY <1>4, <1>8 DEF Types, Traffic
  <2> DEFINE list == keys[c]
             past == shown[c]
             rest == keys'[c]
             all == shown'[c]
             queue == air[c]
             out == Out(c)
  <2>3. /\ list \in Seq(KeyTime) /\ past \in Seq(KeyTime)
        /\ rest \in Seq(KeyTime) /\ all \in Seq(KeyTime)
        /\ n \in 0 .. Len(list) - 1
        /\ Len(rest) = Len(list) - n
        /\ \A i \in 1 .. Len(rest) : rest[i] = list[n + i]
        /\ Len(past) > 0
        /\ Len(all) = Len(past) + n
        /\ \A i \in 1 .. Len(all) : all[i] = IF i <= Len(past) THEN past[i]
                                             ELSE list[i - Len(past) + 1]
        /\ Apart(list, past, queue, out)
    BY <1>6, <2>1, <2>2
  <2>4. past[Len(past)] = list[1]
    BY <2>2, <2>3 DEF Last
  <2> HIDE DEF list, past, rest, all, queue, out
  <2>5. Apart(rest, all, queue, out)
    BY <2>3, <2>4, ApartFrame
  <2> QED
    BY <2>5 DEF rest, all, queue, out
<1> QED
  BY <1>7, <1>8

LEMMA StepGaps ==
  ASSUME P!NonEmptyChannels, KeysApart, ShowInv, GapsInv, [Next]_vars
  PROVE  GapsInv'
<1>1. CASE BroadcastPlay
  <2> DEFINE content == [kind |-> "pl"]
  <2>1. content \in Content /\ content.kind # "keys"
    BY DEF Content
  <2> HIDE DEF content
  <2>2. /\ UNCHANGED animVars /\ page' = page /\ UNCHANGED nodeVars
        /\ thread = "sleeping" <=> thread' = "sleeping"
        /\ Broadcast(ToAll(content))
    BY <1>1 DEF BroadcastPlay, content
  <2>3. data' = data /\ \A ch \in Channel : SentOut(ch)' = SentOut(ch)
    BY <2>2, SendsNothing
  <2> QED
    BY <2>1, <2>2, <2>3, CommandGaps
<1>2. CASE Stop
  <2> DEFINE content == [kind |-> "sp"]
  <2>1. content \in Content /\ content.kind # "keys"
    BY DEF Content
  <2> HIDE DEF content
  <2>2. /\ UNCHANGED animVars /\ page' = page /\ UNCHANGED nodeVars
        /\ thread = "sleeping" <=> thread' = "sleeping"
        /\ Broadcast(ToAll(content))
    BY <1>2 DEF Stop, content
  <2>3. data' = data /\ \A ch \in Channel : SentOut(ch)' = SentOut(ch)
    BY <2>2, SendsNothing
  <2> QED
    BY <2>1, <2>2, <2>3, CommandGaps
<1>3. CASE CorrectDrift
  <2>1. /\ UNCHANGED animVars /\ page' = page /\ UNCHANGED nodeVars
        /\ thread = "sleeping" <=> thread' = "sleeping"
    BY <1>3 DEF CorrectDrift
  <2>2. data' = data /\ \A ch \in Channel : SentOut(ch)' = SentOut(ch)
    BY <2>1, SendsNothing
  <2>3. CASE UNCHANGED air
    BY <2>1, <2>2, <2>3, SameOut DEF GapsInv, nodeVars
  <2>4. CASE \E first \in Channel, error \in -MaxError .. MaxError :
               Broadcast(ToAll([kind |-> "ss",
                                timeDrift |-> -(ahead[first] + error)]))
    <3>1. PICK first \in Channel, error \in -MaxError .. MaxError :
            Broadcast(ToAll([kind |-> "ss", timeDrift |-> -(ahead[first] + error)]))
      BY <2>4
    <3> DEFINE content == [kind |-> "ss", timeDrift |-> -(ahead[first] + error)]
    <3>2. ahead[first] \in Int /\ error \in Int
      BY StreamingAssumption DEF ShowInv, Types
    <3>3. content \in Content /\ content.kind # "keys"
      BY <3>2 DEF Content
    <3> HIDE DEF content
    <3>4. Broadcast(ToAll(content))
      BY <3>1 DEF content
    <3> QED
      BY <2>1, <2>2, <3>3, <3>4, CommandGaps
  <2> QED
    BY <1>3, <2>3, <2>4 DEF CorrectDrift
<1>4. CASE Loop
  <2>1. UNCHANGED nodeVars /\ air' = air
    BY <1>4 DEF Loop
  <2>2. data' = data /\ \A ch \in Channel : SentOut(ch)' = SentOut(ch)
    BY <1>4, LoopSendsNothing
  <2> QED
    BY <2>1, <2>2, SameOut DEF GapsInv, nodeVars
<1>5. CASE EndLoop \/ UNCHANGED vars
  <2>1. /\ UNCHANGED animVars /\ page' = page /\ UNCHANGED nodeVars /\ air' = air
        /\ thread = "sleeping" <=> thread' = "sleeping"
    BY <1>5 DEF EndLoop, vars, threadVars
  <2>2. data' = data /\ \A ch \in Channel : SentOut(ch)' = SentOut(ch)
    BY <2>1, SendsNothing
  <2> QED
    BY <2>1, <2>2, SameOut DEF GapsInv, nodeVars
<1>6. CASE Upload \/ SendKeys
  BY <1>6, UploadGaps, SendKeysGaps
<1>7. CASE \E ch \in Channel : Arrive(ch) \/ Lose(ch)
  BY <1>7, ArriveGaps, LoseGaps
<1> QED
  BY <1>1, <1>2, <1>3, <1>4, <1>5, <1>6, <1>7, TickGaps DEF Next, PlayThread

LEMMA GapsOnly ==
  ASSUME P!NonEmptyChannels, ShowInv, GapsInv PROVE LossLeavesGapsOnly
<1>1. SUFFICES ASSUME NEW ch \in Channel
               PROVE  /\ Range(shown[ch]) \subseteq Range(data[ch])
                      /\ \A i \in 1 .. Len(shown[ch]) - 1 : shown[ch][i] < shown[ch][i + 1]
  BY DEF LossLeavesGapsOnly
<1>2. /\ Increasing(shown[ch]) /\ Within(shown[ch], Out(ch))
      /\ shown[ch] \in Seq(KeyTime)
  BY DEF GapsInv, Apart, ShowInv, Types
<1>3. data[ch] \in Seq(KeyTime) /\ Len(data[ch]) \in Nat
      /\ P!Delivered(ch) \in 0 .. Len(data[ch])
  BY ChannelKeys DEF ShowInv
<1>4. SentOut(ch) <= Len(data[ch])
  <2>1. page[ch] \in Seq(KeyTime)
    BY DEF ShowInv, Types
  <2>2. Len(page[ch]) \in Nat
    BY <2>1
  <2>3. Len(Pending(ch)) \in Nat
    BY <2>2, EmptySeq DEF Pending
  <2> QED
    BY <1>3, <2>3 DEF SentOut
<1>5. Out(ch) \subseteq Range(data[ch])
  <2>1. SentOut(ch) \in Int
    <3>1. page[ch] \in Seq(KeyTime)
      BY DEF ShowInv, Types
    <3>2. Len(page[ch]) \in Nat
      BY <3>1
    <3>3. Len(Pending(ch)) \in Nat
      BY <3>2, EmptySeq DEF Pending
    <3> QED
      BY <1>3, <3>3 DEF SentOut
  <2>2. 1 .. SentOut(ch) \subseteq DOMAIN data[ch]
    <3>1. DOMAIN data[ch] = 1 .. Len(data[ch])
      BY <1>3
    <3> QED
      BY <1>3, <1>4, <2>1, <3>1
  <2> QED
    BY <2>2 DEF Out, Range
<1>6. Range(shown[ch]) \subseteq Range(data[ch])
  <2>1. DOMAIN shown[ch] = 1 .. Len(shown[ch])
    BY <1>2
  <2> QED
    BY <1>2, <1>5, <2>1 DEF Within, Range
<1>7. \A i \in 1 .. Len(shown[ch]) - 1 : shown[ch][i] < shown[ch][i + 1]
  <2> TAKE i \in 1 .. Len(shown[ch]) - 1
  <2>1. Len(shown[ch]) \in Nat
    BY <1>2
  <2>2. i \in 1 .. Len(shown[ch]) /\ i + 1 \in 1 .. Len(shown[ch]) /\ i < i + 1
    BY <2>1
  <2> QED
    BY <1>2, <2>2 DEF Increasing
<1> QED
  BY <1>6, <1>7

(* Whatever is lost, late or in the wrong order, a node comes to keys of   *)
(* its channel in their order and never to one again: of a page that comes *)
(* too early insertKeyframe() drops what is left of the pages before it,   *)
(* and keys that no list has are never behind those that it has.           *)
THEOREM LossesLeaveGapsOnly ==
  ASSUME P!NonEmptyChannels, KeysApart
  PROVE  Spec => []LossLeavesGapsOnly
<1>1. Init => ShowInv /\ GapsInv
  BY InitShow, InitGaps
<1>2. ShowInv /\ GapsInv /\ [Next]_vars => ShowInv' /\ GapsInv'
  BY StepShow, StepGaps
<1>3. ShowInv /\ GapsInv => LossLeavesGapsOnly
  BY GapsOnly
<1> QED
  BY <1>1, <1>2, <1>3, PTL DEF Spec
------------------------------------------------------------------------------
(* A show without faults: what a node has got and what is on its way.      *)

LEMMA Parts ==
  ASSUME NEW S, NEW s \in Seq(S), NEW a \in Nat, NEW b \in Nat, a <= b, b <= Len(s)
  PROVE  /\ SubSeq(s, a + 1, b) \in Seq(S)
         /\ Len(SubSeq(s, a + 1, b)) = b - a
         /\ \A i \in 1 .. b - a : SubSeq(s, a + 1, b)[i] = s[a + i]
<1>1. Len(s) \in Nat
  OBVIOUS
<1>2. a + 1 \in 1 .. Len(s) + 1 /\ b \in a .. Len(s)
  BY <1>1
<1> QED
  BY <1>1, <1>2

LEMMA FirstPart ==
  ASSUME NEW S, NEW s \in Seq(S), NEW b \in Nat, b <= Len(s)
  PROVE  /\ SubSeq(s, 1, b) \in Seq(S)
         /\ Len(SubSeq(s, 1, b)) = b
         /\ \A i \in 1 .. b : SubSeq(s, 1, b)[i] = s[i]
BY 0 \in Nat, Parts

LEMMA JoinedParts ==
  ASSUME NEW S, NEW s \in Seq(S), NEW a \in Nat, NEW b \in Nat, a <= b, b <= Len(s)
  PROVE  SubSeq(s, 1, a) \o SubSeq(s, a + 1, b) = SubSeq(s, 1, b)
<1> DEFINE x == SubSeq(s, 1, a)
           y == SubSeq(s, a + 1, b)
           z == SubSeq(s, 1, b)
<1>1. Len(s) \in Nat /\ a <= Len(s)
  OBVIOUS
<1>2. /\ x \in Seq(S) /\ Len(x) = a /\ \A i \in 1 .. a : x[i] = s[i]
      /\ z \in Seq(S) /\ Len(z) = b /\ \A i \in 1 .. b : z[i] = s[i]
  BY <1>1, FirstPart
<1>3. y \in Seq(S) /\ Len(y) = b - a /\ \A i \in 1 .. b - a : y[i] = s[a + i]
  BY Parts
<1> HIDE DEF x, y, z
<1>4. /\ x \o y \in Seq(S) /\ Len(x \o y) = Len(x) + Len(y)
      /\ \A i \in 1 .. Len(x) + Len(y) :
           (x \o y)[i] = IF i <= Len(x) THEN x[i] ELSE y[i - Len(x)]
  <2>1. x \in Seq(S) /\ y \in Seq(S)
    BY <1>2, <1>3
  <2> QED
    BY <2>1, ConcatProperties
<1>5. ASSUME NEW i \in 1 .. b PROVE (x \o y)[i] = z[i]
  <2>1. i \in 1 .. Len(x) + Len(y)
    BY <1>2, <1>3
  <2>2. CASE i <= a
    BY <1>2, <1>4, <2>1, <2>2
  <2>3. CASE ~ (i <= a)
    <3>1. i - a \in 1 .. b - a /\ a + (i - a) = i
      BY <2>3
    <3> QED
      BY <1>2, <1>3, <1>4, <2>1, <2>3, <3>1
  <2> QED
    BY <2>2, <2>3
<1>6. Len(x \o y) = Len(z)
  BY <1>2, <1>3, <1>4
<1> DEFINE w == x \o y
<1>7. w \in Seq(S) /\ z \in Seq(S) /\ Len(w) = Len(z) /\ \A i \in 1 .. Len(w) : w[i] = z[i]
  BY <1>2, <1>4, <1>5, <1>6
<1> HIDE DEF w
<1>8. w = z
  BY <1>7, SeqEqual
<1> QED
  BY <1>8 DEF w, x, y, z

LEMMA WholePart ==
  ASSUME NEW S, NEW s \in Seq(S)
  PROVE  SubSeq(s, 1, Len(s)) = s
OBVIOUS

(* A part that is empty.                                                   *)
LEMMA EmptyPart ==
  ASSUME NEW S, NEW s \in Seq(S), NEW a \in Nat, NEW b \in Nat, b <= Len(s), a <= b,
         SubSeq(s, a + 1, b) = << >>
  PROVE  a = b
<1>1. Len(SubSeq(s, a + 1, b)) = b - a
  BY Parts
<1> QED
  BY <1>1, EmptySeq

LEMMA FirstStays ==
  ASSUME NEW S, NEW queue \in Seq(S), NEW d \in S
  PROVE  /\ Append(queue, d) # << >>
         /\ queue # << >> => Append(queue, d)[1] = queue[1]
         /\ queue = << >> => Append(queue, d)[1] = d
<1>1. /\ Len(queue) \in Nat /\ Append(queue, d) \in Seq(S)
      /\ Len(Append(queue, d)) = Len(queue) + 1
      /\ \A i \in 1 .. Len(queue) : Append(queue, d)[i] = queue[i]
      /\ Append(queue, d)[Len(queue) + 1] = d
  OBVIOUS
<1>2. CASE queue = << >>
  <2>1. Len(queue) = 0
    BY <1>2, EmptySeq
  <2> QED
    BY <1>1, <1>2, <2>1, EmptySeq
<1>3. CASE queue # << >>
  <2>1. Len(queue) # 0
    BY <1>3, EmptySeq
  <2>2. 1 \in 1 .. Len(queue) /\ Len(Append(queue, d)) # 0
    BY <1>1, <2>1
  <2> QED
    BY <1>1, <1>3, <2>2, EmptySeq
<1> QED
  BY <1>2, <1>3

LEMMA FlowLessSlack ==
  ASSUME NEW got, NEW queue \in Seq(Datagram), NEW channel \in Seq(KeyTime), NEW out,
         NEW slack \in Int, NEW slack2 \in Int, slack2 <= slack,
         Flowing(got, queue, channel, out, slack)
  PROVE  Flowing(got, queue, channel, out, slack2)
<1>1. PICK cut \in [0 .. Len(queue) -> 1 .. Len(channel)] :
        Flow(got, queue, channel, out, slack, cut)
  BY DEF Flowing
<1>2. ASSUME NEW i \in 1 .. Len(queue), cut[i - 1] < cut[i]
      PROVE  queue[i].sentAt + slack2 <= channel[cut[i - 1]]
  <2>1. queue[i].sentAt + slack <= channel[cut[i - 1]]
    BY <1>1, <1>2 DEF Flow
  <2>2. queue[i] \in Datagram /\ channel[cut[i - 1]] \in KeyTime
    <3>1. Len(queue) \in Nat
      OBVIOUS
    <3>2. i - 1 \in 0 .. Len(queue)
      BY <3>1
    <3> QED
      BY <3>2
  <2>3. queue[i].sentAt \in Int /\ channel[cut[i - 1]] \in Int
    BY <2>2 DEF Datagram, KeyTime
  <2> QED
    BY <2>1, <2>3
<1>3. Flow(got, queue, channel, out, slack2, cut)
  BY <1>1, <1>2 DEF Flow
<1> QED
  BY <1>3 DEF Flowing

(* Without a page on its way any slack will do.                            *)
LEMMA FlowWithoutPages ==
  ASSUME NEW got, NEW queue \in Seq(Datagram), NEW channel \in Seq(KeyTime), NEW out,
         NEW slack, NEW slack2,
         \A i \in 1 .. Len(queue) : Carried(queue[i]) = << >>,
         Flowing(got, queue, channel, out, slack)
  PROVE  Flowing(got, queue, channel, out, slack2)
<1>1. PICK cut \in [0 .. Len(queue) -> 1 .. Len(channel)] :
        Flow(got, queue, channel, out, slack, cut)
  BY DEF Flowing
<1>2. ASSUME NEW i \in 1 .. Len(queue) PROVE ~ (cut[i - 1] < cut[i])
  <2>1. Len(queue) \in Nat /\ Len(channel) \in Nat
    OBVIOUS
  <2>2. i - 1 \in 0 .. Len(queue) /\ i \in 0 .. Len(queue) /\ i - 1 <= i
    BY <2>1
  <2>3. /\ cut[i - 1] \in 1 .. Len(channel) /\ cut[i] \in 1 .. Len(channel)
        /\ cut[i - 1] <= cut[i]
    BY <1>1, <2>2 DEF Flow
  <2>4. SubSeq(channel, cut[i - 1] + 1, cut[i]) = << >>
    BY <1>1 DEF Flow
  <2>5. cut[i - 1] = cut[i]
    <3> DEFINE a == cut[i - 1]
               b == cut[i]
    <3>1. a \in Nat /\ b \in Nat /\ a <= b /\ b <= Len(channel)
      BY <2>1, <2>3
    <3>2. SubSeq(channel, a + 1, b) = << >>
      BY <2>4
    <3> HIDE DEF a, b
    <3>3. a = b
      BY <3>1, <3>2, EmptyPart
    <3> QED
      BY <3>3 DEF a, b
  <2> QED
    BY <2>1, <2>3, <2>5
<1>3. Flow(got, queue, channel, out, slack2, cut)
  BY <1>1, <1>2 DEF Flow
<1> QED
  BY <1>3 DEF Flowing

(* One more datagram behind the others.                                    *)
LEMMA FlowOn ==
  ASSUME NEW got, NEW queue \in Seq(Datagram), NEW channel \in Seq(KeyTime),
         NEW out \in 1 .. Len(channel), NEW slack, NEW d \in Datagram,
         NEW new \in 1 .. Len(channel), out <= new,
         Carried(d) = SubSeq(channel, out + 1, new),
         out < new => d.sentAt + slack <= channel[out],
         Flowing(got, queue, channel, out, slack)
  PROVE  Flowing(got, Append(queue, d), channel, new, slack)
<1>1. PICK cut \in [0 .. Len(queue) -> 1 .. Len(channel)] :
        Flow(got, queue, channel, out, slack, cut)
  BY DEF Flowing
<1> DEFINE n == Len(queue)
           q == Append(queue, d)
           cuts == [i \in 0 .. n + 1 |-> IF i <= n THEN cut[i] ELSE new]
<1>2. /\ n \in Nat /\ Len(q) = n + 1 /\ q[n + 1] = d
      /\ \A i \in 1 .. n : q[i] = queue[i]
  OBVIOUS
<1>3. Len(channel) \in Nat /\ out \in Nat /\ new \in Nat
  OBVIOUS
<1>4. /\ \A i \in 0 .. n : cuts[i] = cut[i] /\ i <= n
      /\ cuts[n + 1] = new
      /\ cuts \in [0 .. n + 1 -> 1 .. Len(channel)]
  BY <1>2
<1>5. /\ \A i \in 0 .. n : cut[i] \in 1 .. Len(channel)
      /\ cut[n] = out /\ got = SubSeq(channel, 1, cut[0])
      /\ \A i, j \in 0 .. n : i <= j => cut[i] <= cut[j]
  BY <1>1, <1>2 DEF Flow
<1> HIDE DEF q, cuts
<1>6. ASSUME NEW i \in 0 .. n + 1, NEW j \in 0 .. n + 1, i <= j
      PROVE  cuts[i] <= cuts[j]
  <2>1. CASE j \in 0 .. n
    <3>1. i \in 0 .. n
      BY <1>2, <1>6, <2>1
    <3> QED
      BY <1>4, <1>5, <1>6, <2>1, <3>1
  <2>2. CASE j = n + 1 /\ i \in 0 .. n
    <3>1. cut[i] <= cut[n] /\ cut[i] \in 1 .. Len(channel)
      BY <1>2, <1>5, <2>2
    <3> QED
      BY <1>3, <1>4, <1>5, <2>2, <3>1
  <2>3. CASE j = n + 1 /\ i = n + 1
    BY <1>3, <1>4, <2>3
  <2> QED
    BY <1>2, <1>6, <2>1, <2>2, <2>3
<1>7. ASSUME NEW i \in 1 .. n + 1
      PROVE  /\ Carried(q[i]) = SubSeq(channel, cuts[i - 1] + 1, cuts[i])
             /\ cuts[i - 1] < cuts[i] =>
                  q[i].sentAt + slack <= channel[cuts[i - 1]]
  <2>1. CASE i \in 1 .. n
    <3>1. i - 1 \in 0 .. n /\ i \in 0 .. n
      BY <1>2, <2>1
    <3>2. cuts[i - 1] = cut[i - 1] /\ cuts[i] = cut[i] /\ q[i] = queue[i]
      BY <1>2, <1>4, <2>1, <3>1
    <3> QED
      BY <1>1, <2>1, <3>2 DEF Flow
  <2>2. CASE i = n + 1
    <3>1. i - 1 = n /\ n \in 0 .. n
      BY <1>2, <2>2
    <3>2. cuts[i - 1] = out /\ cuts[i] = new /\ q[i] = d
      BY <1>2, <1>4, <1>5, <2>2, <3>1
    <3> QED
      BY <3>2
  <2>3. i \in 1 .. n \/ i = n + 1
    BY <1>2
  <2> QED
    BY <2>1, <2>2, <2>3
<1>8. cuts[0] = cut[0]
  BY <1>2, <1>4
<1> HIDE DEF n
<1>9. Flow(got, q, channel, new, slack, cuts)
  BY <1>2, <1>4, <1>5, <1>6, <1>7, <1>8 DEF Flow
<1>10. cuts \in [0 .. Len(q) -> 1 .. Len(channel)]
  BY <1>2, <1>4
<1>11. Flowing(got, q, channel, new, slack)
  BY <1>9, <1>10 DEF Flowing
<1> QED
  BY <1>11 DEF q

(* The oldest datagram leaves the air.                                     *)
Received(got, queue, channel, out, slack) ==
  \E a \in 1 .. Len(channel), b \in 1 .. Len(channel) :
    /\ a <= b /\ got = SubSeq(channel, 1, a)
    /\ Carried(queue[1]) = SubSeq(channel, a + 1, b)
    /\ Flowing(SubSeq(channel, 1, b), RemoveAt(queue, 1), channel, out, slack)

LEMMA FlowIn ==
  ASSUME NEW got, NEW queue \in Seq(Datagram), NEW channel \in Seq(KeyTime),
         NEW out, NEW slack, Len(queue) > 0,
         Flowing(got, queue, channel, out, slack)
  PROVE  Received(got, queue, channel, out, slack)
<1> USE DEF Received
<1>1. PICK cut \in [0 .. Len(queue) -> 1 .. Len(channel)] :
        Flow(got, queue, channel, out, slack, cut)
  BY DEF Flowing
<1> DEFINE n == Len(queue)
           q == RemoveAt(queue, 1)
           cuts == [i \in 0 .. n - 1 |-> cut[i + 1]]
<1>2. n \in Nat /\ n > 0 /\ 1 \in 1 .. n
  OBVIOUS
<1>3. /\ Len(q) = n - 1
      /\ \A j \in 1 .. n - 1 : q[j] = queue[j + 1]
  <2>1. /\ Len(q) = n - 1
        /\ \A j \in 1 .. n - 1 : q[j] = IF j < 1 THEN queue[j] ELSE queue[j + 1]
    BY <1>2, Removed
  <2> QED
    BY <1>2, <2>1
<1> HIDE DEF q
<1>4. /\ cut \in [0 .. n -> 1 .. Len(channel)]
      /\ cut[n] = out /\ got = SubSeq(channel, 1, cut[0])
      /\ \A i, j \in 0 .. n : i <= j => cut[i] <= cut[j]
      /\ \A i \in 1 .. n :
           /\ Carried(queue[i]) = SubSeq(channel, cut[i - 1] + 1, cut[i])
           /\ cut[i - 1] < cut[i] =>
                queue[i].sentAt + slack <= channel[cut[i - 1]]
  BY <1>1 DEF Flow
<1> HIDE DEF n
<1>5. /\ cuts \in [0 .. n - 1 -> 1 .. Len(channel)]
      /\ \A i \in 0 .. n - 1 : cuts[i] = cut[i + 1] /\ i + 1 \in 1 .. n
  <2>1. \A i \in 0 .. n - 1 : i + 1 \in 1 .. n /\ i + 1 \in 0 .. n
    BY <1>2
  <2>2. \A i \in 0 .. n : cut[i] \in 1 .. Len(channel)
    BY <1>4
  <2> QED
    BY <2>1, <2>2
<1> HIDE DEF cuts
<1>6. cuts[0] = cut[1] /\ cuts[n - 1] = out
  BY <1>2, <1>4, <1>5
<1>7. ASSUME NEW i \in 0 .. n - 1, NEW j \in 0 .. n - 1, i <= j
      PROVE  cuts[i] <= cuts[j]
  <2>1. i + 1 \in 0 .. n /\ j + 1 \in 0 .. n /\ i + 1 <= j + 1
    BY <1>2, <1>7
  <2> QED
    BY <1>4, <1>5, <2>1
<1>8. ASSUME NEW i \in 1 .. n - 1
      PROVE  /\ Carried(q[i]) = SubSeq(channel, cuts[i - 1] + 1, cuts[i])
             /\ cuts[i - 1] < cuts[i] =>
                  q[i].sentAt + slack <= channel[cuts[i - 1]]
  <2>1. /\ i + 1 \in 1 .. n /\ (i + 1) - 1 = i /\ (i - 1) + 1 = i
        /\ i \in 0 .. n - 1 /\ i - 1 \in 0 .. n - 1
    BY <1>2
  <2>2. cuts[i - 1] = cut[i] /\ cuts[i] = cut[i + 1] /\ q[i] = queue[i + 1]
    <3>1. cuts[i - 1] = cut[(i - 1) + 1] /\ cuts[i] = cut[i + 1]
      BY <1>5, <2>1
    <3> QED
      BY <1>3, <2>1, <3>1
  <2>3. /\ Carried(queue[i + 1]) = SubSeq(channel, cut[(i + 1) - 1] + 1, cut[i + 1])
        /\ cut[(i + 1) - 1] < cut[i + 1] =>
             queue[i + 1].sentAt + slack <= channel[cut[(i + 1) - 1]]
    BY <1>4, <2>1
  <2> QED
    BY <2>1, <2>2, <2>3
<1>9. Flow(SubSeq(channel, 1, cut[1]), q, channel, out, slack, cuts)
  BY <1>3, <1>6, <1>7, <1>8 DEF Flow
<1>10. cuts \in [0 .. Len(q) -> 1 .. Len(channel)]
  BY <1>3, <1>5
<1>11. Flowing(SubSeq(channel, 1, cut[1]), q, channel, out, slack)
  BY <1>9, <1>10 DEF Flowing
<1>12. /\ cut[0] \in 1 .. Len(channel) /\ cut[1] \in 1 .. Len(channel)
       /\ cut[0] <= cut[1]
       /\ Carried(queue[1]) = SubSeq(channel, cut[0] + 1, cut[1])
  <2>1. 0 \in 0 .. n /\ 1 \in 0 .. n /\ 0 <= 1 /\ 1 - 1 = 0
    BY <1>2
  <2>2. Carried(queue[1]) = SubSeq(channel, cut[1 - 1] + 1, cut[1])
    BY <1>2, <1>4
  <2>3. cut[1 - 1] = cut[0]
    BY <2>1
  <2> QED
    BY <1>4, <2>1, <2>2, <2>3
<1> QED
  BY <1>4, <1>11, <1>12 DEF q

(* A node that has not got all of its channel: the next page is on its way *)
(* and left in time, or nothing more was sent yet.                         *)
Awaits(r, queue, channel, out, slack) ==
  \/ out = r
  \/ \E i \in 1 .. Len(queue) :
       /\ Carried(queue[i]) # << >>
       /\ queue[i].sentAt + slack <= channel[r]

LEMMA FlowNext ==
  ASSUME NEW got, NEW queue \in Seq(Datagram), NEW channel \in Seq(KeyTime),
         NEW out, NEW slack, Flowing(got, queue, channel, out, slack)
  PROVE  \E r \in 1 .. Len(channel) :
           got = SubSeq(channel, 1, r) /\ Awaits(r, queue, channel, out, slack)
<1> USE DEF Awaits
<1>1. PICK cut \in [0 .. Len(queue) -> 1 .. Len(channel)] :
        Flow(got, queue, channel, out, slack, cut)
  BY DEF Flowing
<1> DEFINE n == Len(queue)
           r == cut[0]
           Later == {i \in 0 .. n : cut[i] > r}
<1>2. n \in Nat /\ Len(channel) \in Nat
  OBVIOUS
<1>3. /\ \A i \in 0 .. n : cut[i] \in 1 .. Len(channel)
      /\ cut[n] = out /\ got = SubSeq(channel, 1, r)
      /\ \A i, j \in 0 .. n : i <= j => cut[i] <= cut[j]
      /\ \A i \in 1 .. n :
           /\ Carried(queue[i]) = SubSeq(channel, cut[i - 1] + 1, cut[i])
           /\ cut[i - 1] < cut[i] =>
                queue[i].sentAt + slack <= channel[cut[i - 1]]
  BY <1>1 DEF Flow
<1>4. r \in 1 .. Len(channel) /\ 0 \in 0 .. n /\ n \in 0 .. n
  BY <1>2, <1>3
<1> HIDE DEF n, r
<1>5. CASE Later = {}
  <2>1. ~ (cut[n] > r) /\ cut[0] <= cut[n] /\ cut[n] \in 1 .. Len(channel)
    <3>1. n \notin Later
      BY <1>5
    <3>2. ~ (cut[n] > r)
      BY <1>4, <3>1
    <3>3. 0 <= n
      BY <1>2
    <3> QED
      BY <1>3, <1>4, <3>2, <3>3
  <2>2. out = r
    BY <1>3, <1>4, <2>1 DEF r
  <2> QED
    BY <1>3, <1>4, <2>2
<1>6. CASE Later # {}
  <2>1. Later \in SUBSET Nat
    BY <1>2
  <2> HIDE DEF Later
  <2>2. PICK i \in Later : \A j \in Later : i <= j
    BY <1>6, <2>1, AnimationIsFine, P!LeastNumber
  <2> USE DEF Later
  <2>3. i \in 0 .. n /\ cut[i] > r /\ i # 0
    BY <1>4 DEF r
  <2>4. i \in 1 .. n /\ i - 1 \in 0 .. n /\ ~ (i <= i - 1) /\ 0 <= i - 1
    BY <1>2, <2>3
  <2>5. ~ (cut[i - 1] > r) /\ cut[i - 1] \in 1 .. Len(channel) /\ cut[0] <= cut[i - 1]
    BY <1>3, <1>4, <2>2, <2>4
  <2>6. cut[i - 1] = r
    BY <1>4, <2>5 DEF r
  <2>7. cut[i] \in 1 .. Len(channel) /\ cut[i - 1] < cut[i]
    BY <1>3, <2>3, <2>6
  <2>8. queue[i].sentAt + slack <= channel[r]
    BY <1>3, <2>4, <2>6, <2>7
  <2>9. Carried(queue[i]) # << >>
    <3> DEFINE a == cut[i - 1]
               b == cut[i]
    <3>1. a \in Nat /\ b \in Nat /\ a <= b /\ b <= Len(channel) /\ a # b
      BY <1>2, <2>5, <2>7
    <3>2. Carried(queue[i]) = SubSeq(channel, a + 1, b)
      BY <1>3, <2>4
    <3> HIDE DEF a, b
    <3> QED
      BY <3>1, <3>2, EmptyPart
  <2> QED
    BY <1>3, <1>4, <2>4, <2>8, <2>9 DEF n
<1> QED
  BY <1>5, <1>6

(* What a node has got does not change in a frame, and what it has got     *)
(* ends with the last key of its list.                                     *)
LEMMA TogetherKeys ==
  ASSUME NEW S, NEW list \in Seq(S), NEW past \in Seq(S), past # << >>, Len(list) >= 1
  PROVE  LET all == Together(list, past)
         IN  /\ all \in Seq(S) /\ Len(all) = Len(past) + Len(list) - 1
             /\ \A i \in 1 .. Len(all) :
                  all[i] = IF i <= Len(past) THEN past[i] ELSE list[i - Len(past) + 1]
<1> DEFINE tail == Tail(list)
<1>1. /\ tail \in Seq(S) /\ Len(tail) = Len(list) - 1
      /\ \A i \in 1 .. Len(list) - 1 : tail[i] = list[i + 1]
  <2>1. list # << >>
    BY EmptySeq
  <2> QED
    BY <2>1
<1>2. Together(list, past) = past \o tail
  BY DEF Together
<1> HIDE DEF tail
<1>3. /\ past \o tail \in Seq(S) /\ Len(past \o tail) = Len(past) + Len(tail)
      /\ \A i \in 1 .. Len(past) + Len(tail) :
           (past \o tail)[i] = IF i <= Len(past) THEN past[i] ELSE tail[i - Len(past)]
  BY <1>1, ConcatProperties
<1>4. Len(past) \in Nat /\ Len(list) \in Nat
  OBVIOUS
<1>5. Len(past) + Len(tail) = Len(past) + Len(list) - 1
  BY <1>1, <1>4
<1>6. ASSUME NEW i \in 1 .. Len(past) + Len(list) - 1
      PROVE  (past \o tail)[i] = IF i <= Len(past) THEN past[i] ELSE list[i - Len(past) + 1]
  <2>1. CASE i <= Len(past)
    BY <1>3, <1>5, <2>1
  <2>2. CASE ~ (i <= Len(past))
    <3>1. i - Len(past) \in 1 .. Len(list) - 1
      BY <1>4, <2>2
    <3> QED
      BY <1>1, <1>3, <1>5, <2>2, <3>1
  <2> QED
    BY <2>1, <2>2
<1> QED
  BY <1>2, <1>3, <1>5, <1>6

(* n keys go from the head of the list to the end of those shown.          *)
FrameOf(list, past, n, rest, all) ==
  /\ list \in Seq(KeyTime) /\ past \in Seq(KeyTime) /\ n \in 0 .. Len(list) - 1
  /\ rest \in Seq(KeyTime) /\ Len(rest) = Len(list) - n
  /\ \A i \in 1 .. Len(rest) : rest[i] = list[n + i]
  /\ Len(past) > 0
  /\ all \in Seq(KeyTime) /\ Len(all) = Len(past) + n
  /\ \A i \in 1 .. Len(all) : all[i] = IF i <= Len(past) THEN past[i]
                                        ELSE list[i - Len(past) + 1]

LEMMA TogetherInFrame ==
  ASSUME NEW list, NEW past, NEW n, NEW rest, NEW all,
         FrameOf(list, past, n, rest, all)
  PROVE  Together(rest, all) = Together(list, past)
<1> USE DEF FrameOf
<1>1. /\ Len(list) \in Nat /\ n \in Nat /\ n < Len(list) /\ Len(past) \in Nat
      /\ Len(rest) \in Nat /\ Len(all) \in Nat
  OBVIOUS
<1>2. past # << >> /\ all # << >> /\ Len(list) >= 1 /\ Len(rest) >= 1
  BY <1>1, EmptySeq
<1> DEFINE old == Together(list, past)
           new == Together(rest, all)
<1>3. /\ old \in Seq(KeyTime) /\ Len(old) = Len(past) + Len(list) - 1
      /\ \A i \in 1 .. Len(old) :
           old[i] = IF i <= Len(past) THEN past[i] ELSE list[i - Len(past) + 1]
  BY <1>2, TogetherKeys
<1>4. /\ new \in Seq(KeyTime) /\ Len(new) = Len(all) + Len(rest) - 1
      /\ \A i \in 1 .. Len(new) :
           new[i] = IF i <= Len(all) THEN all[i] ELSE rest[i - Len(all) + 1]
  <2>1. \A l \in Seq(KeyTime), p \in Seq(KeyTime) : p # << >> /\ Len(l) >= 1 =>
          LET both == Together(l, p)
          IN  /\ both \in Seq(KeyTime) /\ Len(both) = Len(p) + Len(l) - 1
              /\ \A i \in 1 .. Len(both) :
                   both[i] = IF i <= Len(p) THEN p[i] ELSE l[i - Len(p) + 1]
    BY TogetherKeys
  <2>2. rest \in Seq(KeyTime) /\ all \in Seq(KeyTime) /\ all # << >> /\ Len(rest) >= 1
    BY <1>2
  <2> QED
    BY <2>1, <2>2, ZenonT(30)
<1> HIDE DEF old, new
<1>5. Len(new) = Len(old)
  BY <1>1, <1>3, <1>4
<1>6. ASSUME NEW i \in 1 .. Len(new) PROVE new[i] = old[i]
  <2>1. i \in 1 .. Len(old)
    BY <1>5
  <2>2. CASE i <= Len(all)
    <3>1. i \in 1 .. Len(all)
      BY <1>1, <2>2
    <3> QED
      BY <1>3, <1>4, <2>1, <2>2, <3>1
  <2>3. CASE ~ (i <= Len(all))
    <3>1. /\ i - Len(all) + 1 \in 1 .. Len(rest)
          /\ n + (i - Len(all) + 1) = i - Len(past) + 1
          /\ ~ (i <= Len(past))
      BY <1>1, <1>4, <2>3
    <3>2. rest[i - Len(all) + 1] = list[i - Len(past) + 1]
      <4> DEFINE j == i - Len(all) + 1
      <4>1. rest[j] = list[n + j]
        BY <3>1
      <4> QED
        BY <3>1, <4>1
    <3> QED
      BY <1>3, <1>4, <2>1, <2>3, <3>1, <3>2
  <2> QED
    BY <2>2, <2>3
<1>7. new = old
  BY <1>3, <1>4, <1>5, <1>6, SeqEqual
<1> QED
  BY <1>7 DEF new, old

LEMMA ChannelState ==
  ASSUME P!NonEmptyChannels, ShowInv, NEW ch \in Channel
  PROVE  /\ data[ch] \in Seq(KeyTime) /\ Len(data[ch]) \in Nat /\ Len(data[ch]) > 0
         /\ air[ch] \in Seq(Datagram) /\ Len(air[ch]) \in Nat
         /\ keys[ch] \in Seq(KeyTime) /\ Len(keys[ch]) \in Nat
         /\ shown[ch] \in Seq(KeyTime)
         /\ running[ch] \in BOOLEAN /\ ahead[ch] \in Int
         /\ thread # "upload" => SentOut(ch) \in 1 .. Len(data[ch])
         /\ reserve \in Nat /\ lag \in Nat /\ now \in Nat /\ reserve - lag \in Int
<1>1. /\ data[ch] \in Seq(KeyTime) /\ Len(data[ch]) \in Nat /\ Len(data[ch]) > 0
      /\ P!Delivered(ch) \in 0 .. Len(data[ch])
  BY ChannelKeys DEF ShowInv
<1>2. Types
  BY DEF ShowInv
<1>3. /\ air[ch] \in Seq(Datagram) /\ keys[ch] \in Seq(KeyTime)
      /\ shown[ch] \in Seq(KeyTime) /\ page[ch] \in Seq(KeyTime)
      /\ running[ch] \in BOOLEAN /\ ahead[ch] \in Int
      /\ reserve \in Nat /\ lag \in Nat /\ now \in Nat
  BY <1>2 DEF Types
<1>4. /\ Len(air[ch]) \in Nat /\ Len(keys[ch]) \in Nat /\ Len(page[ch]) \in Nat
  BY <1>3
<1>5. Len(Pending(ch)) \in Nat
  BY <1>4, EmptySeq DEF Pending
<1>6. thread # "upload" => SentOut(ch) >= 1
  BY DEF ShowInv, Traffic
<1>7. thread # "upload" => SentOut(ch) \in 1 .. Len(data[ch])
  BY <1>1, <1>5, <1>6 DEF SentOut
<1> QED
  BY <1>1, <1>3, <1>4, <1>7

LEMMA FlawlessBefore ==
  ASSUME ShowInv, [Next]_vars, Flawless' PROVE Flawless
<1>1. lost \in Nat /\ overtaken \in BOOLEAN /\ stopped \in BOOLEAN
  BY DEF ShowInv, Types
<1>2. CASE PlayThread \/ Stop \/ UNCHANGED vars
  <2>1. lost' = lost /\ overtaken' = overtaken /\ (stopped' = stopped \/ stopped')
    <3>1. CASE PlayThread
      BY <3>1 DEF PlayThread, Upload, BroadcastPlay, CorrectDrift, Loop,
                  SendKeys, EndLoop, faultVars
    <3>2. CASE Stop
      BY <3>2 DEF Stop
    <3>3. CASE UNCHANGED vars
      BY <3>3 DEF vars, faultVars
    <3> QED
      BY <1>2, <3>1, <3>2, <3>3
  <2> QED
    BY <1>1, <2>1 DEF Flawless
<1>3. CASE Tick \/ \E ch \in Channel : Arrive(ch)
  <2>1. lost' = lost /\ stopped' = stopped
    BY <1>3 DEF Tick, Arrive
  <2>2. CASE Tick
    BY <2>1, <2>2 DEF Tick, Flawless
  <2>3. CASE \E ch \in Channel : Arrive(ch)
    <3>1. \E i \in Nat : overtaken' = (overtaken \/ i > 1)
      BY <2>3 DEF Arrive
    <3>2. ~overtaken' => ~overtaken
      BY <1>1, <3>1
    <3> QED
      BY <2>1, <3>2 DEF Flawless
  <2> QED
    BY <1>3, <2>2, <2>3
<1>4. CASE \E ch \in Channel : Lose(ch)
  BY <1>1, <1>4 DEF Lose, Flawless
<1> QED
  BY <1>2, <1>3, <1>4 DEF Next

(* A datagram that is no page.                                             *)
LEMMA CommandComplete ==
  ASSUME P!NonEmptyChannels, ShowInv, CompleteInv, Flawless,
         NEW content \in Content, content.kind # "keys",
         Broadcast(ToAll(content)), UNCHANGED nodeVars, data' = data,
         \A ch \in Channel : SentOut(ch)' = SentOut(ch),
         UNCHANGED <<reserve, lag>>, Reserve' = Reserve, thread # "upload",
         \/ thread \notin {"upload", "play"}
         \/ content.kind = "pl" /\ \A ch \in Channel : air[ch] = << >>
  PROVE  CompleteInv'
<1>1. SUFFICES ASSUME NEW ch \in Channel
               PROVE  ToldToPlay(ch)' /\ Supplied(ch)' /\ Finished(ch)'
  BY DEF CompleteInv
<1> DEFINE d == [sentAt |-> now, content |-> content]
<1>2. d \in Datagram /\ Carried(d) = << >> /\ d.content = content
  BY DEF ShowInv, Types, Datagram, Carried
<1> HIDE DEF d
<1>3. air'[ch] = Append(air[ch], d)
  BY DEF Broadcast, ToAll, d
<1>4. /\ data[ch] \in Seq(KeyTime) /\ Len(data[ch]) \in Nat
      /\ air[ch] \in Seq(Datagram) /\ Len(air[ch]) \in Nat
      /\ SentOut(ch) \in 1 .. Len(data[ch])
  BY ChannelState
<1>5. /\ Append(air[ch], d) # << >>
      /\ air[ch] # << >> => Append(air[ch], d)[1] = air[ch][1]
      /\ air[ch] = << >> => Append(air[ch], d)[1] = d
  BY <1>2, <1>4, FirstStays
<1>6. ToldToPlay(ch) /\ Supplied(ch) /\ Finished(ch)
  BY DEF CompleteInv
<1>7. ToldToPlay(ch)'
  BY <1>2, <1>3, <1>5, <1>6 DEF ToldToPlay, nodeVars
<1>8. Supplied(ch)'
  <2>1. Listening(ch)' <=> Listening(ch)
    BY DEF Listening, nodeVars
  <2>2. SUFFICES ASSUME Listening(ch)
        PROVE  Flowing(Got(ch), Append(air[ch], d), data[ch], SentOut(ch), reserve - lag)
    BY <1>3, <2>1 DEF Supplied, Got, nodeVars
  <2>3. Flowing(Got(ch), air[ch], data[ch], SentOut(ch), reserve - lag)
    BY <1>6, <2>2 DEF Supplied
  <2> DEFINE out == SentOut(ch)
             channel == data[ch]
             queue == air[ch]
             slack == reserve - lag
             got == Got(ch)
  <2>4. /\ out \in 1 .. Len(channel) /\ channel \in Seq(KeyTime)
        /\ queue \in Seq(Datagram) /\ Flowing(got, queue, channel, out, slack)
    BY <1>4, <2>3
  <2> HIDE DEF out, channel, queue, slack, got
  <2>5. Len(channel) \in Nat /\ out \in Nat /\ out <= Len(channel) /\ out <= out /\ ~ (out < out)
    BY <2>4
  <2>6. Carried(d) = SubSeq(channel, out + 1, out)
    <3>1. Len(SubSeq(channel, out + 1, out)) = out - out
          /\ SubSeq(channel, out + 1, out) \in Seq(KeyTime)
      BY <2>4, <2>5, Parts
    <3>2. out - out = 0
      BY <2>5
    <3> QED
      BY <1>2, <3>1, <3>2, EmptySeq
  <2>7. Flowing(got, Append(queue, d), channel, out, slack)
    BY <1>2, <2>4, <2>5, <2>6, FlowOn
  <2> QED
    BY <2>7 DEF out, channel, queue, slack, got
<1>9. Finished(ch)'
  BY <1>6 DEF Finished, nodeVars
<1> QED
  BY <1>7, <1>8, <1>9

(* Nothing is sent.                                                        *)
LEMMA QuietComplete ==
  ASSUME P!NonEmptyChannels, ShowInv, CompleteInv, Flawless,
         UNCHANGED <<air, nodeVars, lag>>, data' = data,
         \A ch \in Channel : SentOut(ch)' = SentOut(ch),
         Reserve' = Reserve, reserve' = reserve \/ firstTime,
         thread' \in {"upload", "play"} <=> thread \in {"upload", "play"},
         thread' = "upload" <=> thread = "upload"
  PROVE  CompleteInv'
<1>1. SUFFICES ASSUME NEW ch \in Channel
               PROVE  ToldToPlay(ch)' /\ Supplied(ch)' /\ Finished(ch)'
  BY DEF CompleteInv
<1>2. ToldToPlay(ch) /\ Supplied(ch) /\ Finished(ch)
  BY DEF CompleteInv
<1>3. ToldToPlay(ch)'
  BY <1>2 DEF ToldToPlay, nodeVars
<1>4. Finished(ch)'
  BY <1>2 DEF Finished, nodeVars
<1>5. Supplied(ch)'
  <2>1. Listening(ch)' <=> Listening(ch)
    BY DEF Listening, nodeVars
  <2>2. SUFFICES ASSUME Listening(ch), thread # "upload"
        PROVE  Flowing(Got(ch), air[ch], data[ch], SentOut(ch), reserve' - lag)
    BY <2>1 DEF Supplied, Got, nodeVars
  <2>3. Flowing(Got(ch), air[ch], data[ch], SentOut(ch), reserve - lag)
    BY <1>2, <2>2 DEF Supplied
  <2>4. CASE reserve' = reserve
    BY <2>3, <2>4
  <2>5. CASE firstTime
    <3>1. ASSUME NEW i \in 1 .. Len(air[ch]) PROVE Carried(air[ch][i]) = << >>
      <4>1. air[ch][i].content.kind # "keys"
        BY <2>5 DEF ShowInv, Traffic
      <4> QED
        BY <4>1 DEF Carried
    <3>2. data[ch] \in Seq(KeyTime) /\ air[ch] \in Seq(Datagram)
      BY ChannelState
    <3> QED
      BY <2>3, <3>1, <3>2, FlowWithoutPages
  <2> QED
    BY <2>4, <2>5
<1> QED
  BY <1>3, <1>4, <1>5

LEMMA InitComplete == ASSUME Init PROVE CompleteInv
<1>1. \A ch \in Channel : ToldToPlay(ch) /\ Supplied(ch) /\ Finished(ch)
  BY DEF Init, ToldToPlay, Supplied, Finished
<1> QED
  BY <1>1 DEF CompleteInv

LEMMA UploadComplete ==
  ASSUME P!NonEmptyChannels, ShowInv, Upload PROVE CompleteInv'
<1>1. SUFFICES ASSUME NEW ch \in Channel
               PROVE  ToldToPlay(ch)' /\ Supplied(ch)' /\ Finished(ch)'
  BY DEF CompleteInv
<1> DEFINE new == Anim!PageOf(ch, N_KEYS_ON_INIT)
           n == P!Delivered(ch)'
<1>2. keys'[ch] = new /\ shown'[ch] = << >> /\ air'[ch] = << >>
  BY DEF Upload, ShowInv, Schedule
<1>3. Anim!GetNKeys(N_KEYS_ON_INIT) /\ ~started /\ P!IInv
  BY DEF Upload, ShowInv, Schedule
<1>4. /\ new \in Seq(KeyTime) /\ Len(new) \in Nat
      /\ n = P!Delivered(ch) + Len(new)
      /\ n \in 1 .. Len(data[ch]) /\ data' = data
      /\ \A i \in 1 .. Len(new) : new[i] = data[ch][P!Delivered(ch) + i]
  BY <1>3, PageTaken
<1>5. P!Delivered(ch) = 0 /\ data[ch] \in Seq(KeyTime) /\ Len(data[ch]) \in Nat
  BY <1>3, ChannelKeys
<1>6. SentOut(ch)' = n
  <2>1. SentOut(ch)' = n - 0
    BY EmptySeq DEF SentOut, Pending, Upload
  <2> HIDE DEF n
  <2> QED
    BY <1>4, <2>1
<1>7. ToldToPlay(ch)' /\ Finished(ch)'
  BY <1>2 DEF ToldToPlay, Finished, Upload
<1> HIDE DEF new, n
<1> DEFINE s == data[ch]
           cut == [i \in 0 .. 0 |-> n]
<1>8. new = SubSeq(s, 1, n)
  <2>1. /\ s \in Seq(KeyTime) /\ n <= Len(s) /\ \A i \in 1 .. Len(new) : new[i] = s[0 + i]
        /\ n \in Nat /\ 0 + Len(new) = n /\ 0 \in Nat
    BY <1>4, <1>5
  <2> HIDE DEF s
  <2>2. new = SubSeq(s, 0 + 1, n)
    BY <1>4, <2>1, PartOf
  <2> QED
    BY <2>2
<1>9. Len(<< >>) = 0
  BY EmptySeq
<1>10. n \in 1 .. Len(s) /\ n <= n
  BY <1>4, <1>5
<1> HIDE DEF s
<1>11. Flow(new, << >>, s, n, reserve - lag, cut)
  <2>1. cut[0] = n /\ \A i, j \in 0 .. 0 : cut[i] <= cut[j]
    BY <1>10
  <2> HIDE DEF cut
  <2> QED
    BY <1>8, <1>9, <2>1 DEF Flow
<1>12. Flowing(new, << >>, s, n, reserve - lag)
  BY <1>9, <1>10, <1>11 DEF Flowing
<1>13. Supplied(ch)'
  <2>1. Got(ch)' = new
    BY <1>2 DEF Got, Together
  <2>2. reserve' = reserve /\ lag' = lag /\ data'[ch] = s
    BY <1>4 DEF Upload, faultVars, s
  <2>3. Flowing(new, << >>, s, n, reserve - lag) =
        Flowing(Got(ch), air[ch], data[ch], SentOut(ch), reserve - lag)'
    BY <1>2, <1>6, <2>1, <2>2
  <2> QED
    BY <1>12, <2>3 DEF Supplied
<1> QED
  BY <1>7, <1>13

LEMMA SendKeysComplete ==
  ASSUME P!NonEmptyChannels, ShowInv, CompleteInv, Flawless, SendKeys
  PROVE  CompleteInv'
<1>1. SUFFICES ASSUME NEW ch \in Channel
               PROVE  ToldToPlay(ch)' /\ Supplied(ch)' /\ Finished(ch)'
  BY DEF CompleteInv
<1> DEFINE page0 == page[ch]
           d == [sentAt |-> now, content |-> [kind |-> "keys", keys |-> page0]]
           out == SentOut(ch)
           n == P!Delivered(ch)
<1>2. /\ page0 \in Seq(KeyTime) /\ now \in Nat /\ wake \in Nat /\ lastKeyout \in Nat
      /\ reserve \in Nat /\ lag \in Nat
  BY DEF ShowInv, Types
<1>3. d \in Datagram /\ Carried(d) = page0 /\ d.sentAt = now
  <2> HIDE DEF page0
  <2> QED
    BY <1>2 DEF Datagram, Content, Carried
<1>4. air'[ch] = Append(air[ch], d)
  BY DEF SendKeys, Broadcast
<1>5. /\ page0 = SubSeq(data[ch], out + 1, n) /\ out = n - Len(page0)
      /\ page0 # << >> => lastKeyout <= data[ch][out]
  BY DEF ShowInv, PageFollows, SendKeys, SentOut, Pending
<1>6. /\ data[ch] \in Seq(KeyTime) /\ Len(data[ch]) \in Nat
      /\ air[ch] \in Seq(Datagram) /\ Len(air[ch]) \in Nat
      /\ out \in 1 .. Len(data[ch])
  BY ChannelState DEF SendKeys
<1>7. n \in 0 .. Len(data[ch])
  BY ChannelKeys DEF ShowInv
<1>8. UNCHANGED <<animVars, reserve, lag, firstTime>> /\ thread' = "loop"
      /\ UNCHANGED nodeVars /\ thread = "sleeping" /\ ~ (now < wake)
  BY <1>2 DEF SendKeys, faultVars
<1>9. /\ SentOut(ch)' = n /\ data' = data /\ Reserve' = Reserve
  <2>1. P!Delivered(ch)' = n /\ data' = data /\ P!FirstKeyout' = P!FirstKeyout
    BY <1>8, PagingRests DEF ShowInv
  <2>2. SentOut(ch)' = n - 0
    BY <1>8, <2>1, EmptySeq DEF SentOut, Pending
  <2>3. Reserve' = Reserve
    BY <1>8, <2>1 DEF Reserve
  <2> HIDE DEF n
  <2> QED
    BY <1>7, <2>1, <2>2, <2>3
<1>10. now + reserve = lastKeyout + lag
  BY <1>8 DEF ShowInv, Pace
<1> HIDE DEF d, out, n
<1>11. /\ n \in 1 .. Len(data[ch]) /\ out <= n
       /\ out < n => now + (reserve - lag) <= data[ch][out]
  <2>1. Len(page0) \in Nat
    BY <1>2
  <2>0. out = n - Len(page0) /\ (page0 # << >> => lastKeyout <= data[ch][out])
    BY <1>5
  <2>2. out < n => page0 # << >>
    <3>1. page0 = << >> => Len(page0) = 0
      BY EmptySeq
    <3>2. out \in Nat /\ n \in Nat
      BY <1>6, <1>7
    <3> HIDE DEF page0
    <3> QED
      BY <2>0, <3>1, <3>2
  <2>3. data[ch][out] \in Nat
    <3>1. data[ch][out] \in KeyTime
      BY <1>6
    <3> QED
      BY <3>1 DEF KeyTime
  <2>4. out \in Nat /\ n \in Nat /\ 1 <= out /\ n <= Len(data[ch]) /\ Len(data[ch]) \in Nat
    BY <1>6, <1>7
  <2>5. /\ now \in Nat /\ lastKeyout \in Nat /\ reserve \in Nat /\ lag \in Nat
    BY <1>2
  <2> HIDE DEF page0
  <2>6. n \in 1 .. Len(data[ch]) /\ out <= n
    BY <2>0, <2>1, <2>4
  <2>7. out < n => now + (reserve - lag) <= data[ch][out]
    BY <1>10, <2>0, <2>2, <2>3, <2>5
  <2> QED
    BY <2>6, <2>7
<1> HIDE DEF page0
<1>12. ToldToPlay(ch) /\ Supplied(ch) /\ Finished(ch)
  BY DEF CompleteInv
<1>13. ToldToPlay(ch)'
  <2>1. air[ch] # << >> =>
          Append(air[ch], d) # << >> /\ Append(air[ch], d)[1] = air[ch][1]
    BY <1>3, <1>6, FirstStays
  <2> QED
    BY <1>4, <1>8, <1>12, <2>1 DEF ToldToPlay, nodeVars
<1>14. Finished(ch)'
  BY <1>8, <1>9, <1>12 DEF Finished, nodeVars
<1>15. Supplied(ch)'
  <2>1. Listening(ch)' <=> Listening(ch)
    BY <1>8 DEF Listening, nodeVars
  <2>2. SUFFICES ASSUME Listening(ch)
        PROVE  Flowing(Got(ch), Append(air[ch], d), data[ch], n, reserve - lag)
    BY <1>4, <1>8, <1>9, <2>1 DEF Supplied, Got, nodeVars
  <2>3. Flowing(Got(ch), air[ch], data[ch], out, reserve - lag)
    BY <1>8, <1>12, <2>2 DEF Supplied, out
  <2> DEFINE channel == data[ch]
             queue == air[ch]
             slack == reserve - lag
             got == Got(ch)
  <2>4. /\ out \in 1 .. Len(channel) /\ channel \in Seq(KeyTime)
        /\ queue \in Seq(Datagram) /\ Flowing(got, queue, channel, out, slack)
        /\ n \in 1 .. Len(channel) /\ out <= n
        /\ Carried(d) = SubSeq(channel, out + 1, n)
        /\ out < n => d.sentAt + slack <= channel[out]
    BY <1>3, <1>5, <1>6, <1>11, <2>3
  <2> HIDE DEF channel, queue, slack, got
  <2>5. Flowing(got, Append(queue, d), channel, n, slack)
    BY <1>3, <2>4, FlowOn
  <2> QED
    BY <2>5 DEF channel, queue, slack, got
<1> QED
  BY <1>13, <1>14, <1>15

(* The list of a node that starts is what it has got.                      *)
LEMMA TogetherAtStart ==
  ASSUME NEW S, NEW list \in Seq(S), Len(list) >= 1
  PROVE  Together(list, <<Head(list)>>) = list
<1>1. list # << >> /\ Head(list) \in S /\ Head(list) = list[1] /\ Len(list) \in Nat
  <2>1. list # << >> /\ Len(list) \in Nat
    BY EmptySeq
  <2> QED
    BY <2>1
<1> DEFINE one == <<Head(list)>>
<1>2. one \in Seq(S) /\ one # << >> /\ Len(one) = 1 /\ one[1] = list[1]
  BY <1>1
<1> HIDE DEF one
<1> DEFINE all == Together(list, one)
<1>3. /\ all \in Seq(S) /\ Len(all) = Len(one) + Len(list) - 1
      /\ \A i \in 1 .. Len(all) :
           all[i] = IF i <= Len(one) THEN one[i] ELSE list[i - Len(one) + 1]
  <2>1. \A l \in Seq(S), p \in Seq(S) : p # << >> /\ Len(l) >= 1 =>
          LET whole == Together(l, p)
          IN  /\ whole \in Seq(S) /\ Len(whole) = Len(p) + Len(l) - 1
              /\ \A i \in 1 .. Len(whole) :
                   whole[i] = IF i <= Len(p) THEN p[i] ELSE l[i - Len(p) + 1]
    BY TogetherKeys
  <2> QED
    BY <1>2, <2>1, ZenonT(30)
<1> HIDE DEF all
<1>4. Len(all) = Len(list)
  BY <1>1, <1>2, <1>3
<1>5. ASSUME NEW i \in 1 .. Len(all) PROVE all[i] = list[i]
  <2>1. CASE i = 1
    BY <1>2, <1>3, <2>1
  <2>2. CASE i # 1
    <3>1. ~ (i <= 1) /\ i - 1 + 1 = i
      BY <1>1, <1>4, <2>2
    <3> QED
      BY <1>2, <1>3, <3>1
  <2> QED
    BY <2>1, <2>2
<1>6. all = list
  BY <1>3, <1>4, <1>5, SeqEqual
<1> QED
  BY <1>6 DEF all, one

LEMMA TogetherTaken ==
  ASSUME NEW list \in Seq(KeyTime), NEW past \in Seq(KeyTime), NEW new \in Seq(KeyTime),
         past # << >>, Len(list) >= 2
  PROVE  /\ Together(list \o new, past) = Together(list, past) \o new
         /\ Last(list) = Together(list, past)[Len(Together(list, past))]
<1>1. /\ Len(list) \in Nat /\ Len(past) \in Nat /\ Len(past) > 0 /\ Len(new) \in Nat
      /\ Len(list) >= 1
  <2>1. Len(past) # 0 /\ Len(past) \in Nat
    BY EmptySeq
  <2> QED
    BY <2>1
<1> DEFINE long == list \o new
           old == Together(list, past)
           all == Together(long, past)
<1>2. /\ long \in Seq(KeyTime) /\ Len(long) = Len(list) + Len(new)
      /\ \A i \in 1 .. Len(list) + Len(new) :
           long[i] = IF i <= Len(list) THEN list[i] ELSE new[i - Len(list)]
  BY ConcatProperties
<1> HIDE DEF long
<1>3. /\ old \in Seq(KeyTime) /\ Len(old) = Len(past) + Len(list) - 1
      /\ \A i \in 1 .. Len(old) :
           old[i] = IF i <= Len(past) THEN past[i] ELSE list[i - Len(past) + 1]
  BY <1>1, TogetherKeys
<1>4. Len(long) >= 1
  BY <1>1, <1>2
<1>5. /\ all \in Seq(KeyTime) /\ Len(all) = Len(past) + Len(long) - 1
      /\ \A i \in 1 .. Len(all) :
           all[i] = IF i <= Len(past) THEN past[i] ELSE long[i - Len(past) + 1]
  <2>1. \A l \in Seq(KeyTime), p \in Seq(KeyTime) : p # << >> /\ Len(l) >= 1 =>
          LET whole == Together(l, p)
          IN  /\ whole \in Seq(KeyTime) /\ Len(whole) = Len(p) + Len(l) - 1
              /\ \A i \in 1 .. Len(whole) :
                   whole[i] = IF i <= Len(p) THEN p[i] ELSE l[i - Len(p) + 1]
    BY TogetherKeys
  <2> QED
    BY <1>2, <1>4, <2>1, ZenonT(30)
<1> HIDE DEF old, all
<1> DEFINE both == old \o new
<1>6. /\ both \in Seq(KeyTime) /\ Len(both) = Len(old) + Len(new)
      /\ \A i \in 1 .. Len(old) + Len(new) :
           both[i] = IF i <= Len(old) THEN old[i] ELSE new[i - Len(old)]
  BY <1>3, ConcatProperties
<1> HIDE DEF both
<1>7. Len(both) = Len(all) /\ Len(old) \in Nat
  BY <1>1, <1>2, <1>3, <1>5, <1>6
<1>8. ASSUME NEW i \in 1 .. Len(all) PROVE all[i] = both[i]
  <2>0. i \in 1 .. Len(old) + Len(new) /\ i \in Nat
    BY <1>6, <1>7
  <2>1. CASE i <= Len(past)
    <3>1. i \in 1 .. Len(old) /\ i <= Len(old)
      BY <1>1, <1>3, <2>0, <2>1
    <3> QED
      BY <1>3, <1>5, <1>6, <2>0, <2>1, <3>1
  <2>2. CASE ~ (i <= Len(past)) /\ i <= Len(old)
    <3>1. /\ i \in 1 .. Len(old) /\ i - Len(past) + 1 \in 1 .. Len(list)
          /\ i - Len(past) + 1 <= Len(list)
          /\ i - Len(past) + 1 \in 1 .. Len(list) + Len(new)
      BY <1>1, <1>3, <2>0, <2>2
    <3>2. all[i] = list[i - Len(past) + 1]
      BY <1>2, <1>5, <2>2, <3>1
    <3> QED
      BY <1>3, <1>6, <2>0, <2>2, <3>1, <3>2
  <2>3. CASE ~ (i <= Len(past)) /\ ~ (i <= Len(old))
    <3>1. /\ i - Len(past) + 1 \in 1 .. Len(list) + Len(new)
          /\ ~ (i - Len(past) + 1 <= Len(list))
          /\ (i - Len(past) + 1) - Len(list) = i - Len(old)
      BY <1>1, <1>3, <2>0, <2>3
    <3>2. all[i] = new[(i - Len(past) + 1) - Len(list)]
      BY <1>2, <1>5, <2>3, <3>1
    <3> QED
      BY <1>6, <2>0, <2>3, <3>1, <3>2
  <2> QED
    BY <2>1, <2>2, <2>3
<1>9. all = both
  BY <1>5, <1>6, <1>7, <1>8, SeqEqual
<1>10. Last(list) = old[Len(old)]
  <2> DEFINE m == Len(old)
             k == Len(list)
             n == Len(past)
  <2>1. /\ m = n + k - 1 /\ n \in Nat /\ k \in Nat /\ n > 0 /\ k >= 2
        /\ Last(list) = list[k] /\ Last(past) = past[n]
        /\ \A i \in 1 .. m : old[i] = IF i <= n THEN past[i] ELSE list[i - n + 1]
    BY <1>1, <1>3 DEF Last
  <2> HIDE DEF m, k, n
  <2>2. m \in 1 .. m
    BY <2>1
  <2>3. old[m] = IF m <= n THEN past[m] ELSE list[m - n + 1]
    BY <2>1, <2>2
  <2>4. ~ (m <= n) /\ m - n + 1 = k
    BY <2>1
  <2> QED
    BY <2>1, <2>3, <2>4 DEF m
<1> QED
  BY <1>9, <1>10 DEF all, both, old, long

LEMMA UntouchedNode ==
  ASSUME NEW c \in Channel, CompleteInv, Flawless,
         keys'[c] = keys[c], shown'[c] = shown[c], running'[c] = running[c],
         ahead'[c] = ahead[c], air'[c] = air[c], data' = data,
         SentOut(c)' = SentOut(c), Reserve' = Reserve,
         UNCHANGED <<reserve, lag, thread>>
  PROVE  ToldToPlay(c)' /\ Supplied(c)' /\ Finished(c)'
<1>1. ToldToPlay(c) /\ Supplied(c) /\ Finished(c)
  BY DEF CompleteInv
<1>2. ToldToPlay(c)'
  BY <1>1 DEF ToldToPlay
<1>3. Supplied(c)'
  <2>1. (Listening(c)' <=> Listening(c)) /\ Got(c)' = Got(c)
    BY DEF Listening, Got
  <2> QED
    BY <1>1, <2>1 DEF Supplied
<1>4. Finished(c)'
  BY <1>1 DEF Finished
<1> QED
  BY <1>2, <1>3, <1>4

InOrder(s) == \A i, j \in 1 .. Len(s) : i <= j => s[i] <= s[j]

(* The keys up to a have come, and now come those up to b.                 *)
InTurn(channel, list, past, new, a, b) ==
  /\ channel \in Seq(KeyTime) /\ InOrder(channel)
  /\ list \in Seq(KeyTime) /\ past \in Seq(KeyTime) /\ new \in Seq(KeyTime)
  /\ past # << >> /\ Len(list) >= 2
  /\ a \in 1 .. Len(channel) /\ b \in 1 .. Len(channel) /\ a <= b
  /\ Together(list, past) = SubSeq(channel, 1, a)
  /\ new = SubSeq(channel, a + 1, b)

(* The page that comes in its turn is inserted as a whole.                 *)
LEMMA PageComes ==
  ASSUME NEW channel, NEW list, NEW past, NEW new, NEW a, NEW b,
         InTurn(channel, list, past, new, a, b)
  PROVE  Together(InsertAll(list, new), past) = SubSeq(channel, 1, b)
<1> USE DEF InTurn
<1>1. Len(channel) \in Nat /\ a \in Nat /\ b \in Nat /\ a <= Len(channel) /\ b <= Len(channel)
      /\ a >= 1
  OBVIOUS
<1>2. /\ Together(list \o new, past) = Together(list, past) \o new
      /\ Last(list) = Together(list, past)[Len(Together(list, past))]
  BY TogetherTaken
<1>3. /\ Len(SubSeq(channel, 1, a)) = a
      /\ \A i \in 1 .. a : SubSeq(channel, 1, a)[i] = channel[i]
  BY <1>1, FirstPart
<1>4. Last(list) = channel[a]
  BY <1>1, <1>2, <1>3
<1>5. /\ Len(new) = b - a
      /\ \A i \in 1 .. b - a : new[i] = channel[a + i]
  BY <1>1, Parts
<1>6. \A i \in 1 .. Len(new) : a + i \in 1 .. Len(channel)
  BY <1>1, <1>5
<1>7. \A i \in 1 .. Len(new) : Last(list) <= new[i]
  BY <1>1, <1>4, <1>5, <1>6 DEF InOrder
<1>8. \A i, j \in 1 .. Len(new) : i < j => new[i] <= new[j]
  <2> TAKE i, j \in 1 .. Len(new)
  <2>1. /\ a + i \in 1 .. Len(channel) /\ a + j \in 1 .. Len(channel)
        /\ i < j => a + i <= a + j
        /\ new[i] = channel[a + i] /\ new[j] = channel[a + j]
    BY <1>1, <1>5, <1>6
  <2> QED
    BY <2>1 DEF InOrder
<1>9. KeyTime \in SUBSET Int /\ list # << >>
  BY EmptySeq DEF KeyTime
<1>10. InsertAll(list, new) = list \o new
  BY <1>7, <1>8, <1>9, InsertedAll
<1>11. SubSeq(channel, 1, a) \o SubSeq(channel, a + 1, b) = SubSeq(channel, 1, b)
  BY <1>1, JoinedParts
<1> QED
  BY <1>2, <1>10, <1>11

LEMMA ArriveComplete ==
  ASSUME P!NonEmptyChannels, ShowInv, CompleteInv, Flawless, Flawless',
         NEW ch \in Channel, Arrive(ch)
  PROVE  CompleteInv'
<1>1. PICK i \in 1 .. Len(air[ch]) :
        /\ Receive(ch, air[ch][i].content)
        /\ air' = [air EXCEPT ![ch] = RemoveAt(@, i)]
        /\ overtaken' = (overtaken \/ i > 1)
        /\ UNCHANGED <<animVars, threadVars, now, lag, reserve, lost, stopped>>
  BY DEF Arrive
<1>2. /\ data' = data /\ P!FirstKeyout' = P!FirstKeyout
      /\ \A c \in Channel : SentOut(c)' = SentOut(c)
  BY <1>1, ThreadRests
<1>3. Reserve' = Reserve /\ UNCHANGED <<reserve, lag, thread>> /\ firstTime' = firstTime
  BY <1>1, <1>2 DEF Reserve, threadVars
<1> DEFINE queue == air[ch]
           list == keys[ch]
           past == shown[ch]
           channel == data[ch]
           out == SentOut(ch)
           slack == reserve - lag
           content == air[ch][i].content
           q == RemoveAt(air[ch], 1)
<1>4. /\ channel \in Seq(KeyTime) /\ Len(channel) \in Nat
      /\ queue \in Seq(Datagram) /\ Len(queue) \in Nat
      /\ list \in Seq(KeyTime) /\ Len(list) \in Nat /\ past \in Seq(KeyTime)
      /\ running[ch] \in BOOLEAN
  BY ChannelState
<1>5. i = 1 /\ Len(queue) > 0
  <2>1. ~ (i > 1)
    BY <1>1 DEF Flawless
  <2> QED
    BY <1>4, <2>1
<1>6. air \in [Channel -> Seq(Datagram)] /\ keys \in [Channel -> Seq(KeyTime)]
      /\ shown \in [Channel -> Seq(KeyTime)] /\ running \in [Channel -> BOOLEAN]
      /\ ahead \in [Channel -> Int]
  BY DEF ShowInv, Types
<1>7. air'[ch] = q
  BY <1>1, <1>5, <1>6
<1>8. thread \notin {"upload", "play"}
  BY <1>5, EmptySeq DEF ShowInv, Schedule
<1>9. /\ content.kind = "pl" => past = << >>
      /\ content.kind # "sp"
      /\ past = << >> => ~running[ch]
      /\ running[ch] => Len(list) >= 2
      /\ content.kind = "keys" => Carried(queue[1]) = content.keys
      /\ content.kind # "keys" => Carried(queue[1]) = << >>
      /\ content = queue[1].content
  BY <1>5 DEF ShowInv, Traffic, Flawless, Carried
<1>10. Receive(ch, content)
  BY <1>1
<1>11. ToldToPlay(ch) /\ Supplied(ch) /\ Finished(ch)
  BY DEF CompleteInv
<1>12. /\ Starts(ch, content) =>
            /\ running'[ch] /\ keys'[ch] = list /\ shown'[ch] = <<Head(list)>>
       /\ Takes(ch, content) =>
            /\ running'[ch] /\ running[ch] /\ shown'[ch] = past
            /\ keys'[ch] = InsertAll(list, content.keys)
       /\ ~Starts(ch, content) /\ ~Takes(ch, content) =>
            /\ running'[ch] = running[ch] /\ keys'[ch] = list /\ shown'[ch] = past
            /\ ~running[ch] => ahead'[ch] = ahead[ch]
  <2>1. ~Stops(ch, content)
    BY <1>9 DEF Stops
  <2>2. CASE Starts(ch, content)
    <3>1. /\ running' = [running EXCEPT ![ch] = TRUE] /\ keys' = keys
          /\ shown' = [shown EXCEPT ![ch] = <<Head(keys[ch])>>]
      BY <1>10, <2>2, Receiving
    <3>2. ~Takes(ch, content)
      BY <2>2 DEF Starts, Takes
    <3> QED
      BY <1>6, <2>2, <3>1, <3>2
  <2>3. CASE Takes(ch, content)
    <3>1. /\ running' = running /\ shown' = shown
          /\ keys' = [keys EXCEPT ![ch] = InsertAll(@, content.keys)]
      BY <1>10, <2>3, Receiving
    <3>2. ~Starts(ch, content) /\ running[ch]
      BY <2>3 DEF Starts, Takes
    <3> QED
      BY <1>6, <2>3, <3>1, <3>2
  <2>4. CASE ~Starts(ch, content) /\ ~Takes(ch, content)
    <3>1. CASE Corrects(ch, content)
      <4>1. UNCHANGED <<running, keys, shown>> /\ running[ch]
        BY <1>10, <3>1, Receiving DEF Corrects
      <4> QED
        BY <2>4, <4>1
    <3>2. CASE UNCHANGED nodeVars
      BY <2>4, <3>2 DEF nodeVars
    <3> QED
      BY <1>10, <2>1, <2>4, <3>1, <3>2, Receiving
  <2> QED
    BY <2>2, <2>3, <2>4
<1>13. ASSUME NEW c \in Channel, c # ch
       PROVE  ToldToPlay(c)' /\ Supplied(c)' /\ Finished(c)'
  <2>1. air'[c] = air[c]
    BY <1>1, <1>6, <1>13
  <2>2. /\ \/ keys' = keys
           \/ keys' = [keys EXCEPT ![ch] = InsertAll(@, content.keys)]
        /\ \/ shown' = shown
           \/ shown' = [shown EXCEPT ![ch] = <<Head(keys[ch])>>]
        /\ \/ running' = running
           \/ \E x : running' = [running EXCEPT ![ch] = x]
        /\ \/ ahead' = ahead
           \/ \E x : ahead' = [ahead EXCEPT ![ch] = x]
    BY <1>10, Receiving DEF nodeVars
  <2>3. keys'[c] = keys[c] /\ shown'[c] = shown[c]
    BY <1>6, <1>13, <2>2
  <2>4. running'[c] = running[c]
    BY <1>6, <1>13, <2>2
  <2>5. ahead'[c] = ahead[c]
    BY <1>6, <1>13, <2>2
  <2> QED
    BY <1>2, <1>3, <2>1, <2>3, <2>4, <2>5, UntouchedNode
<1> HIDE DEF content, queue, list, past, channel, out, slack, q
<1>14. list # << >> => <<Head(list)>> # << >>
  OBVIOUS
<1>15. shown'[ch] = << >> => ~running'[ch] /\ Len(keys'[ch]) < 2
  <2> SUFFICES ASSUME shown'[ch] = << >> PROVE ~running'[ch] /\ Len(keys'[ch]) < 2
    OBVIOUS
  <2>1. ~Starts(ch, content)
    BY <1>12
  <2>2. past = << >> /\ ~running[ch] /\ ~Takes(ch, content)
    BY <1>9, <1>12, <2>1 DEF Takes
  <2>3. Len(list) < 2 \/ content.kind = "pl"
    BY <1>8, <1>9, <1>11, <2>2 DEF ToldToPlay, past, list, queue
  <2>4. Len(list) < 2
    <3>1. content.kind = "pl" => ~ (Len(list) >= 2)
      BY <2>1, <2>2 DEF Starts, list
    <3> QED
      BY <1>4, <2>3, <3>1
  <2> QED
    BY <1>12, <2>1, <2>2, <2>4
<1>16. ToldToPlay(ch)'
  BY <1>15 DEF ToldToPlay
<1>17. Finished(ch)'
  <2> SUFFICES ASSUME shown'[ch] # << >>, ~running'[ch]
      PROVE  \E r \in 1 .. Len(data[ch]) :
               /\ shown'[ch] = SubSeq(data[ch], 1, r)
               /\ r # Len(data[ch]) => Reserve < lag + MaxDelay + ahead'[ch]
    BY <1>2, <1>3 DEF Finished
  <2>1. ~Starts(ch, content) /\ ~Takes(ch, content)
    BY <1>12
  <2>2. shown'[ch] = shown[ch] /\ ~running[ch] /\ ahead'[ch] = ahead[ch]
    BY <1>12, <2>1 DEF past
  <2> QED
    BY <1>11, <2>2 DEF Finished
<1>18. Supplied(ch)'
  <2> SUFFICES ASSUME running'[ch]
      PROVE  Flowing(Together(keys'[ch], shown'[ch]), q, channel, out, slack)
    <3>1. Listening(ch)' => running'[ch]
      BY <1>15 DEF Listening
    <3> QED
      BY <1>2, <1>3, <1>7, <3>1 DEF Supplied, Got, channel, out, slack
  <2>1. Listening(ch)
    <3>1. CASE Starts(ch, content)
      BY <1>9, <3>1 DEF Starts, Listening, past
    <3>2. CASE ~Starts(ch, content)
      BY <1>12, <3>2 DEF Listening
    <3> QED
      BY <3>1, <3>2
  <2>2. Flowing(Together(list, past), queue, channel, out, slack)
    BY <1>8, <1>11, <2>1 DEF Supplied, Got, list, past, queue, channel, out, slack
  <2>3. PICK a \in 1 .. Len(channel), b \in 1 .. Len(channel) :
           /\ a <= b /\ Together(list, past) = SubSeq(channel, 1, a)
           /\ Carried(queue[1]) = SubSeq(channel, a + 1, b)
           /\ Flowing(SubSeq(channel, 1, b), q, channel, out, slack)
    <3>1. Received(Together(list, past), queue, channel, out, slack)
      BY <1>4, <1>5, <2>2, FlowIn
    <3>2. RemoveAt(queue, 1) = q
      BY DEF queue, q
    <3> QED
      BY <3>1, <3>2 DEF Received
  <2>4. content.kind # "keys" => a = b
    <3>1. content.kind # "keys" => SubSeq(channel, a + 1, b) = << >>
      BY <1>9, <2>3
    <3>2. a \in Nat /\ b \in Nat /\ a <= b /\ b <= Len(channel)
      BY <1>4, <2>3
    <3> QED
      BY <1>4, <3>1, <3>2, EmptyPart
  <2>5. Together(keys'[ch], shown'[ch]) = SubSeq(channel, 1, b)
    <3>1. CASE Starts(ch, content)
      <4>1. content.kind # "keys" /\ past = << >> /\ Len(list) >= 2
        BY <1>9, <3>1 DEF Starts, list
      <4>2. Together(list, past) = list
        BY <4>1 DEF Together
      <4>3. Together(list, <<Head(list)>>) = list
        BY <1>4, <4>1, TogetherAtStart
      <4> QED
        BY <1>12, <2>3, <2>4, <3>1, <4>1, <4>2, <4>3
    <3>2. CASE Takes(ch, content)
      <4>1. content.kind = "keys" /\ running[ch]
        BY <3>2 DEF Takes
      <4>2. past # << >> /\ Len(list) >= 2
        BY <1>9, <4>1
      <4>3. content.keys \in Seq(KeyTime) /\ content.keys = SubSeq(channel, a + 1, b)
        <5>1. content.keys \in Seq(KeyTime)
          BY <4>1, DatagramTypes DEF ShowInv, content
        <5> QED
          BY <1>9, <2>3, <4>1, <5>1
      <4>4. InOrder(channel)
        BY ChannelKeys DEF ShowInv, channel, InOrder
      <4> DEFINE new == content.keys
      <4>5. new \in Seq(KeyTime) /\ new = SubSeq(channel, a + 1, b)
        BY <4>3
      <4> HIDE DEF new
      <4>6. Together(InsertAll(list, new), past) = SubSeq(channel, 1, b)
        <5>1. InTurn(channel, list, past, new, a, b)
          BY <1>4, <2>3, <4>2, <4>4, <4>5 DEF InTurn
        <5> QED
          BY <5>1, PageComes
      <4> QED
        BY <1>12, <3>2, <4>6 DEF new
    <3>3. CASE ~Starts(ch, content) /\ ~Takes(ch, content)
      <4>1. content.kind # "keys"
        BY <1>12, <3>3 DEF Takes
      <4> QED
        BY <1>12, <2>3, <2>4, <3>3, <4>1
    <3> QED
      BY <3>1, <3>2, <3>3
  <2> QED
    BY <2>3, <2>5
<1> QED
  BY <1>13, <1>16, <1>17, <1>18 DEF CompleteInv

(* A node comes to the last key it has got, and there are more: the next   *)
(* page is late.                                                           *)
LEMMA PageIsLate ==
  ASSUME P!NonEmptyChannels, ShowInv, Flawless, Tick,
         NEW ch \in Channel, NEW r \in 1 .. Len(data[ch]), r # Len(data[ch]),
         Awaits(r, air[ch], data[ch], SentOut(ch), reserve - lag),
         data[ch][r] < now + 1 + ahead[ch]
  PROVE  Reserve < lag' + MaxDelay + ahead[ch]
<1>1. /\ Types /\ Schedule /\ Pace /\ P!IInv /\ PageFollows(ch) /\ Traffic(ch)
  BY DEF ShowInv
<1>2. /\ now \in Nat /\ wake \in Nat /\ lag \in Nat /\ reserve \in Nat
      /\ lastKeyout \in Nat /\ ahead[ch] \in Int /\ MaxDelay \in Nat
      /\ thread \in {"upload", "play", "syncing", "loop", "sleeping", "done"}
      /\ firstTime \in BOOLEAN
  BY <1>1, Constants DEF Types
<1>3. /\ data[ch][r] \in Int /\ data[ch][r] <= now + ahead[ch]
      /\ air[ch] \in Seq(Datagram)
  <2>1. data[ch] \in Seq(KeyTime) /\ air[ch] \in Seq(Datagram)
    BY ChannelState
  <2>2. data[ch][r] \in KeyTime
    BY <2>1
  <2> DEFINE key == data[ch][r]
             lead == ahead[ch]
  <2>3. key \in Int /\ lead \in Int /\ now \in Int /\ key < now + 1 + lead
    BY <1>2, <2>2 DEF KeyTime
  <2>4. key <= now + lead
    <3> HIDE DEF key, lead
    <3> QED
      BY <2>3
  <2> QED
    BY <2>1, <2>3, <2>4
<1>4. /\ thread \notin {"upload", "play"}
      /\ \A i \in 1 .. Len(air[ch]) : now < air[ch][i].sentAt + MaxDelay
      /\ lag' = IF thread = "done" \/ (thread = "sleeping" /\ now < wake)
                  THEN lag ELSE lag + 1
  BY DEF Tick
<1>5. lag' \in Nat /\ lag <= lag'
  BY <1>2, <1>4
<1>6. ASSUME NEW i \in 1 .. Len(air[ch]), Carried(air[ch][i]) # << >>,
             air[ch][i].sentAt + (reserve - lag) <= data[ch][r]
      PROVE  Reserve < lag' + MaxDelay + ahead[ch]
  <2>1. air[ch][i].content.kind = "keys"
    BY <1>6 DEF Carried
  <2>2. ~firstTime
    BY <1>1, <2>1 DEF Traffic
  <2>3. air[ch][i].sentAt \in Nat
    <3>1. air[ch][i] \in Datagram
      BY <1>3
    <3> QED
      BY <3>1 DEF Datagram
  <2>4. now < air[ch][i].sentAt + MaxDelay
    BY <1>4
  <2>5. Reserve = reserve
    BY <2>2 DEF Reserve
  <2> DEFINE key == data[ch][r]
             lead == ahead[ch]
             sentAt == air[ch][i].sentAt
             held == lag'
  <2>6. /\ key \in Int /\ lead \in Int /\ sentAt \in Nat /\ held \in Nat
        /\ key <= now + lead /\ lag <= held
        /\ now < sentAt + MaxDelay /\ sentAt + (reserve - lag) <= key
        /\ now \in Int /\ lag \in Int /\ reserve \in Int /\ MaxDelay \in Int
    BY <1>2, <1>3, <1>5, <1>6, <2>3, <2>4
  <2> HIDE DEF key, lead, sentAt, held
  <2>7. reserve < held + MaxDelay + lead
    BY <2>6
  <2> QED
    BY <2>5, <2>7 DEF held, lead
<1>7. CASE SentOut(ch) = r
  <2>1. /\ Len(data[ch]) \in Nat /\ P!Delivered(ch) \in 0 .. Len(data[ch])
        /\ started
    BY <1>1, <1>4, ChannelKeys DEF Schedule
  <2>2. /\ P!FirstKeyout \in Nat
        /\ P!Delivered(ch) # Len(data[ch]) =>
             /\ P!FirstKeyout <= data[ch][P!Delivered(ch)]
             /\ P!FirstKeyout # KEYTIME_MAX
    BY <1>1, <2>1, KeyoutBound
  <2>3. thread # "sleeping" => P!Delivered(ch) = r
    BY <1>7, <2>1, EmptySeq DEF SentOut, Pending
  <2>4. CASE thread = "sleeping"
    <3>1. page[ch] # << >>
      <4>1. page[ch] = << >> => P!Delivered(ch) = Len(data[ch]) /\ SentOut(ch) = P!Delivered(ch)
        BY <1>1, <2>1, <2>4, EmptySeq DEF PageFollows, SentOut, Pending
      <4> QED
        BY <1>7, <4>1
    <3>2. lastKeyout <= data[ch][r]
      BY <1>1, <1>7, <2>4, <3>1 DEF PageFollows
    <3>3. (IF now < wake THEN wake ELSE now) + reserve = lastKeyout + lag
      BY <1>1, <2>4 DEF Pace
    <3>4. ~firstTime
      BY <1>1, <2>4 DEF Schedule
    <3>5. CASE now < wake
      <4>1. wake + reserve = lastKeyout + lag
        BY <3>3, <3>5
      <4>2. reserve < lag + ahead[ch]
        <5> DEFINE key == data[ch][r]
                   lead == ahead[ch]
        <5>1. /\ key \in Int /\ lead \in Int /\ key <= now + lead
              /\ lastKeyout <= key
          BY <1>2, <1>3, <3>2
        <5> HIDE DEF key, lead
        <5>2. reserve < lag + lead
          BY <1>2, <3>5, <4>1, <5>1
        <5> QED
          BY <5>2 DEF lead
      <4>3. Reserve = reserve
        BY <3>4 DEF Reserve
      <4> DEFINE lead == ahead[ch]
                 held == lag'
      <4>4. /\ lead \in Int /\ held \in Nat /\ lag \in Nat /\ lag <= held
            /\ MaxDelay \in Nat /\ reserve \in Nat /\ reserve < lag + lead
        BY <1>2, <1>5, <4>2
      <4>5. reserve < held + MaxDelay + lead
        <5> HIDE DEF lead, held
        <5> QED
          BY <4>4
      <4> QED
        BY <4>3, <4>5
    <3>6. CASE ~ (now < wake)
      <4>1. lag' = lag + 1
        BY <1>4, <2>4, <3>6
      <4>2. now + reserve = lastKeyout + lag
        BY <3>3, <3>6
      <4>3. reserve <= lag + ahead[ch]
        <5> DEFINE key == data[ch][r]
                   lead == ahead[ch]
        <5>1. /\ key \in Int /\ lead \in Int /\ key <= now + lead
              /\ lastKeyout <= key
          BY <1>2, <1>3, <3>2
        <5> HIDE DEF key, lead
        <5>2. reserve <= lag + lead
          BY <1>2, <4>2, <5>1
        <5> QED
          BY <5>2 DEF lead
      <4>4. Reserve = reserve
        BY <3>4 DEF Reserve
      <4> QED
        BY <1>2, <4>1, <4>3, <4>4
    <3> QED
      BY <3>5, <3>6
  <2>5. CASE thread \in {"syncing", "loop"}
    <3>1. lag' = lag + 1 /\ P!FirstKeyout <= data[ch][r]
      BY <1>4, <2>2, <2>3, <2>5
    <3>2. CASE firstTime
      <4>1. now = lag
        BY <1>1, <2>5, <3>2 DEF Pace
      <4>2. Reserve \in Nat /\ Reserve <= P!FirstKeyout
        BY <2>2, <3>2, Halves DEF Reserve
      <4> DEFINE key == data[ch][r]
                 lead == ahead[ch]
                 kept == Reserve
                 held == lag'
      <4>3. /\ key \in Int /\ lead \in Int /\ kept \in Int /\ held = lag + 1
            /\ lag \in Int /\ MaxDelay \in Nat /\ key <= lag + lead /\ kept <= key
        BY <1>2, <1>3, <2>2, <3>1, <4>1, <4>2
      <4>4. kept < held + MaxDelay + lead
        <5> HIDE DEF key, lead, kept, held
        <5> QED
          BY <4>3
      <4> QED
        BY <4>4
    <3>3. CASE ~firstTime
      <4>1. thread = "loop"
        BY <1>1, <2>5, <3>3 DEF Schedule
      <4>2. now + reserve = lastKeyout + lag /\ lastKeyout <= P!FirstKeyout
        BY <1>1, <3>3, <4>1 DEF Pace
      <4>3. reserve <= lag + ahead[ch]
        <5> DEFINE key == data[ch][r]
                   lead == ahead[ch]
        <5>1. /\ key \in Int /\ lead \in Int /\ key <= now + lead
              /\ P!FirstKeyout <= key
          BY <1>2, <1>3, <3>1
        <5> HIDE DEF key, lead
        <5>2. reserve <= lag + lead
          BY <1>2, <2>2, <4>2, <5>1
        <5> QED
          BY <5>2 DEF lead
      <4>4. Reserve = reserve
        BY <3>3 DEF Reserve
      <4> QED
        BY <1>2, <3>1, <4>3, <4>4
    <3> QED
      BY <1>2, <3>2, <3>3
  <2>6. CASE thread = "done"
    BY <1>1, <2>2, <2>3, <2>6 DEF Schedule, Flawless
  <2> QED
    BY <1>2, <1>4, <2>4, <2>5, <2>6
<1> QED
  BY <1>6, <1>7 DEF Awaits

(* A frame of a node that plays, and what it has got.                      *)
LEMMA PlayingInFrame ==
  ASSUME ShowInv, NEW ch \in Channel, running[ch], Frame(now + 1)
  PROVE  /\ Got(ch)' = Got(ch) /\ shown'[ch] # << >> /\ shown[ch] # << >>
         /\ ~running'[ch] =>
              /\ shown'[ch] = Got(ch)
              /\ Got(ch)[Len(Got(ch))] < now + 1 + ahead[ch]
<1>1. Types /\ (\A c \in Channel : Traffic(c)) /\ now + 1 \in Nat
  BY DEF ShowInv, Types
<1>2. \E n \in 0 .. Len(keys[ch]) - 1 :
           /\ Len(keys[ch]) >= 2
           /\ keys'[ch] \in Seq(KeyTime) /\ Len(keys'[ch]) = Len(keys[ch]) - n
           /\ \A i \in 1 .. Len(keys'[ch]) : keys'[ch][i] = keys[ch][n + i]
           /\ Len(shown[ch]) \in Nat /\ Len(shown[ch]) > 0
           /\ shown'[ch] \in Seq(KeyTime) /\ Len(shown'[ch]) = Len(shown[ch]) + n
           /\ \A i \in 1 .. Len(shown'[ch]) :
                shown'[ch][i] = IF i <= Len(shown[ch]) THEN shown[ch][i]
                                ELSE keys[ch][i - Len(shown[ch]) + 1]
           /\ shown'[ch] # << >> /\ Last(shown'[ch]) = Head(keys'[ch])
           /\ running'[ch] <=> n + 1 < Len(keys[ch])
           /\ \A i \in 1 .. n : keys[ch][i + 1] < now + 1 + ahead[ch]
  BY <1>1, NodeFrame
<1> DEFINE list == keys[ch]
           past == shown[ch]
           rest == keys'[ch]
           all == shown'[ch]
           time == now + 1 + ahead[ch]
<1>3. PICK n \in 0 .. Len(list) - 1 :
           /\ Len(list) >= 2
           /\ rest \in Seq(KeyTime) /\ Len(rest) = Len(list) - n
           /\ \A i \in 1 .. Len(rest) : rest[i] = list[n + i]
           /\ Len(past) \in Nat /\ Len(past) > 0
           /\ all \in Seq(KeyTime) /\ Len(all) = Len(past) + n
           /\ \A i \in 1 .. Len(all) :
                all[i] = IF i <= Len(past) THEN past[i]
                         ELSE list[i - Len(past) + 1]
           /\ all # << >>
           /\ running'[ch] <=> n + 1 < Len(list)
           /\ \A i \in 1 .. n : list[i + 1] < time
  BY <1>2
<1>4. list \in Seq(KeyTime) /\ past \in Seq(KeyTime) /\ Len(list) \in Nat
  BY <1>1 DEF Types
<1>5. Got(ch) = Together(list, past) /\ Got(ch)' = Together(rest, all)
  BY DEF Got
<1> HIDE DEF list, past, rest, all, time
<1>6. Together(rest, all) = Together(list, past)
  <2>1. FrameOf(list, past, n, rest, all)
    BY <1>3, <1>4 DEF FrameOf
  <2> QED
    BY <2>1, TogetherInFrame
<1>7. past # << >>
  BY <1>3, EmptySeq
<1>8. ASSUME ~running'[ch]
      PROVE  /\ all = Together(list, past)
             /\ Together(list, past)[Len(Together(list, past))] < time
  <2>1. n + 1 = Len(list) /\ Len(rest) = 1 /\ n \in 1 .. n /\ n \in Nat
    BY <1>3, <1>4, <1>8
  <2>2. Together(rest, all) = all
    <3>1. rest # << >>
      BY <2>1, EmptySeq
    <3>2. Tail(rest) \in Seq(KeyTime) /\ Len(Tail(rest)) = 0
      BY <1>3, <2>1, <3>1
    <3>3. Tail(rest) = << >>
      BY <3>2, EmptySeq
    <3>4. all \o << >> = all
      BY <1>3, ConcatEmptySeq
    <3> QED
      BY <1>3, <3>3, <3>4 DEF Together
  <2>3. Last(list) = Together(list, past)[Len(Together(list, past))]
    <3>1. << >> \in Seq(KeyTime)
      BY EmptySeq
    <3> QED
      BY <1>3, <1>4, <1>7, <3>1, TogetherTaken
  <2>4. Last(list) = list[n + 1]
    BY <2>1 DEF Last
  <2>5. list[n + 1] < time
    BY <1>3, <2>1
  <2> QED
    BY <1>6, <2>2, <2>3, <2>4, <2>5
<1> QED
  BY <1>3, <1>5, <1>6, <1>7, <1>8 DEF past, all, time

LEMMA TickComplete ==
  ASSUME P!NonEmptyChannels, ShowInv, CompleteInv, Flawless, Tick
  PROVE  CompleteInv'
<1>1. /\ UNCHANGED <<animVars, threadVars, reserve>> /\ air' = air
      /\ Frame(now + 1) /\ thread' = thread /\ firstTime' = firstTime
      /\ thread \notin {"upload", "play"}
      /\ lag' = IF thread = "done" \/ (thread = "sleeping" /\ now < wake)
                  THEN lag ELSE lag + 1
  BY DEF Tick, threadVars
<1>2. /\ data' = data /\ P!FirstKeyout' = P!FirstKeyout
      /\ \A c \in Channel : SentOut(c)' = SentOut(c)
  BY <1>1, ThreadRests
<1>3. Reserve' = Reserve
  BY <1>1, <1>2 DEF Reserve
<1>4. /\ Types /\ (\A c \in Channel : Traffic(c)) /\ now + 1 \in Nat
      /\ lag \in Nat /\ lag' \in Nat /\ lag <= lag' /\ reserve \in Nat
      /\ MaxDelay \in Nat
  BY <1>1, Constants DEF ShowInv, Types
<1>5. Reserve \in Int
  <2>1. thread # "upload" => started
    BY DEF ShowInv, Schedule
  <2>2. P!FirstKeyout \in Nat
    BY <1>1, <2>1, KeyoutBound DEF ShowInv
  <2> QED
    BY <1>4, <2>2, Halves DEF Reserve
<1>6. SUFFICES ASSUME NEW ch \in Channel
               PROVE  ToldToPlay(ch)' /\ Supplied(ch)' /\ Finished(ch)'
  BY DEF CompleteInv
<1>7. ToldToPlay(ch) /\ Supplied(ch) /\ Finished(ch)
  BY DEF CompleteInv
<1>8. /\ ahead' = ahead /\ ahead[ch] \in Int
      /\ ~running[ch] => /\ keys'[ch] = keys[ch] /\ shown'[ch] = shown[ch]
                         /\ ~running'[ch]
  <2>1. \A c \in Channel : running[c] => Len(keys[c]) >= 2
    BY <1>4 DEF Traffic
  <2>2. ahead[ch] \in Int
    BY <1>4 DEF Types
  <2> QED
    BY <1>1, <1>4, <2>1, <2>2, Framing
<1>9. running[ch] =>
        /\ Got(ch)' = Got(ch) /\ shown'[ch] # << >> /\ shown[ch] # << >>
        /\ ~running'[ch] =>
             /\ shown'[ch] = Got(ch)
             /\ Got(ch)[Len(Got(ch))] < now + 1 + ahead[ch]
  BY <1>1, PlayingInFrame
<1>10. /\ data[ch] \in Seq(KeyTime) /\ Len(data[ch]) \in Nat
       /\ air[ch] \in Seq(Datagram) /\ reserve - lag \in Int
       /\ running[ch] \in BOOLEAN
  BY ChannelState
<1>11. ToldToPlay(ch)'
  BY <1>1, <1>7, <1>8, <1>9, <1>10 DEF ToldToPlay
<1>12. Supplied(ch)'
  <2> SUFFICES ASSUME Listening(ch)'
      PROVE  Flowing(Got(ch)', air[ch], data[ch], SentOut(ch), reserve - lag')
    BY <1>1, <1>2 DEF Supplied
  <2>1. Listening(ch) /\ Got(ch)' = Got(ch)
    BY <1>8, <1>9, <1>10 DEF Listening, Got
  <2>2. Flowing(Got(ch), air[ch], data[ch], SentOut(ch), reserve - lag)
    BY <1>1, <1>7, <2>1 DEF Supplied
  <2>3. reserve - lag' \in Int /\ reserve - lag' <= reserve - lag
    <3>1. \A a, b, c \in Nat : b <= c => a - c \in Int /\ a - c <= a - b
      OBVIOUS
    <3> QED
      BY <1>4, <3>1
  <2> DEFINE got == Got(ch)
             queue == air[ch]
             channel == data[ch]
             out == SentOut(ch)
             less == reserve - lag'
             slack == reserve - lag
  <2>4. /\ queue \in Seq(Datagram) /\ channel \in Seq(KeyTime)
        /\ slack \in Int /\ less \in Int /\ less <= slack
        /\ Flowing(got, queue, channel, out, slack)
    BY <1>10, <2>2, <2>3
  <2> HIDE DEF got, queue, channel, out, less, slack
  <2>5. Flowing(got, queue, channel, out, less)
    BY <2>4, FlowLessSlack
  <2> QED
    BY <2>1, <2>5 DEF got, queue, channel, out, less
<1>13. Finished(ch)'
  <2> SUFFICES ASSUME shown'[ch] # << >>, ~running'[ch]
      PROVE  \E r \in 1 .. Len(data[ch]) :
               /\ shown'[ch] = SubSeq(data[ch], 1, r)
               /\ r # Len(data[ch]) => Reserve < lag' + MaxDelay + ahead[ch]
    BY <1>2, <1>3, <1>8 DEF Finished
  <2>1. CASE ~running[ch]
    <3>1. PICK r \in 1 .. Len(data[ch]) :
            /\ shown[ch] = SubSeq(data[ch], 1, r)
            /\ r # Len(data[ch]) => Reserve < lag + MaxDelay + ahead[ch]
      BY <1>7, <1>8, <2>1 DEF Finished
    <3>2. r # Len(data[ch]) => Reserve < lag' + MaxDelay + ahead[ch]
      BY <1>4, <1>5, <1>8, <3>1
    <3> QED
      BY <1>8, <2>1, <3>1, <3>2
  <2>2. CASE running[ch]
    <3>1. Flowing(Got(ch), air[ch], data[ch], SentOut(ch), reserve - lag)
      BY <1>1, <1>7, <2>2 DEF Supplied, Listening
    <3>2. \E r \in 1 .. Len(data[ch]) :
            /\ Got(ch) = SubSeq(data[ch], 1, r)
            /\ Awaits(r, air[ch], data[ch], SentOut(ch), reserve - lag)
      BY <1>10, <3>1, FlowNext
    <3>3. PICK r \in 1 .. Len(data[ch]) :
            /\ Got(ch) = SubSeq(data[ch], 1, r)
            /\ Awaits(r, air[ch], data[ch], SentOut(ch), reserve - lag)
      BY <3>2
    <3>4. Got(ch)[Len(Got(ch))] = data[ch][r]
      <4>1. r \in Nat /\ r <= Len(data[ch]) /\ r \in 1 .. r
        BY <1>10
      <4>2. /\ Len(SubSeq(data[ch], 1, r)) = r
            /\ \A i \in 1 .. r : SubSeq(data[ch], 1, r)[i] = data[ch][i]
        BY <1>10, <4>1, FirstPart
      <4> QED
        BY <3>3, <4>1, <4>2
    <3>5. shown'[ch] = SubSeq(data[ch], 1, r) /\ data[ch][r] < now + 1 + ahead[ch]
      BY <1>9, <2>2, <3>3, <3>4
    <3>6. r # Len(data[ch]) => Reserve < lag' + MaxDelay + ahead[ch]
      BY <3>3, <3>5, PageIsLate
    <3> QED
      BY <3>5, <3>6
  <2> QED
    BY <1>10, <2>1, <2>2
<1> QED
  BY <1>11, <1>12, <1>13

LEMMA QuietSteps ==
  ASSUME P!NonEmptyChannels, ShowInv, CompleteInv, Flawless,
         UNCHANGED <<air, nodeVars, lag, firstTime, reserve>>,
         UNCHANGED animVars, page' = page,
         thread = "sleeping" <=> thread' = "sleeping",
         thread' \in {"upload", "play"} <=> thread \in {"upload", "play"},
         thread' = "upload" <=> thread = "upload"
  PROVE  CompleteInv'
<1>1. data' = data /\ \A ch \in Channel : SentOut(ch)' = SentOut(ch)
  BY SendsNothing
<1>2. P!FirstKeyout' = P!FirstKeyout
  BY PagingRests DEF ShowInv
<1>3. Reserve' = Reserve
  BY <1>2 DEF Reserve
<1> QED
  BY <1>1, <1>3, QuietComplete

LEMMA StepComplete ==
  ASSUME P!NonEmptyChannels, ShowInv, CompleteInv, [Next]_vars
  PROVE  CompleteInv'
<1>1. SUFFICES ASSUME Flawless' PROVE CompleteInv'
  BY DEF CompleteInv
<1>2. Flawless
  BY <1>1, FlawlessBefore
<1>3. Types /\ Schedule /\ P!IInv
  BY DEF ShowInv
<1>4. CASE BroadcastPlay
  <2> DEFINE content == [kind |-> "pl"]
  <2>1. content \in Content /\ content.kind # "keys" /\ content.kind = "pl"
    BY DEF Content
  <2> HIDE DEF content
  <2>2. /\ UNCHANGED animVars /\ page' = page /\ UNCHANGED nodeVars
        /\ thread = "sleeping" <=> thread' = "sleeping"
        /\ Broadcast(ToAll(content)) /\ thread = "play"
        /\ UNCHANGED <<reserve, lag>> /\ firstTime' = firstTime
    BY <1>4 DEF BroadcastPlay, content, faultVars
  <2>3. data' = data /\ \A ch \in Channel : SentOut(ch)' = SentOut(ch)
    BY <2>2, SendsNothing
  <2>4. Reserve' = Reserve
    BY <1>3, <2>2, PagingRests DEF Reserve
  <2>5. \A ch \in Channel : air[ch] = << >>
    BY <1>3, <2>2 DEF Schedule
  <2>6. thread # "upload"
    BY <2>2
  <2> QED
    BY <1>2, <2>1, <2>2, <2>3, <2>4, <2>5, <2>6, CommandComplete
<1>5. CASE CorrectDrift
  <2>1. /\ UNCHANGED animVars /\ page' = page /\ UNCHANGED nodeVars
        /\ thread = "syncing" /\ thread' = "loop"
        /\ UNCHANGED <<reserve, lag, firstTime>>
    BY <1>5 DEF CorrectDrift, faultVars
  <2>2. CASE UNCHANGED air
    BY <1>2, <2>1, <2>2, QuietSteps
  <2>3. CASE \E first \in Channel, error \in -MaxError .. MaxError :
               Broadcast(ToAll([kind |-> "ss",
                                timeDrift |-> -(ahead[first] + error)]))
    <3>1. PICK first \in Channel, error \in -MaxError .. MaxError :
            Broadcast(ToAll([kind |-> "ss", timeDrift |-> -(ahead[first] + error)]))
      BY <2>3
    <3> DEFINE content == [kind |-> "ss", timeDrift |-> -(ahead[first] + error)]
    <3>2. ahead[first] \in Int /\ error \in Int
      BY StreamingAssumption DEF ShowInv, Types
    <3>3. content \in Content /\ content.kind # "keys"
      BY <3>2 DEF Content
    <3> HIDE DEF content
    <3>4. Broadcast(ToAll(content))
      BY <3>1 DEF content
    <3>5. data' = data /\ \A ch \in Channel : SentOut(ch)' = SentOut(ch)
      BY <2>1, SendsNothing
    <3>6. Reserve' = Reserve
      BY <1>3, <2>1, PagingRests DEF Reserve
    <3>7. thread \notin {"upload", "play"} /\ thread # "upload"
      BY <2>1
    <3> QED
      BY <1>2, <2>1, <3>3, <3>4, <3>5, <3>6, <3>7, CommandComplete
  <2> QED
    BY <1>5, <2>2, <2>3 DEF CorrectDrift
<1>6. CASE Loop
  <2>1. data' = data /\ \A ch \in Channel : SentOut(ch)' = SentOut(ch)
    BY <1>6, LoopSendsNothing
  <2>2. Reserve' = Reserve
    <3>1. /\ ~firstTime'
          /\ reserve' = IF firstTime THEN (P!FirstKeyout + 1) \div 2 ELSE reserve
      BY <1>6, SamePaging DEF Loop
    <3> QED
      BY <3>1 DEF Reserve
  <2>3. /\ UNCHANGED <<air, nodeVars, lag>> /\ (reserve' = reserve \/ firstTime)
        /\ thread = "loop" /\ thread' = "sleeping"
    BY <1>6 DEF Loop
  <2> QED
    BY <1>2, <2>1, <2>2, <2>3, QuietComplete
<1>7. CASE EndLoop
  <2>1. /\ UNCHANGED <<air, nodeVars, lag, firstTime, reserve>>
        /\ UNCHANGED animVars /\ page' = page /\ thread = "loop" /\ thread' = "done"
    BY <1>7 DEF EndLoop, faultVars
  <2> QED
    BY <1>2, <2>1, QuietSteps
<1>8. CASE UNCHANGED vars
  <2>1. /\ UNCHANGED <<air, nodeVars, lag, firstTime, reserve>>
        /\ UNCHANGED animVars /\ page' = page /\ thread' = thread
    BY <1>8 DEF vars, faultVars, threadVars
  <2> QED
    BY <1>2, <2>1, QuietSteps
<1>9. ~Stop /\ \A ch \in Channel : ~Lose(ch)
  BY <1>1, <1>3 DEF Stop, Lose, Flawless, Types
<1>10. CASE \E ch \in Channel : Arrive(ch)
  BY <1>1, <1>2, <1>10, ArriveComplete
<1>11. CASE Upload \/ SendKeys \/ Tick
  BY <1>2, <1>11, UploadComplete, SendKeysComplete, TickComplete
<1> QED
  BY <1>4, <1>5, <1>6, <1>7, <1>8, <1>9, <1>10, <1>11 DEF Next, PlayThread

LEMMA PrefixOf ==
  ASSUME NEW s \in Seq(KeyTime), NEW t \in Seq(KeyTime), Len(s) <= Len(t),
         \A i \in 1 .. Len(s) : s[i] = t[i]
  PROVE  IsPrefix(s, t)
<1>1. Len(s) \in Nat /\ 0 + Len(s) = Len(s) /\ \A i \in 1 .. Len(s) : 0 + i = i
  OBVIOUS
<1>2. \A i \in 1 .. Len(s) : s[i] = t[0 + i]
  BY <1>1
<1>3. s = SubSeq(t, 0 + 1, Len(s))
  BY <1>1, <1>2, PartOf
<1>4. s = SubSeq(s, 1, Len(s))
  BY WholePart
<1> QED
  BY <1>3, <1>4 DEF IsPrefix

LEMMA GotFirst ==
  ASSUME NEW list \in Seq(KeyTime), NEW past \in Seq(KeyTime),
         NEW channel \in Seq(KeyTime), past # << >>, Len(list) >= 1,
         \E r \in 1 .. Len(channel) : Together(list, past) = SubSeq(channel, 1, r)
  PROVE  IsPrefix(past, channel)
<1>1. PICK r \in 1 .. Len(channel) : Together(list, past) = SubSeq(channel, 1, r)
  OBVIOUS
<1>2. /\ r \in Nat /\ r <= Len(channel) /\ Len(channel) \in Nat
      /\ Len(past) \in Nat /\ Len(list) \in Nat
  OBVIOUS
<1>3. /\ Len(SubSeq(channel, 1, r)) = r
      /\ \A i \in 1 .. r : SubSeq(channel, 1, r)[i] = channel[i]
  BY <1>2, FirstPart
<1> DEFINE all == Together(list, past)
<1>4. /\ Len(all) = Len(past) + Len(list) - 1
      /\ \A i \in 1 .. Len(all) :
           all[i] = IF i <= Len(past) THEN past[i] ELSE list[i - Len(past) + 1]
  BY TogetherKeys
<1>5. /\ Len(all) = r /\ \A i \in 1 .. r : all[i] = channel[i]
  BY <1>1, <1>3
<1> HIDE DEF all
<1>6. Len(past) <= r
  BY <1>2, <1>4, <1>5
<1>7. \A i \in 1 .. Len(past) : i \in 1 .. r /\ i <= Len(past)
  BY <1>2, <1>6
<1>8. \A i \in 1 .. Len(past) : past[i] = channel[i]
  BY <1>4, <1>5, <1>7
<1>9. Len(past) <= Len(channel)
  BY <1>2, <1>6
<1> QED
  BY <1>8, <1>9, PrefixOf

LEMMA CompleteShow ==
  ASSUME P!NonEmptyChannels, ShowInv, CompleteInv PROVE ShowIsComplete
<1>1. SUFFICES ASSUME NEW ch \in Channel, Flawless,
                      lag + MaxDelay + ahead[ch] <= reserve
               PROVE  /\ IsPrefix(shown[ch], data[ch])
                      /\ shown[ch] # << >> /\ ~running[ch] => shown[ch] = data[ch]
  BY DEF ShowIsComplete, Flawless
<1>2. /\ data[ch] \in Seq(KeyTime) /\ Len(data[ch]) \in Nat
      /\ air[ch] \in Seq(Datagram) /\ keys[ch] \in Seq(KeyTime)
      /\ shown[ch] \in Seq(KeyTime) /\ running[ch] \in BOOLEAN
      /\ ahead[ch] \in Int /\ reserve \in Nat /\ lag \in Nat /\ MaxDelay \in Nat
  BY ChannelState, Constants
<1>3. ToldToPlay(ch) /\ Supplied(ch) /\ Finished(ch) /\ Traffic(ch)
  BY <1>1 DEF CompleteInv, ShowInv
<1>4. shown[ch] # << >> => thread # "upload"
  BY DEF ShowInv, Schedule
<1>5. CASE shown[ch] = << >>
  <2>1. IsPrefix(shown[ch], data[ch])
    <3>1. << >> \in Seq(KeyTime) /\ Len(<< >>) = 0
      BY EmptySeq
    <3>2. Len(<< >>) <= Len(data[ch]) /\ \A i \in 1 .. Len(<< >>) : FALSE
      BY <1>2, <3>1
    <3> QED
      BY <1>2, <1>5, <3>2 DEF IsPrefix
  <2> QED
    BY <1>5, <2>1
<1>6. CASE shown[ch] # << >> /\ running[ch]
  <2>1. Flowing(Got(ch), air[ch], data[ch], SentOut(ch), reserve - lag)
    BY <1>3, <1>4, <1>6 DEF Supplied, Listening
  <2> DEFINE list == keys[ch]
             past == shown[ch]
             channel == data[ch]
  <2>2. /\ list \in Seq(KeyTime) /\ past \in Seq(KeyTime) /\ channel \in Seq(KeyTime)
        /\ past # << >> /\ Len(list) >= 1
    <3>1. Len(list) >= 2 /\ Len(list) \in Nat
      BY <1>2, <1>3, <1>6 DEF Traffic
    <3> QED
      BY <1>2, <1>6, <3>1
  <2>3. \E r \in 1 .. Len(channel) : Together(list, past) = SubSeq(channel, 1, r)
    <3>1. PICK cut \in [0 .. Len(air[ch]) -> 1 .. Len(channel)] :
            Flow(Got(ch), air[ch], channel, SentOut(ch), reserve - lag, cut)
      BY <2>1 DEF Flowing
    <3>2. cut[0] \in 1 .. Len(channel)
      <4>1. 0 \in 0 .. Len(air[ch])
        BY <1>2
      <4> QED
        BY <3>1, <4>1
    <3>3. Together(list, past) = SubSeq(channel, 1, cut[0])
      BY <3>1 DEF Flow, Got
    <3> QED
      BY <3>2, <3>3
  <2> HIDE DEF list, past, channel
  <2>4. IsPrefix(past, channel)
    BY <2>2, <2>3, GotFirst
  <2> QED
    BY <1>6, <2>4 DEF past, channel
<1>7. CASE shown[ch] # << >> /\ ~running[ch]
  <2>1. PICK r \in 1 .. Len(data[ch]) :
          /\ shown[ch] = SubSeq(data[ch], 1, r)
          /\ r # Len(data[ch]) => Reserve < lag + MaxDelay + ahead[ch]
    BY <1>3, <1>7 DEF Finished
  <2>2. Reserve \in Nat /\ reserve <= Reserve
    <3>1. P!FirstKeyout \in Nat
      BY <1>4, <1>7, KeyoutBound DEF ShowInv, Schedule
    <3>2. (P!FirstKeyout + 1) \div 2 \in Nat
      BY <3>1, Halves
    <3>3. firstTime => reserve = 0
      BY DEF ShowInv, Pace
    <3> QED
      BY <1>2, <3>2, <3>3 DEF Reserve
  <2>3. ~ (Reserve < lag + MaxDelay + ahead[ch])
    BY <1>1, <1>2, <2>2
  <2>4. shown[ch] = SubSeq(data[ch], 1, Len(data[ch]))
    BY <2>1, <2>3
  <2>5. shown[ch] = data[ch]
    BY <1>2, <2>4, WholePart
  <2>6. \A i \in 1 .. Len(shown[ch]) : shown[ch][i] = data[ch][i]
    BY <2>5
  <2>7. Len(shown[ch]) <= Len(data[ch])
    BY <1>2, <2>5
  <2> QED
    BY <1>2, <2>5, <2>6, <2>7, PrefixOf
<1> QED
  BY <1>5, <1>6, <1>7

(* A node whose show had no fault comes to all the keys of its channel as  *)
(* long as what delays the pages does not exceed the reserve.              *)
THEOREM FlawlessShowsAreComplete ==
  ASSUME P!NonEmptyChannels PROVE Spec => []ShowIsComplete
<1>1. Init => ShowInv /\ CompleteInv
  BY InitShow, InitComplete
<1>2. ShowInv /\ CompleteInv /\ [Next]_vars => ShowInv' /\ CompleteInv'
  BY StepShow, StepComplete
<1>3. ShowInv /\ CompleteInv => ShowIsComplete
  BY CompleteShow
<1> QED
  BY <1>1, <1>2, <1>3, PTL DEF Spec
=============================================================================
