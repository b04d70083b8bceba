----------------------- MODULE BaseAnimation_proofs -----------------------
(***************************************************************************)
(* Proofs about BaseAnimation, for any number of channels, any animation   *)
(* without empty channels, any page sizes and any width of size_t: paging  *)
(* hands out exactly the keys of every channel, and the encoding by index, *)
(* END mark and flag implements the cursors of KeyCursor.                  *)
(* The keyout that paces the streaming never goes back, and says           *)
(* KEYTIME_MAX when, and only when, there is nothing left to send.         *)
(***************************************************************************)
EXTENDS BaseAnimation, SequenceTheorems, WellFoundedInduction, TLAPS

(* An index that is not END has at least one key after it: getNKeys flags  *)
(* END as soon as it sends the last key, so the unsigned subtraction of    *)
(* the next call cannot wrap.                                              *)
Positions ==
  \A ch \in Channel :
    IF started
      THEN \/ keyframePositions[ch] = END
           \/ keyframePositions[ch] + 1 < Len(data[ch])
      ELSE keyframePositions[ch] = 0

IInv == TypeOK /\ Positions /\ NothingLostOrRepeated
------------------------------------------------------------------------------
(* The types of one channel, for the arithmetic of the lemmas below.       *)
LEMMA ChannelTypes ==
  ASSUME NonEmptyChannels, IInv, NEW ch \in Channel
  PROVE  /\ SIZE_MAX \in Nat
         /\ data[ch] \in Seq(Time)
         /\ Len(data[ch]) \in Nat
         /\ 0 < Len(data[ch])
         /\ Len(data[ch]) < SIZE_MAX
         /\ keyframePositions[ch] \in 0 .. SIZE_MAX
         /\ started \in BOOLEAN
         /\ sent[ch] \in Seq(Time)
<1>1. data \in Animation /\ Animation \subseteq [Channel -> Seq(Time)]
  BY AnimationAssumption DEF IInv, TypeOK
<1>2. data[ch] \in Seq(Time)
  BY <1>1
<1>3. Len(data[ch]) > 0
  BY <1>1 DEF NonEmptyChannels
<1>4. Len(data[ch]) < SIZE_MAX
  BY <1>1, AnimationAssumption
<1>5. Len(data[ch]) \in Nat
  BY <1>2
<1> QED
  BY <1>2, <1>3, <1>4, <1>5, AnimationAssumption DEF IInv, TypeOK

(* A page of an open channel in terms of the number of keys delivered.     *)
LEMMA OpenChannelPage ==
  ASSUME NonEmptyChannels, IInv, NEW ch \in Channel, NEW n \in PageSize,
         keyframePositions[ch] # END
  PROVE  /\ Delivered(ch) \in Nat
         /\ Delivered(ch) < Len(data[ch])
         /\ FirstIndex(ch) = Delivered(ch)
         /\ FramesInPage(ch, n) \in 1 .. Len(data[ch]) - Delivered(ch)
         /\ FramesInPage(ch, n) =
              (IF n < Len(data[ch]) - Delivered(ch)
                 THEN n ELSE Len(data[ch]) - Delivered(ch))
         /\ PositionAfter(ch, n) =
              (IF Delivered(ch) + FramesInPage(ch, n) = Len(data[ch])
                 THEN END ELSE Delivered(ch) + FramesInPage(ch, n) - 1)
<1> DEFINE L == Len(data[ch])
           p == keyframePositions[ch]
           D == Delivered(ch)
           F == FramesInPage(ch, n)
<1>1. /\ SIZE_MAX \in Nat /\ L \in Nat /\ 0 < L /\ L < SIZE_MAX
      /\ p \in 0 .. SIZE_MAX /\ started \in BOOLEAN /\ p # SIZE_MAX
  BY ChannelTypes DEF END
<1>2. n \in Nat /\ 1 <= n
  BY AnimationAssumption
<1>3. IF started THEN p + 1 < L ELSE p = 0
  BY DEF IInv, Positions, END
<1>4. D = (IF started THEN p + 1 ELSE 0)
  BY DEF Delivered
<1>5. D \in Nat /\ D < L /\ FirstIndex(ch) = D
  BY <1>1, <1>3, <1>4 DEF FirstIndex
<1>6. Remaining(ch) = L - D
  BY <1>1, <1>3, <1>4 DEF Remaining, Minus
<1>7. F = IF n < L - D THEN n ELSE L - D
  BY <1>1, <1>2, <1>5, <1>6 DEF FramesInPage
<1>8. F \in 1 .. L - D
  BY <1>1, <1>2, <1>5, <1>7
<1> HIDE DEF F, D
<1>9. LastCopied(ch, n) = D + F - 1
  BY <1>1, <1>5, <1>8 DEF LastCopied, F, D
<1>10. Minus(L, 1) = L - 1
  BY <1>1 DEF Minus
<1>11. PositionAfter(ch, n) = IF D + F = L THEN END ELSE D + F - 1
  BY <1>1, <1>5, <1>8, <1>9, <1>10 DEF PositionAfter
<1> QED
  BY <1>5, <1>7, <1>8, <1>11 DEF F, D

(* Whatever the channel, a page moves the cursor by n or to the end, and   *)
(* the keys copied are the ones between the two cursors.                   *)
LEMMA PageLemma ==
  ASSUME NonEmptyChannels, IInv, NEW ch \in Channel, NEW n \in PageSize
  PROVE  /\ PositionAfter(ch, n) \in 0 .. SIZE_MAX
         /\ \/ PositionAfter(ch, n) = END
            \/ PositionAfter(ch, n) + 1 < Len(data[ch])
         /\ PageOf(ch, n) \in Seq(Time)
         /\ (IF PositionAfter(ch, n) = END
               THEN Len(data[ch]) ELSE PositionAfter(ch, n) + 1)
              = Delivered(ch) + Len(PageOf(ch, n))
         /\ Delivered(ch) \in Nat
         /\ Delivered(ch) + Len(PageOf(ch, n)) =
              (IF Delivered(ch) + n < Len(data[ch])
                 THEN Delivered(ch) + n ELSE Len(data[ch]))
         /\ \A i \in 1 .. Len(PageOf(ch, n)) :
              /\ Delivered(ch) + i \in 1 .. Len(data[ch])
              /\ PageOf(ch, n)[i] = data[ch][Delivered(ch) + i]
<1> DEFINE L == Len(data[ch])
           p == keyframePositions[ch]
<1>1. /\ SIZE_MAX \in Nat /\ L \in Nat /\ 0 < L /\ L < SIZE_MAX
      /\ data[ch] \in Seq(Time) /\ p \in 0 .. SIZE_MAX
      /\ started \in BOOLEAN
  BY ChannelTypes
<1>2. n \in Nat /\ 1 <= n
  BY AnimationAssumption
<1>3. CASE p = END
  <2>1. started
    BY <1>1, <1>3 DEF IInv, Positions, END
  <2>2. Delivered(ch) = L
    BY <1>3, <2>1 DEF Delivered
  <2>3. PageOf(ch, n) = << >> /\ PositionAfter(ch, n) = END
    BY <1>3 DEF PageOf, PositionAfter
  <2> QED
    BY <1>1, <1>2, <2>2, <2>3 DEF END
<1>4. CASE p # END
  <2> DEFINE F == FramesInPage(ch, n)
             D == Delivered(ch)
             P == PositionAfter(ch, n)
             Keys == [i \in 1 .. F |-> KeyAt(ch, FirstIndex(ch) + i - 1)]
  <2>1. /\ D \in Nat /\ D < L /\ FirstIndex(ch) = D /\ F \in 1 .. L - D
        /\ F = (IF n < L - D THEN n ELSE L - D)
        /\ P = (IF D + F = L THEN END ELSE D + F - 1)
    BY <1>4, OpenChannelPage
  <2>2. PageOf(ch, n) = Keys
    BY <1>4 DEF PageOf
  <2> HIDE DEF F, D, P
  <2>3. \A i \in 1 .. F : /\ D + i \in 1 .. L
                          /\ Keys[i] = data[ch][D + i]
                          /\ Keys[i] \in Time
    <3> TAKE i \in 1 .. F
    <3>1. D + i \in 1 .. L /\ (D + i - 1) < L /\ D + i - 1 + 1 = D + i
      BY <1>1, <2>1
    <3>2. Keys[i] = data[ch][D + i]
      BY <3>1, <2>1 DEF KeyAt
    <3>3. data[ch][D + i] \in Time
      BY <1>1, <3>1
    <3> QED
      BY <3>1, <3>2, <3>3
  <2>4. F \in Nat
    BY <1>1, <2>1
  <2>5. Keys \in Seq(Time) /\ Len(Keys) = F
    <3>1. Keys \in [1 .. F -> Time]
      BY <2>3
    <3> HIDE DEF Keys
    <3> QED
      BY <2>4, <3>1
  <2> HIDE DEF Keys
  <2>6. /\ P \in 0 .. SIZE_MAX
        /\ P = END \/ P + 1 < L
        /\ (IF P = END THEN L ELSE P + 1) = D + F
    BY <1>1, <2>1 DEF END
  <2>7. D + F = IF D + n < L THEN D + n ELSE L
    BY <1>1, <1>2, <2>1
  <2> QED
    BY <2>1, <2>2, <2>3, <2>5, <2>6, <2>7 DEF D, P
<1> QED
  BY <1>3, <1>4
------------------------------------------------------------------------------
LEMMA InitEstablishes == Init => IInv
<1> SUFFICES ASSUME Init PROVE IInv
  OBVIOUS
<1>1. SIZE_MAX \in Nat
  BY AnimationAssumption
<1>0. << >> \in Seq(Time) /\ Len(<< >>) = 0
  BY EmptySeq
<1>2. TypeOK
  BY <1>1, <1>0, 0 \in 0 .. SIZE_MAX DEF Init, TypeOK
<1>3. Positions
  BY DEF Init, Positions
<1>4. NothingLostOrRepeated
  <2>1. \A ch \in Channel : sent[ch] = << >> /\ Delivered(ch) = 0
    BY DEF Init, Delivered
  <2>2. \A ch \in Channel : Len(sent[ch]) = 0
    BY <1>0, <2>1
  <2> QED
    BY <2>1, <2>2, 1 .. 0 = {} DEF NothingLostOrRepeated
<1> QED
  BY <1>2, <1>3, <1>4 DEF IInv

LEMMA PagePreserves ==
  ASSUME NonEmptyChannels, IInv, NEW n \in PageSize, GetNKeys(n)
  PROVE  IInv'
<1> USE DEF GetNKeys
<1>1. \A ch \in Channel :
        /\ keyframePositions'[ch] = PositionAfter(ch, n)
        /\ keyframePositions'[ch] \in 0 .. SIZE_MAX
        /\ \/ keyframePositions'[ch] = END
           \/ keyframePositions'[ch] + 1 < Len(data[ch])
        /\ sent'[ch] = sent[ch] \o PageOf(ch, n)
        /\ sent'[ch] \in Seq(Time)
        /\ Len(sent'[ch]) = Delivered(ch)'
        /\ \A i \in 1 .. Len(sent'[ch]) : sent'[ch][i] = data[ch][i]
  <2> TAKE ch \in Channel
  <2> DEFINE S == sent[ch]
             Q == PageOf(ch, n)
             P == PositionAfter(ch, n)
  <2>1. /\ Q \in Seq(Time) /\ P \in 0 .. SIZE_MAX
        /\ P = END \/ P + 1 < Len(data[ch])
        /\ (IF P = END THEN Len(data[ch]) ELSE P + 1) = Delivered(ch) + Len(Q)
        /\ \A i \in 1 .. Len(Q) : Q[i] = data[ch][Delivered(ch) + i]
    BY PageLemma
  <2>2. /\ S \in Seq(Time) /\ Len(S) = Delivered(ch)
        /\ \A i \in 1 .. Len(S) : S[i] = data[ch][i]
    BY DEF IInv, TypeOK, NothingLostOrRepeated
  <2>3. keyframePositions'[ch] = P /\ sent'[ch] = S \o Q
    OBVIOUS
  <2> HIDE DEF S, Q, P
  <2>4. /\ S \o Q \in Seq(Time) /\ Len(S \o Q) = Len(S) + Len(Q)
        /\ \A i \in 1 .. Len(S) + Len(Q) :
             (S \o Q)[i] = IF i <= Len(S) THEN S[i] ELSE Q[i - Len(S)]
    BY <2>1, <2>2, ConcatProperties
  <2>5. Delivered(ch)' = Len(S) + Len(Q)
    BY <2>1, <2>2, <2>3 DEF Delivered
  <2>6. ASSUME NEW i \in 1 .. Len(S \o Q)
        PROVE  (S \o Q)[i] = data[ch][i]
    <3>1. CASE i <= Len(S)
      BY <2>1, <2>2, <3>1
    <3>2. CASE i > Len(S)
      <4>1. i - Len(S) \in 1 .. Len(Q) /\ Len(S) + (i - Len(S)) = i
        BY <2>1, <2>2, <2>4, <3>2
      <4>2. (S \o Q)[i] = Q[i - Len(S)]
        BY <2>1, <2>2, <2>4, <3>2
      <4> QED
        BY <2>1, <2>2, <4>1, <4>2
    <3> QED
      BY <2>1, <2>2, <2>4, <3>1, <3>2
  <2> QED
    BY <2>1, <2>3, <2>4, <2>5, <2>6 DEF P, S, Q
<1>2. TypeOK'
  BY <1>1 DEF TypeOK, IInv
<1>3. Positions'
  BY <1>1 DEF Positions, END
<1>4. NothingLostOrRepeated'
  BY <1>1 DEF NothingLostOrRepeated
<1> QED
  BY <1>2, <1>3, <1>4 DEF IInv

LEMMA StepPreserves ==
  ASSUME NonEmptyChannels, IInv, [Next]_vars
  PROVE  IInv'
<1>1. ASSUME NEW n \in PageSize, GetNKeys(n) PROVE IInv'
  BY <1>1, PagePreserves
<1>2. CASE Reset
  <2>1. SIZE_MAX \in Nat /\ << >> \in Seq(Time) /\ Len(<< >>) = 0
    BY EmptySeq, AnimationAssumption
  <2>2. TypeOK'
    BY <1>2, <2>1, 0 \in 0 .. SIZE_MAX DEF Reset, IInv, TypeOK
  <2>3. Positions'
    BY <1>2 DEF Reset, Positions
  <2>4. NothingLostOrRepeated'
    BY <1>2, <2>1 DEF Reset, NothingLostOrRepeated, Delivered
  <2> QED
    BY <2>2, <2>3, <2>4 DEF IInv
<1>3. CASE UNCHANGED vars
  BY <1>3 DEF vars, IInv, TypeOK, Positions, NothingLostOrRepeated, Delivered
<1> QED
  BY <1>1, <1>2, <1>3 DEF Next

LEMMA Inductive == ASSUME NonEmptyChannels PROVE Spec => []IInv
<1> QED
  BY InitEstablishes, StepPreserves, PTL DEF Spec

(* The indices, the flag and the keys handed out keep their types: no      *)
(* index ever leaves the range of size_t, and nothing but keyframes of the *)
(* animation is handed out.                                                *)
THEOREM TypeCorrect == ASSUME NonEmptyChannels PROVE Spec => []TypeOK
<1>1. IInv => TypeOK
  BY DEF IInv
<1> QED
  BY <1>1, Inductive, PTL

(* BaseAnimation::getNKeys loses, repeats and invents no key at a page     *)
(* boundary, for every animation and every sequence of page sizes.         *)
THEOREM PagingIsExact ==
  ASSUME NonEmptyChannels PROVE Spec => []NothingLostOrRepeated
<1>1. IInv => NothingLostOrRepeated
  BY DEF IInv
<1> QED
  BY <1>1, Inductive, PTL
------------------------------------------------------------------------------
LEMMA LeastNumber ==
  ASSUME NEW times \in SUBSET Nat, times # {}
  PROVE  \E t \in times : \A u \in times : t <= u
<1> DEFINE Less == OpToRel(<, Nat)
<1>1. IsWellFoundedOn(Less, Nat)
  BY NatLessThanWellFounded
<1>2. \A t, u \in Nat : <<u, t>> \in Less <=> u < t
  BY DEF OpToRel
<1> HIDE DEF Less
<1>3. PICK t \in times : \A u \in times : ~ (<<u, t>> \in Less)
  <2>1. times \subseteq Nat
    OBVIOUS
  <2> QED
    BY <1>1, <2>1, WFMin
<1>4. ASSUME NEW u \in times PROVE t <= u
  <2>1. t \in Nat /\ u \in Nat
    OBVIOUS
  <2>2. ~ (u < t)
    BY <1>2, <1>3, <2>1
  <2> QED
    BY <2>1, <2>2
<1> QED
  BY <1>4

LEMMA EarliestIsLeast ==
  ASSUME NEW times \in SUBSET Nat, times # {}
  PROVE  /\ Earliest(times) \in times
         /\ \A u \in times : Earliest(times) <= u
BY LeastNumber DEF Earliest

(* When each open channel's node runs out of keys.                         *)
Keyout(ch) == KeyAt(ch, keyframePositions[ch])

(* A reader sees the keys of an open channel end before KEYTIME_MAX.       *)
LEMMA OpenKeyouts ==
  ASSUME NonEmptyChannels, IInv, started, NEW ch \in OpenChannels
  PROVE  /\ Keyout(ch) \in Time
         /\ Keyout(ch) = data[ch][Delivered(ch)]
         /\ Delivered(ch) \in 1 .. Len(data[ch]) - 1
<1>1. ch \in Channel /\ keyframePositions[ch] # END
  BY DEF OpenChannels
<1>2. keyframePositions[ch] + 1 < Len(data[ch])
  BY <1>1 DEF IInv, Positions
<1>3. /\ data[ch] \in Seq(Time) /\ Len(data[ch]) \in Nat
      /\ keyframePositions[ch] \in 0 .. SIZE_MAX /\ SIZE_MAX \in Nat
  BY <1>1, ChannelTypes
<1>4. Delivered(ch) = keyframePositions[ch] + 1
  BY <1>1 DEF Delivered
<1>5. /\ keyframePositions[ch] < Len(data[ch])
      /\ keyframePositions[ch] + 1 \in 1 .. Len(data[ch])
      /\ keyframePositions[ch] + 1 \in 1 .. Len(data[ch]) - 1
  BY <1>2, <1>3
<1>6. data[ch][keyframePositions[ch] + 1] \in Time
  BY <1>3, <1>5
<1> QED
  BY <1>4, <1>5, <1>6 DEF Keyout, KeyAt

Keyouts == {KEYTIME_MAX} \cup {Keyout(ch) : ch \in OpenChannels}

LEMMA FirstKeyoutIsLeast ==
  ASSUME NonEmptyChannels, IInv, started
  PROVE  /\ Keyouts \in SUBSET Nat
         /\ FirstKeyout \in Keyouts
         /\ \A u \in Keyouts : FirstKeyout <= u
<1>1. Keyouts \in SUBSET Nat
  BY OpenKeyouts, AnimationAssumption DEF Keyouts, Time
<1>2. Keyouts # {}
  BY DEF Keyouts
<1>3. FirstKeyout = Earliest(Keyouts)
  BY DEF FirstKeyout, Keyouts, Keyout
<1> QED
  BY <1>1, <1>2, <1>3, EarliestIsLeast

LEMMA KeyoutIsHonest ==
  ASSUME NonEmptyChannels, IInv
  PROVE  KeyoutEndsWithTheLastKey
<1>1. CASE ~started
  <2>1. FirstKeyout = 0 /\ KEYTIME_MAX # 0
    BY <1>1, AnimationAssumption DEF FirstKeyout
  <2> QED
    BY <1>1, <2>1 DEF KeyoutEndsWithTheLastKey
<1>2. CASE started
  <2>1. \A ch \in Channel :
          ch \in OpenChannels <=> Len(sent[ch]) # Len(data[ch])
    <3> TAKE ch \in Channel
    <3>1. CASE ch \in OpenChannels
      <4>1. Delivered(ch) # Len(data[ch])
        BY <1>2, <3>1, OpenKeyouts, ChannelTypes
      <4> QED
        BY <3>1, <4>1 DEF IInv, NothingLostOrRepeated
    <3>2. CASE ch \notin OpenChannels
      BY <1>2, <3>2 DEF IInv, NothingLostOrRepeated, OpenChannels, Delivered
    <3> QED
      BY <3>1, <3>2
  <2>2. CASE OpenChannels = {}
    <3>1. FirstKeyout = KEYTIME_MAX
      BY <1>2, <2>2, FirstKeyoutIsLeast DEF Keyouts
    <3> QED
      BY <1>2, <2>1, <2>2, <3>1 DEF KeyoutEndsWithTheLastKey
  <2>3. ASSUME NEW ch \in OpenChannels PROVE KeyoutEndsWithTheLastKey
    <3>1. Keyout(ch) \in Time /\ Keyout(ch) \in Keyouts
      BY <1>2, OpenKeyouts DEF Keyouts
    <3>2. FirstKeyout <= Keyout(ch) /\ FirstKeyout \in Nat
      BY <1>2, <3>1, FirstKeyoutIsLeast
    <3>3. FirstKeyout # KEYTIME_MAX
      BY <3>1, <3>2, AnimationAssumption DEF Time
    <3>4. ch \in Channel /\ Len(sent[ch]) # Len(data[ch])
      BY <2>1 DEF OpenChannels
    <3> QED
      BY <3>3, <3>4 DEF KeyoutEndsWithTheLastKey
  <2> QED
    BY <2>2, <2>3
<1> QED
  BY <1>1, <1>2 DEF IInv, TypeOK

(* BaseAnimation::getFirstKeyout() answers KEYTIME_MAX exactly when every  *)
(* channel was handed out completely, so the streaming loop neither ends   *)
(* early nor goes on without keys.                                         *)
THEOREM KeyoutIsExact ==
  ASSUME NonEmptyChannels PROVE Spec => []KeyoutEndsWithTheLastKey
<1>1. NonEmptyChannels /\ IInv => KeyoutEndsWithTheLastKey
  BY KeyoutIsHonest
<1> QED
  BY <1>1, Inductive, PTL

(* A page closes channels, opens none and moves no keyout back.            *)
LEMMA PageMovesKeyoutsOn ==
  ASSUME NonEmptyChannels, IInv, started, NEW n \in PageSize, GetNKeys(n)
  PROVE  FirstKeyout <= FirstKeyout'
<1>1. started' /\ data' = data /\ KEYTIME_MAX \in Nat
  BY AnimationAssumption DEF GetNKeys
<1>2. ASSUME NEW ch \in OpenChannels'
      PROVE  /\ ch \in OpenChannels
             /\ Keyout(ch)' \in Time
             /\ Keyout(ch) <= Keyout(ch)'
  <2> DEFINE D == Delivered(ch)
             F == FramesInPage(ch, n)
             L == Len(data[ch])
  <2>1. /\ ch \in Channel
        /\ keyframePositions'[ch] = PositionAfter(ch, n)
        /\ PositionAfter(ch, n) # END
    BY DEF OpenChannels, GetNKeys, END
  <2>2. keyframePositions[ch] # END
    BY <2>1 DEF PositionAfter
  <2>3. ch \in OpenChannels
    BY <2>1, <2>2 DEF OpenChannels
  <2>4. /\ D \in 1 .. L - 1
        /\ Keyout(ch) \in Time /\ Keyout(ch) = data[ch][D]
    BY <2>3, OpenKeyouts
  <2>5. /\ data[ch] \in Seq(Time) /\ L \in Nat
    BY <2>1, ChannelTypes
  <2>6. F \in 1 .. L - D /\ keyframePositions'[ch] = D + F - 1 /\ D + F # L
    BY <2>1, <2>2, OpenChannelPage
  <2> HIDE DEF D, F
  <2>7. /\ D \in 1 .. L /\ D + F \in 1 .. L /\ D < D + F
        /\ D + F - 1 < L /\ D + F - 1 + 1 = D + F
    BY <2>4, <2>5, <2>6
  <2>8. Keyout(ch)' = data[ch][D + F]
    BY <1>1, <2>6, <2>7 DEF Keyout, KeyAt
  <2>9. data[ch][D + F] \in Time
    BY <2>5, <2>7
  <2>10. data[ch][D] <= data[ch][D + F]
    <3>1. Sorted(data[ch])
      BY <2>1, AnimationAssumption DEF IInv, TypeOK
    <3> QED
      BY <2>7, <3>1 DEF Sorted
  <2> QED
    BY <2>3, <2>4, <2>8, <2>9, <2>10
<1>3. Keyouts' \in SUBSET Nat /\ Keyouts' # {}
  BY <1>1, <1>2 DEF Keyouts, Time
<1>4. FirstKeyout' = Earliest(Keyouts')
  BY <1>1 DEF FirstKeyout, Keyouts, Keyout
<1>5. FirstKeyout' \in Keyouts'
  BY <1>3, <1>4, EarliestIsLeast
<1>6. /\ FirstKeyout \in Nat /\ \A u \in Keyouts : FirstKeyout <= u
  BY FirstKeyoutIsLeast
<1>7. ASSUME NEW ch \in OpenChannels' PROVE FirstKeyout <= Keyout(ch)'
  <2>1. Keyout(ch) \in Keyouts /\ Keyout(ch) \in Time
    BY <1>2, OpenKeyouts DEF Keyouts
  <2> QED
    BY <1>2, <1>6, <2>1 DEF Time
<1>8. FirstKeyout <= KEYTIME_MAX
  BY <1>6 DEF Keyouts
<1> QED
  BY <1>5, <1>7, <1>8 DEF Keyouts

(* However the channels take turns at being the earliest, the first keyout *)
(* does not go back while an animation is read: the unsigned difference    *)
(* that internal_start() sleeps for never wraps.                           *)
THEOREM KeyoutsGoForward ==
  ASSUME NonEmptyChannels PROVE Spec => KeyoutNeverGoesBack
<1>1. NonEmptyChannels /\ IInv /\ [Next]_vars
        => [started /\ started' => FirstKeyout <= FirstKeyout']_vars
  <2> SUFFICES ASSUME IInv, started, started', Next
               PROVE  FirstKeyout <= FirstKeyout'
    OBVIOUS
  <2>1. ~Reset
    BY DEF Reset
  <2>2. PICK n \in PageSize : GetNKeys(n)
    BY <2>1 DEF Next
  <2> QED
    BY <2>2, PageMovesKeyoutsOn
<1> QED
  BY <1>1, Inductive, PTL DEF Spec, KeyoutNeverGoesBack
------------------------------------------------------------------------------
LEMMA StepIsCursorStep ==
  ASSUME NonEmptyChannels, IInv, [Next]_vars
  PROVE  [Cursor!CursorNext]_(Cursor!cursorVars)
<1> DEFINE D == [ch \in Channel |-> Delivered(ch)]
<1>1. ASSUME NEW n \in PageSize, GetNKeys(n) PROVE Cursor!Page(n)
  <2>1. \A ch \in Channel :
          Delivered(ch)' = Cursor!AtMost(Delivered(ch) + n, Len(data[ch]))
    <3> TAKE ch \in Channel
    <3> DEFINE P == PositionAfter(ch, n)
    <3>1. (IF P = END THEN Len(data[ch]) ELSE P + 1) =
            (IF Delivered(ch) + n < Len(data[ch])
               THEN Delivered(ch) + n ELSE Len(data[ch]))
      BY <1>1, PageLemma
    <3>2. /\ keyframePositions'[ch] = P /\ started' = TRUE
          /\ data' = data
      BY <1>1 DEF GetNKeys
    <3> HIDE DEF P
    <3> QED
      BY <3>1, <3>2 DEF Delivered, Cursor!AtMost
  <2>2. D' = [ch \in Channel |-> Cursor!AtMost(D[ch] + n, Len(data[ch]))]
    BY <2>1
  <2> QED
    BY <1>1, <2>2 DEF GetNKeys, Cursor!Page
<1>2. CASE Reset
  <2>1. Cursor!Rewind
    BY <1>2 DEF Reset, Cursor!Rewind, Delivered
  <2> QED
    BY <2>1 DEF Cursor!CursorNext
<1>3. CASE UNCHANGED vars
  <2>1. D' = D
    BY <1>3 DEF vars, Delivered
  <2> QED
    BY <1>3, <2>1 DEF vars, Cursor!cursorVars
<1> QED
  BY <1>1, <1>2, <1>3 DEF Next, Cursor!CursorNext

(* Index of the last key sent, END and the first-call flag together mean   *)
(* no more than "so many keys of this channel were handed out": every      *)
(* getNKeys moves each cursor by the page size or to the end of its        *)
(* channel, and only reset() moves it back.                                *)
THEOREM CursorRefinement ==
  ASSUME NonEmptyChannels PROVE Spec => ImplementsCursor
<1>1. Init => Cursor!CursorInit
  BY DEF Init, Cursor!CursorInit, Delivered
<1>2. NonEmptyChannels /\ IInv /\ [Next]_vars
        => [Cursor!CursorNext]_(Cursor!cursorVars)
  BY StepIsCursorStep
<1> QED
  BY <1>1, <1>2, Inductive, PTL DEF Spec, ImplementsCursor, Cursor!CursorSpec
==============================================================================
