--------------------------- MODULE Firmware_proofs ---------------------------
(***************************************************************************)
(* Proofs about Firmware, for any packets, garbage, drift corrections and  *)
(* clock width: a node's play head stays on its list, the list stays in    *)
(* order, only keys that have passed are freed, and frames are drawn       *)
(* between keys of different times once the first two are passed.          *)
(***************************************************************************)
EXTENDS Firmware, SequenceTheorems, TLAPS

(* While generateFrame() skips keys nothing else is under way, and the key *)
(* it has come from has passed.                                            *)
KeyLeftHasPassed ==
  skipping => Playing /\ pending = << >> /\ keys[k1] < Elapsed

IInv ==
  /\ TypeOK /\ PlayheadOnTheList /\ InOrder
  /\ KeyLeftHasPassed /\ DrawnKeysDifferOnceMoved
------------------------------------------------------------------------------
LEMMA NumbersOfKeys ==
  ASSUME TypeOK
  PROVE  /\ Len(keys) \in Nat
         /\ \A i \in 1 .. Len(keys) : keys[i] \in Time /\ keys[i] \in Nat
<1>1. keys \in Seq(Time) /\ Time \subseteq Nat
  BY TimeAssumption DEF TypeOK
<1>2. Len(keys) \in Nat /\ \A i \in 1 .. Len(keys) : keys[i] \in Time
  BY <1>1
<1> QED
  BY <1>1, <1>2

LEMMA ElapsedType ==
  ASSUME TypeOK PROVE Elapsed \in Int
<1>1. clock + timeDrift \in Int /\ W \in Nat \ {0}
  BY FirmwareAssumption DEF TypeOK
<1> QED
  BY <1>1 DEF Elapsed

LEMMA ModuloW == \A n \in Int : n % W \in 0 .. W - 1
<1>1. W \in Nat \ {0}
  BY FirmwareAssumption
<1> QED
  BY <1>1

(* What removeFirst() leaves of an ordered list is an ordered list.        *)
LEMMA RestOfKeys ==
  ASSUME TypeOK, InOrder, keys # << >>, NEW rest, rest = Tail(keys)
  PROVE  /\ rest \in Seq(Time)
         /\ Len(rest) = Len(keys) - 1
         /\ \A i \in 1 .. Len(rest) : rest[i] = keys[i + 1]
         /\ \A i, j \in 1 .. Len(rest) : i < j => rest[i] <= rest[j]
<1>1. /\ rest \in Seq(Time) /\ Len(rest) = Len(keys) - 1 /\ Len(keys) \in Nat
      /\ \A i \in 1 .. Len(rest) : rest[i] = keys[i + 1]
  BY HeadTailProperties, NumbersOfKeys DEF TypeOK
<1>2. ASSUME NEW i \in 1 .. Len(rest), NEW j \in 1 .. Len(rest), i < j
      PROVE  rest[i] <= rest[j]
  <2>1. i + 1 \in 1 .. Len(keys) /\ j + 1 \in 1 .. Len(keys) /\ i + 1 < j + 1
    BY <1>1, <1>2
  <2> QED
    BY <1>1, <2>1 DEF InOrder
<1> QED
  BY <1>1, <1>2

LEMMA InitEstablishes == Init => IInv
<1> SUFFICES ASSUME Init PROVE IInv
  OBVIOUS
<1>1. keys = << >> /\ pending = << >> /\ << >> \in Seq(Time) /\ Len(<< >>) = 0
  BY EmptySeq DEF Init, EmptyQueue
<1>2. 0 \in 0 .. W - 1 /\ 0 \in ChannelId
  BY FirmwareAssumption
<1>3. TypeOK
  BY <1>1, <1>2 DEF Init, TypeOK, States
<1>4. PlayheadOnTheList
  BY DEF Init, PlayheadOnTheList, Playing
<1>5. Len(keys) = 0
  BY <1>1
<1>6. InOrder
  BY <1>5, 1 .. 0 = {} DEF InOrder
<1>7. KeyLeftHasPassed /\ DrawnKeysDifferOnceMoved
  BY DEF Init, KeyLeftHasPassed, DrawnKeysDifferOnceMoved
<1> QED
  BY <1>3, <1>4, <1>6, <1>7 DEF IInv
------------------------------------------------------------------------------
(* The building blocks of the handlers.                                    *)
LEMMA PlayPreserves ==
  ASSUME IInv, ~skipping, NEW state \in {"RUNNING", "CYCLING"}, Play(state)
  PROVE  IInv'
<1> USE DEF Play, StartKeyframeAnimation
<1>1. 0 \in 0 .. W - 1
  BY FirmwareAssumption
<1>2. TypeOK'
  <2>1. 1 \in Nat \ {0} /\ 2 \in Nat \ {0} /\ FALSE \in BOOLEAN /\ state \in States
    BY DEF States
  <2> QED
    BY <1>1, <2>1, Zenon DEF IInv, TypeOK
<1>3. PlayheadOnTheList'
  <2>1. Len(keys) \in Nat /\ Len(keys) >= 2 /\ keys' = keys
    BY NumbersOfKeys DEF IInv
  <2>2. k1' \in 1 .. Len(keys') /\ k2' = k1' + 1 /\ k1' = 1 /\ k1' < Len(keys')
    BY <2>1
  <2>3. Playing'
    BY DEF Playing
  <2>4. k2' # NULL
    BY <2>2, FirmwareAssumption
  <2> QED
    BY <2>1, <2>2, <2>3, <2>4 DEF PlayheadOnTheList
<1>4. KeyLeftHasPassed' /\ DrawnKeysDifferOnceMoved'
  BY DEF KeyLeftHasPassed, DrawnKeysDifferOnceMoved
<1> QED
  BY <1>2, <1>3, <1>4 DEF IInv, InOrder

LEMMA StopPreserves ==
  ASSUME IInv, ~skipping, StopCurrentAnimation
  PROVE  IInv'
BY DEF StopCurrentAnimation, frameVars, IInv, TypeOK, States, Playing, InOrder,
       PlayheadOnTheList, KeyLeftHasPassed, DrawnKeysDifferOnceMoved

LEMMA EnterPreserves ==
  ASSUME IInv, ~Playing, NEW state \in {"IDLE", "RECEIVING_KEYFRAMES"},
         EnterState(state)
  PROVE  IInv'
BY DEF EnterState, frameVars, IInv, TypeOK, States, Playing, InOrder,
       PlayheadOnTheList, KeyLeftHasPassed, DrawnKeysDifferOnceMoved

LEMMA ClearPreserves ==
  ASSUME IInv, ~Playing, ClearAll
  PROVE  IInv'
<1>1. << >> \in Seq(Time) /\ Len(<< >>) = 0
  BY EmptySeq
<1>2. TypeOK'
  BY <1>1 DEF ClearAll, frameVars, IInv, TypeOK
<1>3. /\ PlayheadOnTheList'
      /\ KeyLeftHasPassed' /\ DrawnKeysDifferOnceMoved'
  BY DEF ClearAll, frameVars, IInv, Playing, PlayheadOnTheList,
         KeyLeftHasPassed, DrawnKeysDifferOnceMoved
<1>4. Len(keys') = 0
  BY <1>1 DEF ClearAll
<1>5. InOrder'
  BY <1>4, 1 .. 0 = {} DEF InOrder
<1> QED
  BY <1>2, <1>3, <1>5 DEF IInv

LEMMA ChannelPreserves ==
  ASSUME IInv, ~skipping, NEW ch \in ChannelId, SetChannel(ch)
  PROVE  IInv'
BY DEF SetChannel, frameVars, IInv, TypeOK, Playing, InOrder,
       PlayheadOnTheList, KeyLeftHasPassed, DrawnKeysDifferOnceMoved

LEMMA DriftPreserves ==
  ASSUME IInv, ~skipping, NEW d \in 0 .. W - 1, SetDrift(d)
  PROVE  IInv'
BY DEF SetDrift, frameVars, IInv, TypeOK, Playing, InOrder,
       PlayheadOnTheList, KeyLeftHasPassed, DrawnKeysDifferOnceMoved

LEMMA ParsePreserves ==
  ASSUME IInv, ~skipping, NEW batch \in Seq(Time), Parse(batch)
  PROVE  IInv'
BY DEF Parse, frameVars, IInv, TypeOK, Playing, InOrder,
       PlayheadOnTheList, KeyLeftHasPassed, DrawnKeysDifferOnceMoved

(* A new key is put behind the play head, at or after the newest time.     *)
LEMMA ParseKeyPreserves ==
  ASSUME IInv, ParseKey
  PROVE  IInv'
<1> DEFINE t == Head(pending)
           N == Len(keys)
<1>1. /\ keys \in Seq(Time) /\ N \in Nat
      /\ t \in Time /\ Tail(pending) \in Seq(Time)
  BY HeadTailProperties, NumbersOfKeys DEF IInv, TypeOK, ParseKey
<1>2. keys' = IF Accepts(t) THEN Append(keys, t) ELSE keys
  BY DEF ParseKey, Insert
<1> HIDE DEF t
<1>3. /\ Append(keys, t) \in Seq(Time)
      /\ Len(Append(keys, t)) = N + 1
      /\ \A i \in 1 .. N : Append(keys, t)[i] = keys[i]
      /\ Append(keys, t)[N + 1] = t
  BY <1>1, AppendProperties
<1>4. TypeOK'
  BY <1>1, <1>2, <1>3 DEF IInv, TypeOK, ParseKey, frameVars, t
<1>5. /\ PlayheadOnTheList'
      /\ KeyLeftHasPassed' /\ DrawnKeysDifferOnceMoved'
  <2>1. /\ Len(keys') \in Nat /\ Len(keys') >= N
        /\ \A i \in 1 .. N : keys'[i] = keys[i]
    BY <1>1, <1>2, <1>3
  <2>2. /\ ~skipping
        /\ UNCHANGED <<currentState, k1, k2, skipping, moved>>
    BY DEF ParseKey, frameVars, IInv, KeyLeftHasPassed
  <2>3. CASE Playing
    <3>1. k1 \in 1 .. N /\ k1 < N /\ k2 = k1 + 1
      BY <1>1, <2>2, <2>3 DEF IInv, PlayheadOnTheList
    <3>2. /\ k1 \in 1 .. Len(keys') /\ k1 < Len(keys')
          /\ k1 \in 1 .. N /\ k2 \in 1 .. N
      BY <1>1, <2>1, <3>1
    <3>3. keys'[k1] = keys[k1] /\ keys'[k2] = keys[k2]
      BY <2>1, <3>2
    <3>4. (currentState = "CYCLING" => Len(keys') >= 2) /\ k2 # NULL
      BY <1>1, <2>1, <3>1, FirmwareAssumption
    <3>5. PlayheadOnTheList'
      BY <2>2, <2>3, <3>1, <3>2, <3>4 DEF IInv, PlayheadOnTheList, Playing
    <3> QED
      BY <2>2, <2>3, <3>3, <3>5
         DEF IInv, KeyLeftHasPassed, DrawnKeysDifferOnceMoved, Playing
  <2>4. CASE ~Playing
    BY <2>2, <2>4 DEF IInv, Playing, PlayheadOnTheList, KeyLeftHasPassed,
                      DrawnKeysDifferOnceMoved
  <2> QED
    BY <2>3, <2>4
<1>6. InOrder'
  <2>1. CASE Accepts(t)
    <3>1. \A i \in 1 .. N : keys[i] <= t
      <4>1. CASE N = 0
        BY <4>1
      <4>2. CASE N # 0
        <5>1. keys # << >> /\ N \in 1 .. N
          <6>1. Len(<< >>) = 0
            BY EmptySeq
          <6> QED
            BY <1>1, <4>2, <6>1
        <5>2. keys[N] <= t
          BY <2>1, <5>1 DEF Accepts, Newest
        <5>3. \A i \in 1 .. N : keys[i] <= keys[N]
          BY <1>1, <5>1, NumbersOfKeys DEF IInv, InOrder
        <5> QED
          BY <1>1, <5>1, <5>2, <5>3, NumbersOfKeys, TimeAssumption DEF IInv
      <4> QED
        BY <4>1, <4>2
    <3>2. ASSUME NEW i \in 1 .. N + 1, NEW j \in 1 .. N + 1, i < j
          PROVE  Append(keys, t)[i] <= Append(keys, t)[j]
      <4>1. i \in 1 .. N
        BY <1>1, <3>2
      <4>2. CASE j = N + 1
        BY <1>3, <3>1, <4>1, <4>2
      <4>3. CASE j # N + 1
        <5>1. j \in 1 .. N
          BY <1>1, <4>3
        <5> QED
          BY <1>3, <3>2, <4>1, <5>1 DEF IInv, InOrder
      <4> QED
        BY <4>2, <4>3
    <3> QED
      BY <1>2, <1>3, <2>1, <3>2 DEF InOrder
  <2>2. CASE ~Accepts(t)
    BY <1>2, <2>2 DEF IInv, InOrder
  <2> QED
    BY <2>1, <2>2
<1> QED
  BY <1>4, <1>5, <1>6 DEF IInv
------------------------------------------------------------------------------
(* A pass of the loop of generateFrame(): k1 becomes the key k2 was, which *)
(* is late, wherever it is on the list afterwards.                         *)
LEMMA PassKeyPreserves ==
  ASSUME IInv, Playing, pending = << >>, k2 # NULL, keys[k2] < Elapsed,
         PassKey, skipping', frameDue' \in BOOLEAN
  PROVE  /\ IInv'
         /\ keys' # keys =>
              /\ currentState = "RUNNING"
              /\ keys' = Tail(keys)
              /\ Len(keys) >= 2 /\ keys[2] < Elapsed
<1> DEFINE N == Len(keys)
<1>1. N \in Nat /\ Elapsed \in Int
  BY NumbersOfKeys, ElapsedType DEF IInv
<1>2. /\ k1 \in 1 .. N /\ k1 < N /\ k2 = k1 + 1 /\ k2 \in 1 .. N
      /\ currentState = "RUNNING" => k2 = 2
      /\ currentState = "CYCLING" => N >= 2
  BY <1>1 DEF IInv, PlayheadOnTheList
<1>3. /\ UNCHANGED <<currentState, channel_id, timeDrift, clock, pending>>
      /\ Elapsed' = Elapsed /\ Playing' /\ moved' = TRUE
      /\ k1' = k2 - Shift
      /\ k2' = IF k2 < N THEN k2 + 1 - Shift ELSE NULL
  BY DEF PassKey, Elapsed, Playing
<1>4. CASE currentState = "RUNNING"
  <2>1. keys' = Tail(keys) /\ keys # << >> /\ k2 = 2 /\ N >= 2
    <3>1. keys' = Tail(keys)
      BY <1>4 DEF PassKey, FreeFirst
    <3>2. Len(<< >>) = 0
      BY EmptySeq
    <3> QED
      BY <1>1, <1>2, <1>4, <3>1, <3>2
  <2>2. /\ keys' \in Seq(Time) /\ Len(keys') = N - 1
        /\ \A i \in 1 .. Len(keys') : keys'[i] = keys[i + 1]
        /\ \A i, j \in 1 .. Len(keys') : i < j => keys'[i] <= keys'[j]
    BY <2>1, RestOfKeys DEF IInv
  <2>3. k1' = 1 /\ k2' = IF 2 < N THEN 2 ELSE NULL
    BY <1>3, <1>4, <2>1 DEF Shift
  <2>4. /\ 1 \in 1 .. Len(keys') /\ (1 < Len(keys') <=> 2 < N)
    BY <1>1, <2>1, <2>2
  <2>5. TypeOK'
    BY <1>3, <2>2, <2>3 DEF IInv, TypeOK
  <2>6. PlayheadOnTheList'
    BY <1>3, <1>4, <2>3, <2>4 DEF PlayheadOnTheList
  <2>7. keys'[k1'] = keys[2] /\ keys[2] < Elapsed
    BY <2>1, <2>2, <2>3, <2>4
  <2>8. KeyLeftHasPassed' /\ DrawnKeysDifferOnceMoved'
    BY <1>3, <2>7 DEF KeyLeftHasPassed, DrawnKeysDifferOnceMoved
  <2>9. InOrder'
    BY <2>2 DEF InOrder
  <2> QED
    BY <1>4, <2>1, <2>5, <2>6, <2>7, <2>8, <2>9 DEF IInv
<1>5. CASE currentState # "RUNNING"
  <2>1. keys' = keys /\ k1' = k2 /\ k2' = IF k2 < N THEN k2 + 1 ELSE NULL
    BY <1>1, <1>2, <1>3, <1>5 DEF PassKey, Shift
  <2>2. k2 \in Nat \ {0} /\ k2 + 1 \in Nat \ {0}
    BY <1>1, <1>2
  <2>3. TypeOK'
    BY <1>3, <2>1, <2>2 DEF IInv, TypeOK
  <2>4. PlayheadOnTheList'
    BY <1>2, <1>3, <1>5, <2>1 DEF PlayheadOnTheList
  <2>5. KeyLeftHasPassed' /\ DrawnKeysDifferOnceMoved'
    BY <1>3, <2>1 DEF KeyLeftHasPassed, DrawnKeysDifferOnceMoved
  <2>6. InOrder'
    BY <2>1 DEF IInv, InOrder
  <2> QED
    BY <2>1, <2>3, <2>4, <2>5, <2>6 DEF IInv
<1> QED
  BY <1>4, <1>5

(* Between frames a playing node has a key k2.                             *)
LEMMA FrameHasKeys ==
  ASSUME IInv, FrameStarts
  PROVE  Playing /\ ~skipping /\ pending = << >> /\ k2 # NULL
BY DEF FrameStarts, NoHandlerRuns, IInv, PlayheadOnTheList

LEMMA LoopMoves ==
  ASSUME IInv, NextKey \/ SkipKey
  PROVE  /\ IInv'
         /\ keys' # keys =>
              /\ currentState = "RUNNING"
              /\ keys' = Tail(keys)
              /\ Len(keys) >= 2 /\ keys[2] < Elapsed
<1>1. CASE NextKey
  <2>1. FrameStarts /\ Elapsed > keys[k2] /\ PassKey /\ skipping'
    BY <1>1 DEF NextKey
  <2>2. Playing /\ pending = << >> /\ k2 # NULL /\ frameDue' \in BOOLEAN
    BY <2>1, FrameHasKeys DEF FrameStarts
  <2>3. keys[k2] < Elapsed
    <3>1. k2 \in 1 .. Len(keys)
      BY <2>2, NumbersOfKeys DEF IInv, PlayheadOnTheList
    <3>2. keys[k2] \in Nat /\ Elapsed \in Int
      BY <3>1, NumbersOfKeys, ElapsedType DEF IInv
    <3> QED
      BY <2>1, <3>2
  <2> QED
    BY <2>1, <2>2, <2>3, PassKeyPreserves
<1>2. CASE SkipKey
  <2>1. /\ skipping /\ k2 # NULL /\ keys[k2] < Elapsed /\ PassKey /\ skipping'
        /\ frameDue' \in BOOLEAN
    BY <1>2 DEF SkipKey, K2IsLate, IInv, TypeOK
  <2>2. Playing /\ pending = << >>
    BY <2>1 DEF IInv, KeyLeftHasPassed
  <2> QED
    BY <2>1, <2>2, PassKeyPreserves
<1> QED
  BY <1>1, <1>2

(* The loop ends at a key that is not late, after one that is.             *)
LEMMA DrawNextFramePreserves ==
  ASSUME IInv, DrawNextFrame
  PROVE  IInv'
<1>1. /\ Playing /\ skipping /\ k2 # NULL /\ ~(keys[k2] < Elapsed)
      /\ keys[k1] < Elapsed
      /\ skipping' = FALSE
      /\ UNCHANGED <<keys, currentState, channel_id, k1, k2, timeDrift, clock,
                     frameDue, pending, moved>>
  BY DEF DrawNextFrame, K2IsLate, IInv, KeyLeftHasPassed
<1>2. k1 \in 1 .. Len(keys) /\ k2 \in 1 .. Len(keys)
  BY <1>1, NumbersOfKeys DEF IInv, PlayheadOnTheList
<1>3. keys[k1] < keys[k2]
  BY <1>1, <1>2, NumbersOfKeys, ElapsedType DEF IInv
<1>4. KeyLeftHasPassed' /\ DrawnKeysDifferOnceMoved'
  BY <1>1, <1>3 DEF KeyLeftHasPassed, DrawnKeysDifferOnceMoved
<1>5. TypeOK' /\ PlayheadOnTheList' /\ InOrder'
  BY <1>1 DEF IInv, TypeOK, PlayheadOnTheList, Playing, InOrder
<1> QED
  BY <1>4, <1>5 DEF IInv

(* A run stops; a cycle goes back to its first two keys, which are still   *)
(* there.                                                                  *)
LEMMA EndOfKeysPreserves ==
  ASSUME IInv, EndOfKeys
  PROVE  IInv' /\ keys' = keys
<1>1. /\ keys' = keys /\ skipping' = FALSE
      /\ UNCHANGED <<channel_id, frameDue, pending>>
  BY DEF EndOfKeys
<1>2. InOrder' /\ KeyLeftHasPassed'
  BY <1>1 DEF IInv, InOrder, KeyLeftHasPassed
<1>3. CASE currentState = "RUNNING"
  <2>1. /\ k1' = NULL /\ k2' = NULL /\ currentState' = "IDLE"
        /\ UNCHANGED <<timeDrift, clock, moved>>
    BY <1>3 DEF EndOfKeys
  <2>2. TypeOK' /\ PlayheadOnTheList' /\ DrawnKeysDifferOnceMoved'
    BY <1>1, <2>1 DEF IInv, TypeOK, States, Playing, PlayheadOnTheList,
                      DrawnKeysDifferOnceMoved
  <2> QED
    BY <1>1, <1>2, <2>2 DEF IInv
<1>4. CASE currentState # "RUNNING"
  <2>1. /\ currentState = "CYCLING" /\ k1' = 1 /\ k2' = 2
        /\ timeDrift' = 0 /\ clock' = 0 /\ moved' = FALSE
        /\ UNCHANGED currentState
    BY <1>4 DEF EndOfKeys
  <2>2. /\ 1 \in 1 .. Len(keys') /\ 1 < Len(keys') /\ 1 + 1 = 2
        /\ 2 # NULL /\ Len(keys') >= 2 /\ 0 \in 0 .. W - 1
        /\ 1 \in Nat \ {0} /\ 2 \in Nat \ {0} /\ FALSE \in BOOLEAN
    BY <1>1, <2>1, NumbersOfKeys, FirmwareAssumption DEF IInv, PlayheadOnTheList
  <2>3. TypeOK'
    BY <1>1, <2>1, <2>2, Zenon DEF IInv, TypeOK
  <2>4. PlayheadOnTheList' /\ DrawnKeysDifferOnceMoved'
    BY <2>1, <2>2 DEF PlayheadOnTheList, Playing, DrawnKeysDifferOnceMoved
  <2> QED
    BY <1>1, <1>2, <2>3, <2>4 DEF IInv
<1> QED
  BY <1>3, <1>4

LEMMA RebootPreserves == ASSUME Reboot PROVE IInv'
<1>1. 0 \in 0 .. W - 1 /\ 0 \in ChannelId
  BY FirmwareAssumption
<1>2. << >> \in Seq(Time) /\ Len(<< >>) = 0
  BY EmptySeq
<1>3. TypeOK'
  BY <1>1, <1>2 DEF Reboot, TypeOK, States
<1>4. /\ PlayheadOnTheList'
      /\ KeyLeftHasPassed' /\ DrawnKeysDifferOnceMoved'
  BY DEF Reboot, Playing, PlayheadOnTheList, KeyLeftHasPassed,
         DrawnKeysDifferOnceMoved
<1>5. Len(keys') = 0
  BY <1>2 DEF Reboot
<1>6. InOrder'
  BY <1>5, 1 .. 0 = {} DEF InOrder
<1> QED
  BY <1>3, <1>4, <1>6 DEF IInv

LEMMA HandlersPreserve ==
  ASSUME IInv,
         \/ \E cmd \in Command : UdpCommand(cmd)
         \/ \E d \in Drift : UdpSync(d)
         \/ \E packet \in Packet : UdpKeys(packet)
         \/ \E cmd \in {"in", "en", "cl", "sp"} : TcpCommand(cmd)
         \/ \E ch \in ChannelId : TcpSetChannel(ch)
         \/ \E upload \in Upload : TcpKeys(upload)
  PROVE  IInv'
<1> DEFINE Parses == \E batch \in Seq(Time) : Parse(batch)
<1>0. ~skipping
  BY DEF UdpCommand, UdpSync, UdpKeys, TcpCommand, TcpSetChannel, TcpKeys,
         NoHandlerRuns
<1>1. Parses => IInv'
  BY <1>0, ParsePreserves
<1>2. currentState \in {"IDLE", "RECEIVING_KEYFRAMES"} => ~Playing
  BY DEF Playing
<1>3. (\E batch \in Garbage : Parse(batch)) => Parses
  BY FirmwareAssumption
<1> HIDE DEF Parses
<1>4. ASSUME NEW cmd \in Command, UdpCommand(cmd) PROVE IInv'
  <2>1. (timeDrift + 1) % W \in 0 .. W - 1 /\ (timeDrift + W - 1) % W \in 0 .. W - 1
    <3>1. timeDrift + 1 \in Int /\ timeDrift + W - 1 \in Int
      BY FirmwareAssumption DEF IInv, TypeOK
    <3> QED
      BY <3>1, ModuloW, Zenon
  <2> QED
    BY <1>0, <1>1, <1>2, <1>3, <1>4, <2>1, EnterPreserves, ClearPreserves,
       PlayPreserves, StopPreserves, DriftPreserves DEF UdpCommand
<1>5. ASSUME NEW d \in Drift, UdpSync(d) PROVE IInv'
  BY <1>0, <1>1, <1>3, <1>5, DriftPreserves, FirmwareAssumption DEF UdpSync
<1>6. ASSUME NEW packet \in Packet, UdpKeys(packet) PROVE IInv'
  <2>1. CASE channel_id < Len(packet)
    <3>1. packet \in Seq(Seq(Time)) /\ channel_id \in Nat
      BY FirmwareAssumption DEF IInv, TypeOK
    <3>2. channel_id + 1 \in 1 .. Len(packet)
      BY <2>1, <3>1
    <3>3. packet[channel_id + 1] \in Seq(Time)
      BY <3>1, <3>2, ElementOfSeq
    <3> QED
      BY <1>0, <1>6, <2>1, <3>3, ParsePreserves DEF UdpKeys
  <2>2. CASE ~(channel_id < Len(packet))
    BY <1>1, <1>3, <1>6, <2>2 DEF UdpKeys
  <2> QED
    BY <2>1, <2>2
<1>7. ASSUME NEW cmd \in {"in", "en", "cl", "sp"}, TcpCommand(cmd) PROVE IInv'
  BY <1>0, <1>1, <1>2, <1>3, <1>7, EnterPreserves, ClearPreserves, StopPreserves
     DEF TcpCommand
<1>8. ASSUME NEW ch \in ChannelId, TcpSetChannel(ch) PROVE IInv'
  BY <1>0, <1>1, <1>3, <1>8, ChannelPreserves DEF TcpSetChannel
<1>9. ASSUME NEW upload \in Upload, TcpKeys(upload) PROVE IInv'
  <2>1. upload \in Seq(Time)
    BY FirmwareAssumption
  <2>2. ASSUME NEW arrived \in 0 .. Len(upload), NEW rest \in Garbage
        PROVE  SubSeq(upload, 1, arrived) \o rest \in Seq(Time)
    <3>1. \A i \in 1 .. arrived : upload[i] \in Time
      BY <2>1
    <3>2. SubSeq(upload, 1, arrived) \in Seq(Time)
      BY <2>1, <3>1, SubSeqProperties
    <3>3. rest \in Seq(Time)
      BY FirmwareAssumption
    <3> QED
      BY <3>2, <3>3, ConcatProperties
  <2>3. CASE /\ currentState = "RECEIVING_KEYFRAMES"
             /\ \/ Parse(upload)
                \/ \E arrived \in 0 .. Len(upload), rest \in Garbage :
                     Parse(SubSeq(upload, 1, arrived) \o rest)
    BY <1>0, <2>1, <2>2, <2>3, ParsePreserves
  <2>4. CASE currentState # "RECEIVING_KEYFRAMES"
    BY <1>0, <1>2, <1>9, <2>4, EnterPreserves, ClearPreserves, ChannelPreserves,
       StopPreserves DEF TcpKeys
  <2> QED
    BY <1>0, <1>2, <1>9, <2>3, <2>4, StopPreserves DEF TcpKeys, Playing
<1> QED
  BY <1>4, <1>5, <1>6, <1>7, <1>8, <1>9

LEMMA StepPreserves == ASSUME IInv, [Next]_vars PROVE IInv'
<1>1. CASE Tick
  <2>1. ASSUME NEW late \in 1 .. MaxLate PROVE (clock + late) % W \in 0 .. W - 1
    <3>1. clock + late \in Int
      BY FirmwareAssumption DEF IInv, TypeOK
    <3> QED
      BY <3>1, ModuloW, Zenon
  <2> QED
    BY <1>1, <2>1 DEF Tick, IInv, TypeOK, Playing, InOrder, PlayheadOnTheList,
                      KeyLeftHasPassed, DrawnKeysDifferOnceMoved
<1>2. CASE DrawFrame
  BY <1>2 DEF DrawFrame, FrameStarts, NoHandlerRuns, IInv, TypeOK, Playing,
              InOrder, PlayheadOnTheList, KeyLeftHasPassed,
              DrawnKeysDifferOnceMoved
<1>3. CASE UNCHANGED vars
  BY <1>3 DEF vars, frameVars, IInv, TypeOK, Playing, InOrder, Elapsed,
              PlayheadOnTheList, KeyLeftHasPassed, DrawnKeysDifferOnceMoved
<1> QED
  BY <1>1, <1>2, <1>3, HandlersPreserve, ParseKeyPreserves, LoopMoves,
     DrawNextFramePreserves, EndOfKeysPreserves, RebootPreserves
     DEF Next, GenerateFrame

LEMMA Inductive == Spec => []IInv
<1> QED
  BY InitEstablishes, StepPreserves, PTL DEF Spec
------------------------------------------------------------------------------
(* Every variable of the node keeps its type: k1 and k2 are null or a key  *)
(* that was not freed, clock and drift stay 32 bit numbers.                *)
THEOREM TypeCorrect == Spec => []TypeOK
<1>1. IInv => TypeOK
  BY DEF IInv
<1> QED
  BY <1>1, Inductive, PTL

(* Whatever arrives, and in whatever state, a playing node's k1 and k2 are *)
(* neighbours on its list, and a node that does not play has none.         *)
THEOREM PlayheadIsSafe == Spec => []PlayheadOnTheList
<1>1. IInv => PlayheadOnTheList
  BY DEF IInv
<1> QED
  BY <1>1, Inductive, PTL

(* The list a node plays is in the order of its times, garbage included.   *)
THEOREM KeysStayInOrder == Spec => []InOrder
<1>1. IInv => InOrder
  BY DEF IInv
<1> QED
  BY <1>1, Inductive, PTL

(* generateFrame() draws between keys of different times once it has left  *)
(* the first two of a run or of a round of a cycle: linearInterpool() does *)
(* not divide by zero there.                                               *)
THEOREM DrawnKeysDiffer == Spec => []DrawnKeysDifferOnceMoved
<1>1. IInv => DrawnKeysDifferOnceMoved
  BY DEF IInv
<1> QED
  BY <1>1, Inductive, PTL

(* A frame frees keys only in a run, only from the front, and only those   *)
(* whose successor has passed too.                                         *)
THEOREM FreeingIsSafe == Spec => OnlyPassedKeysAreFreed
<1>1. ASSUME IInv, GenerateFrame, keys' # keys
      PROVE  /\ currentState = "RUNNING"
             /\ keys' = Tail(keys)
             /\ Len(keys) >= 2 /\ keys[2] < Elapsed
  BY <1>1, LoopMoves, EndOfKeysPreserves DEF GenerateFrame, DrawFrame, DrawNextFrame
<1>2. IInv /\ [Next]_vars =>
        [GenerateFrame /\ keys' # keys =>
           /\ currentState = "RUNNING"
           /\ keys' = Tail(keys)
           /\ Len(keys) >= 2 /\ keys[2] < Elapsed]_vars
  BY <1>1
<1> QED
  BY <1>2, Inductive, PTL DEF Spec, OnlyPassedKeysAreFreed
==============================================================================
