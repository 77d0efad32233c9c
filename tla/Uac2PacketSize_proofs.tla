------------------------- MODULE Uac2PacketSize_proofs -------------------------
(***************************************************************************)
(* Proofs about Uac2PacketSize: for every number of channels, sample size  *)
(* and sampling rate, the endpoints carry the streams.                     *)
(***************************************************************************)
EXTENDS Uac2PacketSize, TLAPS

(* The endpoints that the calls made so far have filled in are right. *)
Filled ==
  \A n \in 0..5 : n < step =>
    wMaxPacketSize[Call(n)] = PacketSize(stream[Call(n)[2]], Call(n)[1])

IInv == TypeOK /\ Filled

(* Every speed has a packet each millisecond. *)
LEMMA Rate ==
  ASSUME NEW speed \in Speed
  PROVE  /\ PacketsPerSecond(speed) = 1000
         /\ MaxSizeEp(speed) \in {1023, 1024}
<1>1. CASE speed = "full"
  BY <1>1 DEF PacketsPerSecond, Factor, Period, MaxSizeEp
<1>2. CASE speed # "full"
  BY <1>2 DEF PacketsPerSecond, Factor, Period, MaxSizeEp
<1> QED
  BY <1>1, <1>2

(* A frame is the samples of all channels at one moment. *)
LEMMA FrameSize ==
  ASSUME NEW p \in Params
  PROVE  /\ p.channels * p.ssize \in Int
         /\ 1 <= p.channels * p.ssize
         /\ p.channels * p.ssize <= 108
<1>1. p.channels \in 1..27 /\ p.ssize \in 1..4
  BY PacketAssumption DEF Params
<1>2. p.ssize = 1 \/ p.ssize = 2 \/ p.ssize = 3 \/ p.ssize = 4
  BY <1>1
<1> QED
  BY <1>1, <1>2

(* A rate is a number of samples. *)
LEMMA RateType ==
  ASSUME NEW p \in Params
  PROVE  p.srate \in Int /\ 0 <= p.srate
<1>1. p.srate \in Srate
  BY DEF Params
<1>2. Srate \subseteq Nat
  BY PacketAssumption
<1>3. p.srate \in Nat
  BY <1>1, <1>2
<1> QED
  BY <1>3

(* The size of a packet is within its bus's limit, whatever u16 does to it. *)
LEMMA PacketSizeLimit ==
  ASSUME NEW p \in Params, NEW speed \in Speed
  PROVE  PacketSize(p, speed) \in 0..MaxSizeEp(speed)
<1>1. PICK f \in Int : f = p.channels * p.ssize
  BY FrameSize
<1>2. PICK s \in Int : s = p.srate /\ 0 <= s
  BY RateType
<1>3. PICK q \in Int : q = s \div 1000
  BY <1>2
<1>4. MaxSizeBw(p, speed) = f * (q + 1)
  BY <1>1, <1>2, <1>3, Rate DEF MaxSizeBw
<1>5. PICK b \in Int : b = f * (q + 1)
  OBVIOUS
<1>6. PICK n \in Int : n = b % 65536 /\ 0 <= n
  OBVIOUS
<1>7. PacketSize(p, speed) = Smaller(n, MaxSizeEp(speed))
  BY <1>4, <1>5, <1>6 DEF PacketSize
<1>8. Smaller(n, MaxSizeEp(speed)) \in 0..MaxSizeEp(speed)
  BY <1>6, Rate DEF Smaller
<1> QED
  BY <1>7, <1>8

(* If the samples of a millisecond fit a packet, so do those of one frame more,
   with room to spare in a u16. *)
LEMMA OneFrameMore ==
  ASSUME NEW f \in Int, NEW q \in Int, NEW c \in Int,
         1 <= f, f <= 108, 0 <= q, c = q \/ c = q + 1, f * c <= 1024
  PROVE  /\ f * (q + 1) \in Int
         /\ f * c <= f * (q + 1)
         /\ 0 <= f * (q + 1)
         /\ f * (q + 1) <= 65535
<1>1. PICK m \in Int : m = f * q
  OBVIOUS
<1>2. PICK n \in Int : n = f * c
  OBVIOUS
<1>3. f * (q + 1) = m + f
  BY <1>1
<1>4. m >= 0
  BY <1>1
<1>5. n = m \/ n = m + f
  BY <1>1, <1>2, <1>3
<1>6. n <= 1024
  BY <1>2
<1>7. m + f \in Int /\ n <= m + f /\ 0 <= m + f /\ m + f <= 65535
  BY <1>4, <1>5, <1>6
<1> QED
  BY <1>2, <1>3, <1>7

(* A number below 2^16 is its own u16. *)
LEMMA U16 ==
  ASSUME NEW n \in Int, 0 <= n, n <= 65535
  PROVE  n % 65536 = n
  OBVIOUS

(* A packet that fits the bus is not cut short. *)
LEMMA PacketSizeEnough ==
  ASSUME NEW p \in Params, NEW speed \in Speed,
         Needed(p, speed) <= MaxSizeEp(speed)
  PROVE  PacketSize(p, speed) >= Needed(p, speed)
<1>1. PICK f \in Int : f = p.channels * p.ssize /\ 1 <= f /\ f <= 108
  BY FrameSize
<1>2. PICK s \in Int : s = p.srate /\ 0 <= s
  BY RateType
<1>3. PICK q \in Int : q = s \div 1000 /\ 0 <= q
  BY <1>2
<1>4. PICK c \in Int : c = (s + 999) \div 1000 /\ (c = q \/ c = q + 1)
  BY <1>2, <1>3
<1>5. PacketsPerSecond(speed) = 1000
  BY Rate
<1>6. Needed(p, speed) = f * c
  <2>1. s + PacketsPerSecond(speed) - 1 = s + 999
    BY <1>5
  <2> QED
    BY <1>1, <1>2, <1>4, <1>5, <2>1 DEF Needed
<1>7. MaxSizeBw(p, speed) = f * (q + 1)
  BY <1>1, <1>2, <1>3, <1>5 DEF MaxSizeBw
<1>8. PICK n \in Int : n = f * c
  OBVIOUS
<1>9. n <= 1024
  <2>1. n <= MaxSizeEp(speed)
    BY <1>6, <1>8
  <2> QED
    BY <2>1, Rate
<1>10. PICK b \in Int : b = f * (q + 1) /\ n <= b /\ 0 <= b /\ b <= 65535
  <2>1. f * c <= 1024
    BY <1>8, <1>9
  <2> QED
    BY <2>1, <1>1, <1>3, <1>4, <1>8, OneFrameMore
<1>11. b % 65536 = b
  BY <1>10, U16
<1>12. PacketSize(p, speed) = Smaller(b, MaxSizeEp(speed))
  BY <1>7, <1>10, <1>11 DEF PacketSize
<1>13. n <= MaxSizeEp(speed)
  BY <1>6, <1>8
<1>14. Smaller(b, MaxSizeEp(speed)) >= n
  BY <1>10, <1>13, Rate DEF Smaller
<1> QED
  BY <1>6, <1>8, <1>12, <1>14

(* The six calls name the six endpoints, one each. *)
LEMMA Calls ==
  /\ \A n \in 0..5 : Call(n) \in Speed \X Direction
  /\ \A n, m \in 0..5 : Call(n) = Call(m) => n = m
  /\ \A speed \in Speed, d \in Direction : \E n \in 0..5 : Call(n) = <<speed, d>>
<1>1. \A n \in 0..5 : Call(n) \in Speed \X Direction
  BY DEF Call, Speed, Direction
<1>2. ASSUME NEW n \in 0..5, NEW m \in 0..5, Call(n) = Call(m)
      PROVE  n = m
  BY <1>2 DEF Call
<1>3. ASSUME NEW speed \in Speed, NEW d \in Direction
      PROVE  \E n \in 0..5 : Call(n) = <<speed, d>>
  <2>1. PICK k \in {0, 2, 4} : k = IF speed = "full" THEN 0
                                   ELSE IF speed = "high" THEN 2 ELSE 4
    OBVIOUS
  <2>2. CASE d = "in"
    <3>1. Call(k) = <<speed, d>>
      BY <2>1, <2>2 DEF Call, Speed
    <3> QED
      BY <3>1
  <2>3. CASE d = "out"
    <3>1. Call(k + 1) = <<speed, d>>
      BY <2>1, <2>3 DEF Call, Speed
    <3>2. k + 1 \in 0..5
      OBVIOUS
    <3> QED
      BY <3>1, <3>2
  <2> QED
    BY <2>2, <2>3 DEF Direction
<1> QED
  BY <1>1, <1>2, <1>3

(* Each call fills in its own endpoint and keeps those before. *)
LEMMA CallStep ==
  ASSUME IInv, SetEpMaxPacketSize
  PROVE  IInv'
<1> DEFINE e == Call(step)
           size == PacketSize(stream[e[2]], e[1])
<1>1. step \in 0..5 /\ step' = step + 1 /\ stream' = stream
  BY DEF IInv, TypeOK, SetEpMaxPacketSize
<1>2. e \in Speed \X Direction
  BY <1>1, Calls
<1>3. e[1] \in Speed /\ e[2] \in Direction /\ stream[e[2]] \in Params /\ e = <<e[1], e[2]>>
  BY <1>2 DEF IInv, TypeOK
<1>4. size \in 0..MaxSizeEp(e[1])
  BY <1>3, PacketSizeLimit
<1>5. wMaxPacketSize' = [wMaxPacketSize EXCEPT ![e] = size]
  BY DEF SetEpMaxPacketSize
<1>6. wMaxPacketSize' \in [Speed \X Direction -> 0..1024]
  <2>1. size \in 0..1024
    BY <1>3, <1>4, Rate
  <2> QED
    BY <1>2, <1>5, <2>1 DEF IInv, TypeOK
<1>7. ASSUME NEW d \in Direction
      PROVE  wMaxPacketSize'[<<"full", d>>] <= 1023
  <2>1. <<"full", d>> \in Speed \X Direction
    BY DEF Speed
  <2>2. CASE e = <<"full", d>>
    BY <1>4, <1>5, <2>1, <2>2 DEF MaxSizeEp, IInv, TypeOK
  <2>3. CASE e # <<"full", d>>
    BY <1>5, <2>1, <2>3 DEF IInv, TypeOK
  <2> QED
    BY <2>2, <2>3
<1>8. TypeOK'
  BY <1>1, <1>6, <1>7 DEF IInv, TypeOK
<1>9. ASSUME NEW n \in 0..5, n < step'
      PROVE  wMaxPacketSize'[Call(n)] = PacketSize(stream[Call(n)[2]], Call(n)[1])
  <2>1. Call(n) \in Speed \X Direction
    BY Calls
  <2>2. CASE n = step
    BY <1>5, <2>1, <2>2 DEF IInv, TypeOK
  <2>3. CASE n # step
    <3>1. Call(n) # e
      BY <1>1, <2>3, Calls
    <3>2. n < step
      BY <1>1, <1>9, <2>3
    <3> QED
      BY <1>5, <2>1, <3>1, <3>2 DEF IInv, TypeOK, Filled
  <2> QED
    BY <2>2, <2>3
<1>10. Filled'
  BY <1>1, <1>9 DEF Filled, PacketSize, MaxSizeBw
<1> QED
  BY <1>8, <1>10 DEF IInv

(* The inductive invariant. *)
LEMMA Invariance == Spec => []IInv
<1>1. Init => IInv
  <2> SUFFICES ASSUME Init PROVE IInv
    OBVIOUS
  <2>1. wMaxPacketSize \in [Speed \X Direction -> 0..1024]
    BY DEF Init
  <2>2. \A d \in Direction : wMaxPacketSize[<<"full", d>>] <= 1023
    BY DEF Init, Speed
  <2> QED
    BY <2>1, <2>2 DEF Init, IInv, TypeOK, Filled
<1>2. IInv /\ [Next]_vars => IInv'
  <2>1. ASSUME IInv, Rebind PROVE IInv'
    BY <2>1 DEF IInv, TypeOK, Filled, Rebind
  <2>2. ASSUME IInv, UNCHANGED vars PROVE IInv'
    BY <2>2 DEF IInv, TypeOK, Filled, vars
  <2> QED
    BY <2>1, <2>2, CallStep DEF Next
<1> QED
  BY <1>1, <1>2, PTL DEF Spec

(* No endpoint ever asks for more than a packet of its bus, at any rate. *)
THEOREM TypeCorrect == Spec => []TypeOK
<1>1. IInv => TypeOK
  BY DEF IInv
<1> QED
  BY <1>1, Invariance, PTL

(* At every sampling rate, format and channel count, after any sequence of
   binds, the endpoints carry what the bus can carry. *)
THEOREM PacketsCarryStreamCorrect == Spec => []PacketsCarryStream
<1>1. IInv => PacketsCarryStream
  <2> SUFFICES ASSUME IInv, step = 6, NEW speed \in Speed, NEW d \in Direction,
                      Needed(stream[d], speed) <= MaxSizeEp(speed)
               PROVE  wMaxPacketSize[<<speed, d>>] >= Needed(stream[d], speed)
    BY DEF PacketsCarryStream
  <2>1. PICK n \in 0..5 : Call(n) = <<speed, d>>
    BY Calls
  <2>2. wMaxPacketSize[<<speed, d>>] = PacketSize(stream[d], speed)
    BY <2>1 DEF IInv, Filled
  <2>3. stream[d] \in Params
    BY DEF IInv, TypeOK
  <2> QED
    BY <2>2, <2>3, PacketSizeEnough
<1> QED
  BY <1>1, Invariance, PTL

================================================================================
