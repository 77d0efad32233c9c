----------------------------- MODULE Uac2PacketSize -----------------------------
(***************************************************************************)
(* The endpoint sizes of f_uac2.c: how afunc_bind fills in wMaxPacketSize  *)
(* of the six isochronous endpoint descriptors, one per bus speed and      *)
(* direction, from the channels, sample size and sampling rate that        *)
(* afunc_validate_opts let through. The descriptors are file-scope: a      *)
(* later bind starts from the sizes of the one before.                     *)
(***************************************************************************)
EXTENDS Integers

CONSTANTS
  Channels,  \* how many channels a channel mask may have
  Ssize,     \* sample sizes in bytes
  Srate      \* sampling rates in Hz (u32: any of them)

ASSUME PacketAssumption ==
  /\ Channels \subseteq 1..27
  /\ Ssize \subseteq 1..4
  /\ Srate \subseteq Nat \ {0}

VARIABLES
  stream,   \* the two directions' parameters
  wMaxPacketSize,
  step      \* how many of the six calls afunc_bind has made

vars == <<stream, wMaxPacketSize, step>>

Speed == {"full", "high", "super"}
Direction == {"in", "out"}  \* playback and capture, as the host sees them

Params == [channels : Channels, ssize : Ssize, srate : Srate]

(* What a bus transfers in one packet, how many (micro)frames it has in a
   second, and the period bInterval stands for: 2^(bInterval - 1) of them. *)
MaxSizeEp(speed) == IF speed = "full" THEN 1023 ELSE 1024
Factor(speed) == IF speed = "full" THEN 1000 ELSE 8000
Period(speed) == IF speed = "full" THEN 1 ELSE 8
PacketsPerSecond(speed) == Factor(speed) \div Period(speed)

Smaller(a, b) == IF a < b THEN a ELSE b

(* Mutant: no room for the odd sample. *)
MaxSizeBwExact(p, speed) == (p.channels * p.ssize) * (p.srate \div PacketsPerSecond(speed))

MaxSizeBw(p, speed) ==
  (p.channels * p.ssize) * (p.srate \div PacketsPerSecond(speed) + 1)

(* Mutant: one limit for every speed. *)
PacketSizeSameLimit(p, speed) == Smaller(MaxSizeBw(p, speed) % 65536, 1024)

(* max_size_bw is a u16. *)
PacketSize(p, speed) == Smaller(MaxSizeBw(p, speed) % 65536, MaxSizeEp(speed))

Init ==
  /\ stream \in [Direction -> Params]
  /\ wMaxPacketSize = [e \in Speed \X Direction |-> 0]
  /\ step = 0

(* The order of the calls in afunc_bind. *)
Call(n) == <<IF n < 2 THEN "full" ELSE IF n < 4 THEN "high" ELSE "super",
                IF n % 2 = 0 THEN "in" ELSE "out">>

SetEpMaxPacketSize ==
  /\ step < 6
  /\ LET e == Call(step)
     IN  wMaxPacketSize' = [wMaxPacketSize EXCEPT ![e] = PacketSize(stream[e[2]], e[1])]
  /\ step' = step + 1
  /\ UNCHANGED stream

(* Another bind, with other options. *)
Rebind ==
  /\ step = 6
  /\ step' = 0
  /\ stream' \in [Direction -> Params]
  /\ UNCHANGED wMaxPacketSize

Next == SetEpMaxPacketSize \/ Rebind

Spec == Init /\ [][Next]_vars

-----------------------------------------------------------------------------
(* Properties *)

(* No endpoint asks for more than its bus can transfer in one packet. *)
TypeOK ==
  /\ stream \in [Direction -> Params]
  /\ wMaxPacketSize \in [Speed \X Direction -> 0..1024]
  /\ \A d \in Direction : wMaxPacketSize[<<"full", d>>] <= 1023
  /\ step \in 0..6

(* The most bytes a stream has for one packet: its rate is spread over the
   packets of a second, so some carry one sample more than others. *)
Needed(p, speed) ==
  (p.channels * p.ssize)
    * ((p.srate + PacketsPerSecond(speed) - 1) \div PacketsPerSecond(speed))

(* Every endpoint of a finished bind can carry its stream at every speed at
   which the bus can at all: neither the u16 of max_size_bw nor the rounding of
   the rate loses a sample, and nothing is left of an earlier bind. *)
PacketsCarryStream ==
  step = 6 =>
    \A speed \in Speed, d \in Direction :
      Needed(stream[d], speed) <= MaxSizeEp(speed)
        => wMaxPacketSize[<<speed, d>>] >= Needed(stream[d], speed)

================================================================================
