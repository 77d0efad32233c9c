-------------------------- MODULE SstvEncoder_proofs --------------------------
(***************************************************************************)
(* Proofs about SstvEncoder, for every size of picture, set of colours and *)
(* rate up to MAXRATE: the audio has at every moment the nearest number of *)
(* samples to the time of its tones, the encoder implements SstvTimeline,  *)
(* the header announces the mode, every line has its sync pulse and the    *)
(* pulses are regular; and the pictures that pisstv.c sends fit g_audio.   *)
(***************************************************************************)
EXTENDS SstvEncoder, SequenceTheorems, FiniteSetTheorems, TLAPS

-------------------------------------------------------------------------------
(* Rounding. *)

(* Half a sample is the most that is carried over. *)
Half(f) == f \in Int /\ -Sample <= 2 * f /\ 2 * f < Sample

(* The constants, one fact at a time. *)
LEMMA Ticks == Tenth \in Int /\ 0 < Tenth /\ Sample \in Int /\ 0 < Sample
  BY RateAssumption

LEMMA Rates == MaxRate \in Int /\ 1 <= MaxRate /\ MaxRate <= 65535
  BY RateAssumption

LEMMA Colours == Colour \subseteq Nat
  BY PictureAssumption

LEMMA EvenHeights == Height["r36"] % 2 = 0 /\ Height["pd120"] % 2 = 0
  BY PictureAssumption

LEMMA Product ==
  ASSUME NEW a \in Int, NEW b \in Int
  PROVE  a * b \in Int /\ (a + 1) * b = a * b + b
  OBVIOUS

(* The quotient of integers. *)
LEMMA Quotient ==
  ASSUME NEW n \in Int, NEW m \in Int, 0 < m
  PROVE  /\ n \div m \in Int
         /\ m * (n \div m) <= n
         /\ n < m * (n \div m) + m
  OBVIOUS

(* What Rounded leaves is carried over and is at most half a sample. *)
LEMMA Carried ==
  ASSUME NEW d \in Int, NEW f, Half(f)
  PROVE  /\ Rounded(d, f) \in Int
         /\ Half(d * Tenth + f - Rounded(d, f) * Sample)
<1>1. Tenth \in Int /\ Sample \in Int /\ 0 < Sample /\ f \in Int
  BY Ticks DEF Half
<1>2. PICK t \in Int : t = d * Tenth
  BY <1>1
<1>3. PICK r \in Int : r = Rounded(d, f) /\ (2 * Sample) * r <= 2 * (t + f) + Sample
                       /\ 2 * (t + f) + Sample < (2 * Sample) * r + 2 * Sample
  <2>1. 2 * (t + f) + Sample \in Int /\ 2 * Sample \in Int /\ 0 < 2 * Sample
    BY <1>1
  <2> QED
    BY <1>2, <2>1, Quotient DEF Rounded
<1>4. PICK p \in Int : p = r * Sample
  BY <1>1
<1>5. (2 * Sample) * r = 2 * p
  BY <1>1, <1>4
<1>6. -Sample <= 2 * (t + f - p) /\ 2 * (t + f - p) < Sample
  BY <1>1, <1>3, <1>4, <1>5
<1> QED
  BY <1>1, <1>2, <1>3, <1>4, <1>6 DEF Half

(* Only one whole number of samples leaves at most half a sample. *)
LEMMA RoundedOnly ==
  ASSUME NEW d \in Int, NEW f, Half(f),
         NEW r \in Int, Half(d * Tenth + f - r * Sample)
  PROVE  r = Rounded(d, f)
<1>1. Tenth \in Int /\ Sample \in Int /\ 0 < Sample /\ f \in Int
  BY Ticks DEF Half
<1>2. PICK t \in Int : t = d * Tenth
  BY <1>1
<1>3. PICK q \in Int : q = Rounded(d, f)
  BY Carried
<1>4. Half(t + f - q * Sample)
  BY <1>2, <1>3, Carried
<1>5. PICK p \in Int : p = q * Sample
  BY <1>1
<1>6. PICK p2 \in Int : p2 = r * Sample
  BY <1>1
<1>7. p - p2 < Sample /\ p2 - p < Sample
  BY <1>1, <1>2, <1>4, <1>5, <1>6 DEF Half
<1>8. p - p2 = (q - r) * Sample
  BY <1>1, <1>5, <1>6
<1>9. ~(q - r >= 1)
  <2> SUFFICES ASSUME q - r >= 1 PROVE FALSE
    OBVIOUS
  <2>1. (q - r) * Sample >= Sample
    BY <1>1
  <2> QED
    BY <1>7, <1>8, <2>1, <1>1
<1>10. ~(r - q >= 1)
  <2> SUFFICES ASSUME r - q >= 1 PROVE FALSE
    OBVIOUS
  <2>1. (r - q) * Sample >= Sample
    BY <1>1
  <2>2. p2 - p = (r - q) * Sample
    BY <1>1, <1>5, <1>6
  <2> QED
    BY <1>7, <2>1, <2>2, <1>1
<1> QED
  BY <1>3, <1>9, <1>10

(* Half a second, in tenths of a microsecond: no tone is longer. *)
Longest == 5000000

(* A sample lasts long enough for half a second to be fewer than 65536. *)
LEMMA LongestTime ==
  /\ Longest \in Nat
  /\ 2 * (Longest * Tenth) <= 65535 * Sample
<1>1. Tenth \in Int /\ Sample \in Int /\ 0 < Sample /\ MaxRate \in Int /\ MaxRate <= 65535
  BY Ticks, Rates
<1>2. PICK m \in Int : m = MaxRate * Sample /\ m <= 65535 * Sample
  BY <1>1
<1>3. 10000000 * Tenth <= m
  BY <1>2, RateBound, SMT
<1>4. 2 * (Longest * Tenth) = 10000000 * Tenth
  BY <1>1, SMT DEF Longest
<1>5. Longest \in Nat
  BY SMT DEF Longest
<1> QED
  BY <1>1, <1>2, <1>3, <1>4, <1>5, SMT

(* A tone of at most half a second has at least no sample, and fewer than the
   16 bits of tonesamples hold. *)
LEMMA Fits16Bits ==
  ASSUME NEW d \in 0 .. Longest, NEW f, Half(f)
  PROVE  /\ Rounded(d, f) \in Int
         /\ 0 <= Rounded(d, f)
         /\ Rounded(d, f) <= 65535
<1>1. Tenth \in Int /\ 0 < Tenth /\ Sample \in Int /\ 0 < Sample /\ f \in Int
  BY Ticks DEF Half
<1>2. PICK t \in Int : t = d * Tenth /\ 0 <= t
  BY <1>1
<1>3. PICK r \in Int : r = Rounded(d, f)
  BY Carried
<1>4. PICK p \in Int : p = r * Sample
  BY <1>1
<1>5. -Sample <= 2 * (t + f - p) /\ 2 * (t + f - p) < Sample
  BY <1>1, <1>2, <1>3, <1>4, Carried DEF Half
<1>6. 2 * t <= 65535 * Sample
  <2>1. PICK l \in Int : l = Longest * Tenth /\ 2 * l <= 65535 * Sample
    BY <1>1, LongestTime
  <2>2. Longest \in Int /\ d \in Int /\ d <= Longest
    BY LongestTime
  <2>3. t <= l
    BY <1>1, <1>2, <2>1, <2>2
  <2> QED
    BY <1>1, <1>2, <2>1, <2>3
<1>7. 0 <= r
  <2> SUFFICES ASSUME r <= -1 PROVE FALSE
    BY <1>3
  <2>1. p <= -Sample
    BY <1>1, <1>4
  <2> QED
    BY <1>1, <1>2, <1>5, <2>1 DEF Half
<1>8. r <= 65535
  <2> SUFFICES ASSUME r >= 65536 PROVE FALSE
    BY <1>3
  <2>1. p >= 65536 * Sample
    BY <1>1, <1>4
  <2> QED
    BY <1>1, <1>2, <1>5, <1>6, <2>1 DEF Half
<1> QED
  BY <1>3, <1>7, <1>8

-------------------------------------------------------------------------------
(* The tables. *)

Duration == 0 .. Longest

LEMMA Durations ==
  /\ {5000000, 3000000, 1000000, 300000, 200000, 100000} \subseteq Duration
  /\ {90000, 48620, 45000, 30000, 20800, 15000, 5720} \subseteq Duration
  /\ {10800, 4576, 4320, 2752, 2750, 2288, 1900, 1375} \subseteq Duration
<1>1. Longest \in Int /\ 5000000 <= Longest
  BY SMT DEF Longest
<1>2. \A d \in Nat : d <= 5000000 => d \in Duration
  BY <1>1, SMT DEF Duration
<1> QED
  BY <1>2, SMT

Tone == Nat \X Duration

LEMMA ToneDuration ==
  ASSUME NEW tones \in Seq(Tone), NEW n \in 1 .. Len(tones)
  PROVE  tones[n][2] \in Duration
  BY DEF Tone

LEMMA HeaderTones ==
  ASSUME NEW vis \in Mode
  PROVE  Header(vis) \in Seq(Tone) /\ Len(Header(vis)) = 22
<1>1. Leader \in Seq(Tone) /\ Len(Leader) = 13
  BY Durations, SMT DEF Leader, Tone
<1>2. \A bit : Digit(bit) \in Tone
  <2>1. 300000 \in Duration
    BY Durations, SMT
  <2> QED
    BY <2>1, SMT DEF Digit, Tone
<1> DEFINE Digits == [n \in 1 .. 7 |-> Digit(VisBit(vis, n - 1))]
           Last == <<Digit(Parity(vis)), <<1200, 300000>>>>
<1>3. Digits \in Seq(Tone) /\ Len(Digits) = 7
  BY <1>2, SMT
<1>4. Last \in Seq(Tone) /\ Len(Last) = 2
  <2>1. <<1200, 300000>> \in Tone
    BY Durations, SMT DEF Tone
  <2> QED
    BY <1>2, <2>1, SMT
<1>5. Header(vis) = Leader \o Digits \o Last
  BY DEF Header
<1> HIDE DEF Digits, Last
<1>6. /\ Leader \o Digits \in Seq(Tone)
      /\ Len(Leader \o Digits) = Len(Leader) + Len(Digits)
  BY <1>1, <1>3, ConcatProperties, Zenon
<1>7. /\ (Leader \o Digits) \o Last \in Seq(Tone)
      /\ Len((Leader \o Digits) \o Last) = Len(Leader \o Digits) + Len(Last)
  BY <1>4, <1>6, ConcatProperties, Zenon
<1> QED
  BY <1>1, <1>3, <1>4, <1>5, <1>6, <1>7

LEMMA TrailerTones == Trailer \in Seq(Tone) /\ Len(Trailer) = 5
  BY Durations, SMT DEF Trailer, Tone

(* What time needs of a part of a line. *)
Timed(part) == part.time \in Duration /\ part.count \in Nat \ {0}

LEMMA FixedTimed ==
  ASSUME NEW f, NEW d \in Duration
  PROVE  Timed(Fixed(f, d))
  BY DEF Fixed, Timed

LEMMA ScanTimed ==
  ASSUME NEW tones, NEW d \in Duration, NEW n \in Nat \ {0}
  PROVE  Timed(Scan(tones, d, n))
  BY DEF Scan, Timed

LEMMA Widths ==
  ASSUME NEW f \in Family
  PROVE  Width[f] \in Nat \ {0}
  BY PictureAssumption

LEMMA MartinTimed ==
  ASSUME NEW d \in Duration
  PROVE  /\ Len(MartinLine(d)) = 8
         /\ \A n \in 1 .. 8 : Timed(MartinLine(d)[n])
<1>1. Width["m"] \in Nat \ {0}
  BY Widths DEF Family
<1>2. \A t : Timed(Scan(t, d, Width["m"]))
  BY <1>1, ScanTimed
<1>3. Timed(Fixed(1200, 48620)) /\ Timed(Fixed(1500, 5720))
  BY Durations, FixedTimed, SMT
<1> QED
  BY <1>2, <1>3, SMT DEF MartinLine

LEMMA ScottieTimed ==
  ASSUME NEW d \in Duration
  PROVE  /\ Len(ScottieLine(d)) = 7
         /\ \A n \in 1 .. 7 : Timed(ScottieLine(d)[n])
<1>1. Width["s"] \in Nat \ {0}
  BY Widths DEF Family
<1>2. \A t : Timed(Scan(t, d, Width["s"]))
  BY <1>1, ScanTimed
<1>3. Timed(Fixed(1200, 90000)) /\ Timed(Fixed(1500, 15000))
  BY Durations, FixedTimed, SMT
<1> QED
  BY <1>2, <1>3, SMT DEF ScottieLine

LEMMA RobotTimed ==
  /\ Len(RobotLines) = 12
  /\ \A n \in 1 .. 12 : Timed(RobotLines[n])
<1>1. Width["r36"] \in Nat \ {0}
  BY Widths DEF Family
<1>2. \A t : Timed(Scan(t, 2750, Width["r36"])) /\ Timed(Scan(t, 1375, Width["r36"]))
  BY <1>1, ScanTimed, Durations, SMT
<1>3. /\ Timed(Fixed(1200, 90000)) /\ Timed(Fixed(1500, 30000)) /\ Timed(Fixed(1500, 45000))
      /\ Timed(Fixed(2300, 45000)) /\ Timed(Fixed(1900, 15000))
  BY Durations, FixedTimed, SMT
<1> QED
  BY <1>2, <1>3, SMT DEF RobotLines

LEMMA PdTimed ==
  /\ Len(PdLines) = 6
  /\ \A n \in 1 .. 6 : Timed(PdLines[n])
<1>1. Width["pd120"] \in Nat \ {0}
  BY Widths DEF Family
<1>2. \A t : Timed(Scan(t, 1900, Width["pd120"]))
  BY <1>1, ScanTimed, Durations, SMT
<1>3. Timed(Fixed(1200, 200000)) /\ Timed(Fixed(1500, 20800))
  BY Durations, FixedTimed, SMT
<1> QED
  BY <1>2, <1>3, SMT DEF PdLines

LEMMA LineTimed ==
  ASSUME NEW vis \in Mode
  PROVE  /\ Len(Line(vis)) \in Nat \ {0}
         /\ \A n \in 1 .. Len(Line(vis)) : Timed(Line(vis)[n])
<1>1. PixelTime(vis) \in Duration
  BY Durations, SMT DEF PixelTime, Mode
<1>2. /\ FamilyOf(vis) = "m" => Line(vis) = MartinLine(PixelTime(vis))
      /\ FamilyOf(vis) = "s" => Line(vis) = ScottieLine(PixelTime(vis))
      /\ FamilyOf(vis) = "r36" => Line(vis) = RobotLines
      /\ FamilyOf(vis) \notin {"m", "s", "r36"} => Line(vis) = PdLines
  BY DEF Line
<1>3. CASE FamilyOf(vis) = "m"
  BY <1>1, <1>2, <1>3, MartinTimed
<1>4. CASE FamilyOf(vis) = "s"
  BY <1>1, <1>2, <1>4, ScottieTimed
<1>5. CASE FamilyOf(vis) = "r36"
  <2>1. Line(vis) = RobotLines
    BY <1>2, <1>5
  <2> QED
    BY <2>1, RobotTimed
<1>6. CASE FamilyOf(vis) \notin {"m", "s", "r36"}
  <2>1. Line(vis) = PdLines
    BY <1>2, <1>6
  <2> QED
    BY <2>1, PdTimed
<1> QED
  BY <1>3, <1>4, <1>5, <1>6

LEMMA LinesAtOnceType ==
  ASSUME NEW vis \in Mode
  PROVE  LinesAtOnce(vis) \in Nat
  BY DEF LinesAtOnce

-------------------------------------------------------------------------------
(* The inductive invariant: nothing has been played before the header; what is carried
   over is what the audio is late, at most half a sample; and within a part of a line, k tones of the part's
   duration have been played since it began. *)
Carry == late = g_fudge /\ Half(g_fudge)

Part == Line(g_protocol)[seg]

InPart ==
  stage \in {"header", "start", "picture", "trailer"} =>
    /\ g_protocol \in Mode
    /\ stage # "picture" => k = 0
    /\ stage = "header" => i \in 1 .. 22
    /\ stage \in {"start", "picture"} => i = 1
    /\ stage = "trailer" => i \in 1 .. 5
    /\ seg \in 1 .. Len(Line(g_protocol))
    /\ k \in 0 .. Part.count - 1

Begun ==
  k > 0 => /\ stage = "picture" /\ input # "broken_png"
           /\ Half(begun.fudge)
           /\ begun.samples \in Nat
           /\ g_samples * Sample + g_fudge
                = begun.samples * Sample + begun.fudge + k * (Part.time * Tenth)

Fresh ==
  stage \in {"options", "filetype"} =>
    /\ i = 1 /\ y = 0 /\ seg = 1 /\ k = 0
    /\ stage = "options" => g_protocol = 0
    /\ stage = "filetype" => g_protocol \in Mode

IInv == TypeOK /\ Carry /\ InPart /\ Begun /\ Fresh

(* What a tone does to the audio. *)
LEMMA PlayToneStep ==
  ASSUME g_samples \in Nat, Carry, NEW d \in Duration, PlayTone(d)
  PROVE  /\ Rounded(d, g_fudge) \in Int
         /\ g_samples' = g_samples + Rounded(d, g_fudge)
         /\ g_fudge' = d * Tenth + g_fudge - Rounded(d, g_fudge) * Sample
         /\ g_samples' \in Nat /\ g_fudge' \in Int /\ late' \in Int
         /\ Carry'
         /\ g_samples' * Sample + g_fudge' = g_samples * Sample + g_fudge + d * Tenth
<1> USE DEF Carry
<1>1. PICK r \in Int : r = Rounded(d, g_fudge) /\ 0 <= r /\ r <= 65535
  BY Fits16Bits DEF Duration
<1>2. ToneSamples(d) = r
  BY <1>1, SMT DEF ToneSamples
<1>3. Tenth \in Int /\ Sample \in Int /\ d \in Int /\ g_fudge \in Int
  <2>1. d \in Int
    BY LongestTime DEF Duration
  <2> QED
    BY Ticks, <2>1 DEF Half
<1>4. PICK p \in Int : p = r * Sample
  BY <1>3
<1>5. PICK t \in Int : t = d * Tenth
  BY <1>3
<1>6. /\ g_samples' = g_samples + r
      /\ g_fudge' = t + g_fudge - p
      /\ late' = late + t - p
  BY <1>2, <1>4, <1>5 DEF PlayTone
<1>7. Half(g_fudge')
  BY <1>1, <1>3, <1>4, <1>5, <1>6, Carried
<1>8. g_samples' * Sample + g_fudge' = g_samples * Sample + g_fudge + d * Tenth
  <2>1. PICK q \in Int : q = g_samples * Sample
    BY <1>3
  <2>2. (g_samples + r) * Sample = q + p
    BY <1>3, <1>4, <2>1
  <2> QED
    BY <1>3, <1>5, <1>6, <2>1, <2>2
<1> QED
  BY <1>1, <1>3, <1>4, <1>5, <1>6, <1>7, <1>8

-------------------------------------------------------------------------------
(* The invariant holds. *)

LEMMA InitInv == Init => IInv
<1> SUFFICES ASSUME Init PROVE IInv
  OBVIOUS
<1>1. Sample \in Int /\ 0 < Sample
  BY Ticks
<1>2. TypeOK
  BY DEF Init, TypeOK, Stages, PlayStages
<1>3. Carry
  BY <1>1 DEF Init, Carry, Half
<1>4. InPart /\ Begun /\ Fresh
  BY DEF Init, InPart, Begun, Fresh
<1> QED
  BY <1>2, <1>3, <1>4 DEF IInv

LEMMA ParseOptionsInv == IInv /\ ParseOptions => IInv'
<1> SUFFICES ASSUME IInv, ParseOptions PROVE IInv'
  OBVIOUS
<1>1. VisOf(option) \in Mode
  BY SMT DEF VisOf, Mode
<1>2. TypeOK'
  BY <1>1 DEF IInv, ParseOptions, TypeOK, Stages, PlayStages, position, unplayed
<1>3. Carry'
  BY DEF IInv, ParseOptions, Carry, unplayed
<1>4. InPart' /\ Begun' /\ Fresh'
  BY <1>1 DEF IInv, TypeOK, ParseOptions, InPart, Begun, Fresh, position, unplayed
<1> QED
  BY <1>2, <1>3, <1>4 DEF IInv

LEMMA CheckFileInv == IInv /\ CheckFile => IInv'
<1> SUFFICES ASSUME IInv, CheckFile PROVE IInv'
  OBVIOUS
<1>1. g_protocol \in Mode /\ i = 1 /\ seg = 1 /\ k = 0
  BY DEF IInv, Fresh, CheckFile
<1>2. TypeOK'
  BY <1>1 DEF IInv, CheckFile, TypeOK, Stages, PlayStages, position, unplayed
<1>3. Carry'
  BY DEF IInv, CheckFile, Carry, unplayed
<1>4. 1 \in 1 .. Len(Line(g_protocol)) /\ 0 \in 0 .. Line(g_protocol)[1].count - 1
  BY <1>1, LineTimed DEF Timed
<1>5. InPart'
  BY <1>1, <1>4 DEF CheckFile, InPart, Part, position
<1>6. Begun' /\ Fresh'
  BY <1>1 DEF CheckFile, Begun, Fresh, position
<1> QED
  BY <1>2, <1>3, <1>5, <1>6 DEF IInv

LEMMA HeaderToneInv == IInv /\ HeaderTone => IInv'
<1> SUFFICES ASSUME IInv, HeaderTone PROVE IInv'
  OBVIOUS
<1>1. stage = "header" /\ g_protocol \in Mode /\ k = 0 /\ i \in 1 .. 22 /\ g_samples \in Nat /\ Carry
  BY DEF IInv, TypeOK, InPart, HeaderTone
<1>2. Header(g_protocol)[i][2] \in Duration /\ Len(Header(g_protocol)) = 22
  BY <1>1, HeaderTones, ToneDuration
<1>3. Carry' /\ g_samples' \in Nat /\ g_fudge' \in Int /\ late' \in Int
  BY <1>1, <1>2, PlayToneStep DEF HeaderTone
<1>4. /\ stage' \in {"header", "start", "picture"}
      /\ i' \in 1 .. 22
      /\ stage' # "header" => i' = 1
      /\ UNCHANGED <<option, input, g_protocol, y, seg, k, begun>>
  <2>1. CASE i < 22
    BY <1>1, <1>2, <2>1 DEF HeaderTone
  <2>2. CASE i = 22
    BY <1>1, <1>2, <2>2 DEF HeaderTone
  <2> QED
    BY <1>1, <2>1, <2>2
<1>5. TypeOK'
  BY <1>1, <1>3, <1>4 DEF IInv, TypeOK, Stages, PlayStages
<1>6. InPart'
  BY <1>1, <1>4 DEF IInv, InPart, Part
<1>7. Begun' /\ Fresh'
  BY <1>1, <1>4 DEF Begun, Fresh
<1> QED
  BY <1>3, <1>5, <1>6, <1>7 DEF IInv

LEMMA StartToneInv == IInv /\ StartTone => IInv'
<1> SUFFICES ASSUME IInv, StartTone PROVE IInv'
  OBVIOUS
<1>1. stage = "start" /\ g_protocol \in Mode /\ k = 0 /\ i = 1 /\ g_samples \in Nat /\ Carry
  BY DEF IInv, TypeOK, InPart, StartTone
<1>2. Carry' /\ g_samples' \in Nat /\ g_fudge' \in Int /\ late' \in Int
  BY <1>1, Durations, PlayToneStep DEF StartTone
<1>3. stage' = "picture" /\ UNCHANGED <<option, input, g_protocol, i, y, seg, k, begun>>
  BY DEF StartTone, position
<1>4. TypeOK'
  BY <1>1, <1>2, <1>3 DEF IInv, TypeOK, Stages, PlayStages
<1>5. InPart'
  BY <1>1, <1>3 DEF IInv, InPart, Part
<1>6. Begun' /\ Fresh'
  BY <1>1, <1>3 DEF Begun, Fresh
<1> QED
  BY <1>2, <1>4, <1>5, <1>6 DEF IInv

LEMMA TrailerToneInv == IInv /\ TrailerTone => IInv'
<1> SUFFICES ASSUME IInv, TrailerTone PROVE IInv'
  OBVIOUS
<1>1. stage = "trailer" /\ g_protocol \in Mode /\ k = 0 /\ i \in 1 .. 5 /\ g_samples \in Nat /\ Carry
  BY DEF IInv, TypeOK, InPart, TrailerTone
<1>2. Trailer[i][2] \in Duration /\ Len(Trailer) = 5
  BY <1>1, TrailerTones, ToneDuration, Zenon
<1>3. Carry' /\ g_samples' \in Nat /\ g_fudge' \in Int /\ late' \in Int
  BY <1>1, <1>2, PlayToneStep DEF TrailerTone
<1>4. /\ stage' \in {"trailer", "write"}
      /\ i' \in 1 .. 5
      /\ UNCHANGED <<option, input, g_protocol, y, seg, k, begun>>
  BY <1>1, <1>2 DEF TrailerTone
<1>5. TypeOK'
  BY <1>1, <1>3, <1>4 DEF IInv, TypeOK, Stages, PlayStages
<1>6. InPart'
  BY <1>1, <1>4 DEF IInv, InPart, Part
<1>7. Begun' /\ Fresh'
  BY <1>1, <1>4 DEF Begun, Fresh
<1> QED
  BY <1>3, <1>5, <1>6, <1>7 DEF IInv

(* A tone of a line: the next pixel of the same part, or the first of the next. *)
LEMMA LineToneStep ==
  ASSUME IInv, LineTone
  PROVE  /\ stage = "picture" /\ g_protocol \in Mode /\ input # "broken_png"
         /\ seg \in 1 .. Len(Line(g_protocol)) /\ Len(Line(g_protocol)) \in Nat \ {0}
         /\ Part.time \in Duration /\ Part.count \in Nat \ {0}
         /\ k \in 0 .. Part.count - 1
         /\ Carry' /\ g_samples' \in Nat /\ g_fudge' \in Int /\ late' \in Int
         /\ Rounded(Part.time, g_fudge) \in Int
         /\ g_samples' = g_samples + Rounded(Part.time, g_fudge)
         /\ g_fudge' = Part.time * Tenth + g_fudge
                        - Rounded(Part.time, g_fudge) * Sample
         /\ g_samples' * Sample + g_fudge'
              = g_samples * Sample + g_fudge + Part.time * Tenth
         /\ begun' = IF k = 0 THEN [samples |-> g_samples, fudge |-> g_fudge] ELSE begun
<1>1. /\ stage = "picture" /\ g_protocol \in Mode /\ g_samples \in Nat /\ Carry
      /\ seg \in 1 .. Len(Line(g_protocol)) /\ k \in 0 .. Part.count - 1
  BY DEF IInv, TypeOK, InPart, LineTone
<1>2. Timed(Part) /\ Len(Line(g_protocol)) \in Nat \ {0}
  BY <1>1, LineTimed DEF Part
<1>3. PlayTone(Part.time)
  BY DEF LineTone, Part
<1>4. Part.time \in Duration /\ Part.count \in Nat \ {0}
  BY <1>2 DEF Timed
<1>5. /\ input # "broken_png"
      /\ begun' = IF k = 0 THEN [samples |-> g_samples, fudge |-> g_fudge] ELSE begun
  BY DEF LineTone
<1> QED
  BY <1>1, <1>2, <1>3, <1>4, <1>5, PlayToneStep

(* Where it leaves the line. *)
LEMMA LineTonePosition ==
  ASSUME IInv, LineTone
  PROVE  /\ UNCHANGED <<option, input, g_protocol, i>>
         /\ stage' \in {"picture", "trailer"}
         /\ k + 1 # Part.count => stage' = "picture" /\ k' = k + 1 /\ seg' = seg /\ y' = y
         /\ k + 1 = Part.count => k' = 0
         /\ k + 1 = Part.count /\ seg # Len(Line(g_protocol)) =>
              stage' = "picture" /\ seg' = seg + 1 /\ y' = y
         /\ k + 1 = Part.count /\ seg = Len(Line(g_protocol)) =>
              /\ seg' = 1
              /\ y' = y + LinesAtOnce(g_protocol)
              /\ stage' = IF y' >= Height[FamilyOf(g_protocol)]
                          THEN "trailer" ELSE "picture"
  BY DEF LineTone, Part

LEMMA LineToneInv == IInv /\ LineTone => IInv'
<1> SUFFICES ASSUME IInv, LineTone PROVE IInv'
  OBVIOUS
<1> DEFINE line == Line(g_protocol)
<1>1. /\ stage = "picture" /\ g_protocol \in Mode /\ g_protocol' = g_protocol
      /\ seg \in 1 .. Len(line) /\ Len(line) \in Nat \ {0}
      /\ Part.count \in Nat \ {0} /\ k \in 0 .. Part.count - 1
  BY LineToneStep, LineTonePosition
<1>2. Carry' /\ g_samples' \in Nat /\ g_fudge' \in Int /\ late' \in Int
  BY LineToneStep
<1>3. begun' \in [samples : Nat, fudge : Int] /\ y' \in Nat
  <2>1. y \in Nat /\ begun \in [samples : Nat, fudge : Int] /\ g_samples \in Nat /\ g_fudge \in Int
    BY DEF IInv, TypeOK
  <2>2. begun' \in [samples : Nat, fudge : Int]
    BY <2>1, LineToneStep
  <2>3. y' = y \/ y' = y + LinesAtOnce(g_protocol)
    BY LineTonePosition
  <2> QED
    BY <1>1, <2>1, <2>2, <2>3, LinesAtOnceType
<1>4. TypeOK'
  <2>1. k' \in Nat /\ seg' \in Nat \ {0}
    BY <1>1, LineTonePosition
  <2> QED
    BY <1>1, <1>2, <1>3, <2>1, LineTonePosition DEF IInv, TypeOK, Stages, PlayStages
<1>5. InPart'
  <2>1. CASE k + 1 # Part.count
    <3>1. k' = k + 1 /\ seg' = seg /\ stage' = "picture"
      BY <2>1, LineTonePosition
    <3>2. k' \in 0 .. Part'.count - 1 /\ seg' \in 1 .. Len(line)
      <4>1. Part' = Part
        BY <1>1, <3>1 DEF Part
      <4> QED
        BY <1>1, <2>1, <3>1, <4>1
    <3>3. i' = 1
      BY <1>1, LineTonePosition DEF IInv, InPart
    <3> QED
      BY <1>1, <3>1, <3>2, <3>3 DEF InPart
  <2>2. CASE k + 1 = Part.count
    <3>1. k' = 0 /\ seg' \in 1 .. Len(line) /\ stage' \in {"picture", "trailer"}
      <4>1. CASE seg = Len(line)
        BY <1>1, <2>2, <4>1, LineTonePosition
      <4>2. CASE seg # Len(line)
        BY <1>1, <2>2, <4>2, LineTonePosition
      <4> QED
        BY <4>1, <4>2
    <3>2. Part'.count \in Nat \ {0}
      <4>1. Timed(line[seg'])
        BY <1>1, <3>1, LineTimed
      <4> QED
        BY <1>1, <4>1 DEF Part, Timed
    <3>3. i' = 1
      BY <1>1, LineTonePosition DEF IInv, InPart
    <3> QED
      BY <1>1, <3>1, <3>2, <3>3 DEF InPart
  <2> QED
    BY <2>1, <2>2
<1>6. Begun'
  <2>1. CASE k + 1 # Part.count
    <3>1. /\ stage' = "picture" /\ input' # "broken_png" /\ k' = k + 1 /\ Part' = Part
      BY <1>1, <2>1, LineToneStep, LineTonePosition DEF Part
    <3>2. PICK p \in Int : p = Part.time * Tenth
      <4>1. Part.time \in Int /\ Tenth \in Int
        BY LineToneStep, LongestTime, Ticks DEF Duration
      <4> QED
        BY <4>1
    <3>3. PICK a \in Int : a = g_samples * Sample + g_fudge
      <4>1. g_samples \in Int /\ Sample \in Int /\ g_fudge \in Int
        BY Ticks DEF IInv, TypeOK
      <4> QED
        BY <4>1
    <3>4. g_samples' * Sample + g_fudge' = a + p
      BY <3>2, <3>3, LineToneStep
    <3>5. k \in Int /\ 0 <= k
      BY <1>1
    <3>6. CASE k = 0
      <4>1. begun'.samples = g_samples /\ begun'.fudge = g_fudge
        BY <3>6, LineToneStep
      <4>2. k' * (Part'.time * Tenth) = p
        BY <3>1, <3>2, <3>6
      <4> QED
        BY <3>1, <3>3, <3>4, <4>1, <4>2 DEF IInv, TypeOK, Carry, Begun
    <3>7. CASE k # 0
      <4>1. begun' = begun
        BY <3>7, LineToneStep
      <4>2. PICK b \in Int : b = begun.samples * Sample + begun.fudge
        <5>1. begun.samples \in Int /\ Sample \in Int /\ begun.fudge \in Int
          BY Ticks DEF IInv, TypeOK
        <5> QED
          BY <5>1
      <4>3. PICK q \in Int : q = k * p
        BY <3>5
      <4>4. a = b + q
        BY <3>2, <3>3, <3>5, <3>7, <4>2, <4>3 DEF IInv, Begun
      <4>5. k' * (Part'.time * Tenth) = q + p
        <5>1. k' * (Part'.time * Tenth) = (k + 1) * p
          BY <3>1, <3>2
        <5> QED
          BY <3>5, <4>3, <5>1
      <4>6. g_samples' * Sample + g_fudge'
              = begun'.samples * Sample + begun'.fudge + k' * (Part'.time * Tenth)
        BY <3>4, <4>1, <4>2, <4>4, <4>5
      <4> QED
        BY <3>1, <3>5, <3>7, <4>1, <4>6 DEF IInv, Begun
    <3> QED
      BY <3>6, <3>7
  <2>2. CASE k + 1 = Part.count
    BY <2>2, LineTonePosition DEF Begun
  <2> QED
    BY <2>1, <2>2
<1>7. Fresh'
  BY LineTonePosition DEF Fresh
<1> QED
  BY <1>2, <1>4, <1>5, <1>6, <1>7 DEF IInv

LEMMA OtherStepsInv ==
  ASSUME IInv, NoPicture \/ WriteFile \/ UNCHANGED vars
  PROVE  IInv'
<1>1. CASE NoPicture
  <2>1. k = 0
    BY <1>1 DEF IInv, InPart, Begun, NoPicture
  <2>2. stage' = "crash" /\ UNCHANGED <<option, input, g_protocol, position, unplayed>>
    BY <1>1 DEF NoPicture
  <2> QED
    BY <2>1, <2>2 DEF IInv, TypeOK, Carry, InPart, Begun, Fresh, Stages, PlayStages,
                      position, unplayed
<1>2. CASE WriteFile
  <2>1. k = 0
    BY <1>2 DEF IInv, TypeOK, InPart, Begun, WriteFile
  <2>2. stage = "write" /\ stage' = "exit0"
        /\ UNCHANGED <<option, input, g_protocol, position, unplayed>>
    BY <1>2 DEF WriteFile
  <2> QED
    BY <2>1, <2>2 DEF IInv, TypeOK, Carry, InPart, Begun, Fresh, Stages, PlayStages,
                      position, unplayed
<1>3. CASE UNCHANGED vars
  BY <1>3 DEF IInv, TypeOK, Carry, InPart, Begun, Fresh, Part, vars
<1> QED
  BY <1>1, <1>2, <1>3

LEMMA StepInv == IInv /\ [Next]_vars => IInv'
  BY ParseOptionsInv, CheckFileInv, HeaderToneInv, StartToneInv, LineToneInv,
     TrailerToneInv, OtherStepsInv DEF Next, Ended

(* The types are right in every behaviour. *)
THEOREM TypeCorrect == Spec => []TypeOK
<1>1. IInv => TypeOK
  BY DEF IInv
<1> QED
  BY <1>1, InitInv, StepInv, PTL DEF Spec

(* playtone keeps the audio at the nearest number of samples to the time its
   tones should have taken, in every protocol, at every rate and size. *)
THEOREM NearestAlways == Spec => []NearestSample
<1>1. IInv => NearestSample
  BY Ticks DEF IInv, Carry, Half, NearestSample
<1> QED
  BY <1>1, InitInv, StepInv, PTL DEF Spec

-------------------------------------------------------------------------------
(* The encoder implements the timeline. *)

(* Both play the same tables. *)
LEMMA SameTables ==
  /\ Timeline!Mode = Mode
  /\ Timeline!Trailer = Trailer
  /\ \A vis : /\ Timeline!Header(vis) = Header(vis)
              /\ Timeline!FamilyOf(vis) = FamilyOf(vis)
              /\ Timeline!LinesAtOnce(vis) = LinesAtOnce(vis)
              /\ Timeline!Line(vis) = Line(vis)
  /\ \A d, f : Timeline!Rounded(d, f) = Rounded(d, f)
<1>1. \A vis : Timeline!FamilyOf(vis) = FamilyOf(vis)
  BY DEF FamilyOf, Timeline!FamilyOf
<1>2. \A vis : Timeline!PixelTime(vis) = PixelTime(vis)
  BY SMT DEF PixelTime, Timeline!PixelTime
<1>3. /\ \A f, d : Timeline!Fixed(f, d) = Fixed(f, d)
      /\ \A t, d, n : Timeline!Scan(t, d, n) = Scan(t, d, n)
  BY DEF Fixed, Scan, Timeline!Fixed, Timeline!Scan
<1>4. Timeline!RgbTone = RgbTone
  BY DEF RgbTone, ToneRgb, Timeline!RgbTone, Timeline!ToneRgb
<1>5. \A b, c : Timeline!Truncate(b, c) = Truncate(b, c)
  BY SMT DEF Truncate, Timeline!Truncate
<1>6. \A c : Timeline!ToneYuv(c) = ToneYuv(c)
  BY SMT DEF ToneYuv, Timeline!ToneYuv
<1>7. Timeline!LumaTone = LumaTone
  BY <1>5, <1>6, SMT DEF LumaTone, Luma, Timeline!LumaTone, Timeline!Luma
<1>8. Timeline!Average = Average
  BY DEF Average, Timeline!Average
<1>9. Timeline!RedTone = RedTone
  BY <1>5, <1>6, <1>8, SMT DEF RedTone, RedDifference, Timeline!RedTone, Timeline!RedDifference
<1>10. Timeline!BlueTone = BlueTone
  BY <1>5, <1>6, <1>8, SMT DEF BlueTone, BlueDifference, Timeline!BlueTone, Timeline!BlueDifference
<1>11. \A d : Timeline!MartinLine(d) = MartinLine(d) /\ Timeline!ScottieLine(d) = ScottieLine(d)
  BY <1>3, <1>4, SMT DEF MartinLine, ScottieLine, Timeline!MartinLine, Timeline!ScottieLine
<1>12. Timeline!RobotLines = RobotLines /\ Timeline!PdLines = PdLines
  BY <1>3, <1>7, <1>9, <1>10, SMT DEF RobotLines, PdLines, Timeline!RobotLines, Timeline!PdLines
<1>13. \A vis : Timeline!Line(vis) = Line(vis)
  BY <1>1, <1>2, <1>11, <1>12 DEF Line, Timeline!Line
<1>14. \A b : Timeline!Digit(b) = Digit(b)
  BY SMT DEF Digit, Timeline!Digit
<1>15. \A v, n : Timeline!VisBit(v, n) = VisBit(v, n)
  BY SMT DEF VisBit, Timeline!VisBit
<1>16. \A v : Timeline!Parity(v) = Parity(v)
  BY <1>15, SMT DEF Parity, Timeline!Parity
<1>17. Timeline!Leader = Leader /\ Timeline!Trailer = Trailer
  BY SMT DEF Leader, Timeline!Leader, Trailer, Timeline!Trailer
<1>18. \A vis : Timeline!Header(vis) = Header(vis)
  <2> SUFFICES ASSUME NEW vis PROVE Timeline!Header(vis) = Header(vis)
    OBVIOUS
  <2> DEFINE Digits == [n \in 1 .. 7 |-> Digit(VisBit(vis, n - 1))]
             TDigits == [n \in 1 .. 7 |-> Timeline!Digit(Timeline!VisBit(vis, n - 1))]
             Last == <<Digit(Parity(vis)), <<1200, 300000>>>>
             TLast == <<Timeline!Digit(Timeline!Parity(vis)), <<1200, 300000>>>>
  <2>1. TDigits = Digits
    BY <1>14, <1>15, SMT
  <2>2. TLast = Last
    BY <1>14, <1>16, SMT
  <2>3. Header(vis) = Leader \o Digits \o Last
    BY SMT DEF Header
  <2>4. Timeline!Header(vis) = Timeline!Leader \o TDigits \o TLast
    BY SMT DEF Timeline!Header
  <2> HIDE DEF Digits, TDigits, Last, TLast
  <2> QED
    BY <1>17, <2>1, <2>2, <2>3, <2>4, SMT
<1>19. \A vis : Timeline!LinesAtOnce(vis) = LinesAtOnce(vis)
  BY <1>1 DEF LinesAtOnce, Timeline!LinesAtOnce
<1>20. Timeline!Mode = Mode /\ \A d, f : Timeline!Rounded(d, f) = Rounded(d, f)
  BY SMT DEF Mode, Timeline!Mode, Rounded, Timeline!Rounded
<1> QED
  BY <1>1, <1>13, <1>17, <1>18, <1>19, <1>20

(* A tone outside the lines is a tone of the timeline. *)
LEMMA PlayIsPlay ==
  ASSUME IInv, k = 0, k' = 0, NEW d \in Duration, PlayTone(d)
  PROVE  Timeline!Play(d)
<1>1. g_samples' = g_samples + Rounded(d, g_fudge)
      /\ g_fudge' = d * Tenth + g_fudge - Rounded(d, g_fudge) * Sample
  BY PlayToneStep DEF IInv, TypeOK
<1>2. TSamples = g_samples /\ TFudge = g_fudge /\ TSamples' = g_samples' /\ TFudge' = g_fudge'
  BY DEF TSamples, TFudge
<1>3. Timeline!Rounded(d, g_fudge) = Rounded(d, g_fudge)
  BY SameTables
<1> QED
  BY <1>1, <1>2, <1>3 DEF Timeline!Play

LEMMA InitMaps == Init => Timeline!Init
  BY DEF Init, Timeline!Init, TStage, TVis, TSamples, TFudge, Sending, PlayStages

LEMMA ParseOptionsMaps == IInv /\ ParseOptions => UNCHANGED Timeline!vars
<1> SUFFICES ASSUME IInv, ParseOptions PROVE UNCHANGED Timeline!vars
  OBVIOUS
<1>1. UNCHANGED <<i, y, seg, k, g_samples, g_fudge, begun>>
  BY DEF ParseOptions, position, unplayed
<1>2. ~Sending /\ ~Sending'
  BY DEF IInv, Fresh, ParseOptions, Sending, PlayStages
<1> QED
  BY <1>1, <1>2 DEF Timeline!vars, TStage, TVis, TSamples, TFudge

LEMMA CheckFileMaps == IInv /\ CheckFile => Timeline!Begin \/ UNCHANGED Timeline!vars
<1> SUFFICES ASSUME IInv, CheckFile PROVE Timeline!Begin \/ UNCHANGED Timeline!vars
  OBVIOUS
<1>1. UNCHANGED <<g_protocol, i, y, seg, k, g_samples, g_fudge, begun>>
  BY DEF CheckFile, position, unplayed
<1>2. ~Sending /\ g_protocol \in Mode
  BY DEF IInv, Fresh, CheckFile, Sending, PlayStages
<1>3. UNCHANGED <<TSamples, TFudge>>
  BY <1>1 DEF TSamples, TFudge
<1>4. CASE stage' = "header"
  <2>1. TStage = "idle" /\ TStage' = "header" /\ TVis' = g_protocol
    BY <1>1, <1>2, <1>4 DEF TStage, TVis, Sending, PlayStages
  <2> QED
    BY <1>1, <1>2, <1>3, <2>1, SameTables DEF Timeline!Begin
<1>5. CASE stage' = "exit2"
  <2>1. ~Sending'
    BY <1>5 DEF Sending, PlayStages
  <2> QED
    BY <1>1, <1>2, <1>3, <2>1 DEF Timeline!vars, TStage, TVis
<1> QED
  BY <1>4, <1>5 DEF CheckFile

LEMMA HeaderToneMaps == IInv /\ HeaderTone => Timeline!PlayHeader
<1> SUFFICES ASSUME IInv, HeaderTone PROVE Timeline!PlayHeader
  OBVIOUS
<1>1. stage = "header" /\ g_protocol \in Mode /\ k = 0 /\ i \in 1 .. 22
  BY DEF IInv, InPart, HeaderTone
<1>2. Header(g_protocol)[i][2] \in Duration
  BY <1>1, HeaderTones, ToneDuration
<1>3. UNCHANGED <<g_protocol, y, seg, k>>
  BY DEF HeaderTone
<1>4. Timeline!Play(Header(g_protocol)[i][2])
  BY <1>1, <1>2, <1>3, PlayIsPlay DEF HeaderTone
<1>5. stage' \in {"header", "start", "picture"}
  BY <1>1 DEF HeaderTone
<1>6. TStage = stage /\ TStage' = stage' /\ TVis = g_protocol /\ TVis' = g_protocol
  BY <1>1, <1>3, <1>5 DEF TStage, TVis, Sending, PlayStages
<1>7. IF i < Len(Header(g_protocol))
      THEN i' = i + 1 /\ stage' = stage
      ELSE i' = 1 /\ stage' = IF FamilyOf(g_protocol) = "s" THEN "start" ELSE "picture"
  BY DEF HeaderTone
<1>8. /\ Timeline!Header(g_protocol) = Header(g_protocol)
      /\ Timeline!FamilyOf(g_protocol) = FamilyOf(g_protocol)
  BY SameTables
<1> QED
  BY <1>1, <1>3, <1>4, <1>6, <1>7, <1>8 DEF Timeline!PlayHeader

LEMMA StartToneMaps == IInv /\ StartTone => Timeline!PlayStart
<1> SUFFICES ASSUME IInv, StartTone PROVE Timeline!PlayStart
  OBVIOUS
<1>1. stage = "start" /\ stage' = "picture" /\ g_protocol \in Mode /\ k = 0
  BY DEF IInv, InPart, StartTone
<1>2. UNCHANGED <<g_protocol, i, y, seg, k>>
  BY DEF StartTone, position
<1>3. Timeline!Play(90000)
  BY <1>1, <1>2, Durations, PlayIsPlay DEF StartTone
<1>4. TStage = "start" /\ TStage' = "picture" /\ UNCHANGED TVis
  BY <1>1, <1>2 DEF TStage, TVis, Sending, PlayStages
<1> QED
  BY <1>2, <1>3, <1>4 DEF Timeline!PlayStart

LEMMA TrailerToneMaps == IInv /\ TrailerTone => Timeline!PlayTrailer
<1> SUFFICES ASSUME IInv, TrailerTone PROVE Timeline!PlayTrailer
  OBVIOUS
<1>1. stage = "trailer" /\ g_protocol \in Mode /\ k = 0 /\ i \in 1 .. 5
  BY DEF IInv, InPart, TrailerTone
<1>2. Trailer[i][2] \in Duration
  BY <1>1, TrailerTones, ToneDuration, Zenon
<1>3. UNCHANGED <<g_protocol, y, seg, k>>
  BY DEF TrailerTone
<1>4. Timeline!Play(Trailer[i][2])
  BY <1>1, <1>2, <1>3, PlayIsPlay DEF TrailerTone
<1>5. IF i < Len(Trailer)
      THEN i' = i + 1 /\ stage' = stage
      ELSE i' = 1 /\ stage' = "write"
  BY DEF TrailerTone
<1>6. TStage = "trailer" /\ UNCHANGED TVis
      /\ TStage' = IF i < Len(Trailer) THEN "trailer" ELSE "end"
  BY <1>1, <1>3, <1>5 DEF TStage, TVis, Sending, PlayStages
<1>7. Timeline!Trailer = Trailer
  BY SameTables
<1> QED
  BY <1>3, <1>4, <1>5, <1>6, <1>7 DEF Timeline!PlayTrailer

(* A pixel of a scan does not show; the last one ends a part, whose samples are
   those of one tone: only one number is the nearest. *)
LEMMA LineToneMaps ==
  ASSUME IInv, LineTone
  PROVE  Timeline!PlayPart \/ UNCHANGED Timeline!vars
<1> DEFINE d == Part.time * Part.count
<1>1. /\ stage = "picture" /\ g_protocol \in Mode /\ UNCHANGED <<g_protocol, i>>
      /\ Part.time \in Int /\ Part.count \in Int /\ k \in Int /\ 0 <= k
      /\ g_samples \in Int /\ g_samples' \in Int /\ Half(g_fudge) /\ Half(g_fudge')
  <2>1. /\ stage = "picture" /\ g_protocol \in Mode /\ UNCHANGED <<g_protocol, i>>
        /\ Part.time \in Duration /\ Part.count \in Nat /\ k \in 0 .. Part.count - 1
    BY LineToneStep, LineTonePosition
  <2>2. Half(g_fudge) /\ Half(g_fudge')
    BY LineToneStep DEF IInv, Carry
  <2>3. g_samples \in Nat /\ g_samples' \in Nat
    BY LineToneStep DEF IInv, TypeOK
  <2> QED
    BY <2>1, <2>2, <2>3, LongestTime DEF Duration
<1>2. TStage = "picture" /\ TStage' = stage' /\ UNCHANGED TVis /\ TVis = g_protocol
  BY <1>1, LineTonePosition DEF TStage, TVis, Sending, PlayStages
<1>3. CASE k + 1 # Part.count
  <2>1. stage' = "picture" /\ UNCHANGED <<i, y, seg>> /\ k' = k + 1
    BY <1>1, <1>3, LineTonePosition
  <2>2. UNCHANGED <<TSamples, TFudge>>
    <3>1. k' # 0
      BY <1>1, <2>1
    <3>2. CASE k = 0
      BY <3>1, <3>2, LineToneStep DEF TSamples, TFudge
    <3>3. CASE k # 0
      BY <3>1, <3>3, LineToneStep DEF TSamples, TFudge
    <3> QED
      BY <3>2, <3>3
  <2> QED
    BY <1>2, <2>1, <2>2 DEF Timeline!vars
<1>4. CASE k + 1 = Part.count
  <2>1. k' = 0 /\ TSamples' = g_samples' /\ TFudge' = g_fudge'
    BY <1>4, LineTonePosition DEF TSamples, TFudge
  <2>2. PICK s \in Int, f \in Int : s = TSamples /\ f = TFudge /\ Half(f)
    <3>1. CASE k = 0
      BY <1>1, <3>1 DEF TSamples, TFudge, Half
    <3>2. CASE k # 0
      BY <1>1, <3>2 DEF TSamples, TFudge, Half, IInv, Begun
    <3> QED
      BY <3>1, <3>2
  <2>3. PICK p \in Int : p = Part.time * Tenth
    BY <1>1, Ticks
  <2>4. g_samples * Sample + g_fudge = s * Sample + f + k * p
    <3>1. CASE k = 0
      <4>1. s = g_samples /\ f = g_fudge
        BY <2>2, <3>1 DEF TSamples, TFudge
      <4>2. s * Sample \in Int
        BY Ticks
      <4> QED
        BY <2>3, <3>1, <4>1, <4>2
    <3>2. CASE k # 0
      BY <1>1, <2>2, <2>3, <3>2 DEF TSamples, TFudge, IInv, Begun
    <3> QED
      BY <3>1, <3>2
  <2>5. g_samples' * Sample + g_fudge' = s * Sample + f + d * Tenth
    <3>1. g_samples' * Sample + g_fudge' = s * Sample + f + k * p + p
      BY <2>3, <2>4, LineToneStep
    <3>2. PICK q \in Int : q = k * p
      BY <1>1
    <3>3. d * Tenth = q + p
      <4>1. d = Part.time * (k + 1)
        BY <1>4
      <4>2. d * Tenth = (k + 1) * (Part.time * Tenth)
        BY <1>1, <4>1, Ticks
      <4> QED
        BY <1>1, <2>3, <3>2, <4>2, Product
    <3>4. s * Sample \in Int
      BY Ticks
    <3> QED
      BY <3>1, <3>2, <3>3, <3>4
  <2> DEFINE r == g_samples' - s
  <2>6. g_fudge' = d * Tenth + f - r * Sample
    <3>1. PICK a \in Int : a = g_samples' * Sample
      BY <1>1, Ticks, Product
    <3>2. PICK b \in Int : b = s * Sample
      BY Ticks
    <3>3. r * Sample = a - b
      BY <1>1, <3>1, <3>2, Ticks
    <3>4. PICK t \in Int : t = d * Tenth
      BY <1>1, Ticks
    <3>5. g_fudge' \in Int
      BY <1>1 DEF Half
    <3> QED
      BY <2>5, <3>1, <3>2, <3>3, <3>4, <3>5
  <2>7. r = Rounded(d, f)
    <3>1. d \in Int /\ r \in Int
      BY <1>1
    <3>2. Half(d * Tenth + f - r * Sample)
      BY <1>1, <2>6
    <3> HIDE DEF d, r
    <3> QED
      BY <2>2, <3>1, <3>2, RoundedOnly
  <2>8. Timeline!Play(d)
    <3>1. g_samples' = s + Rounded(d, f)
      BY <1>1, <2>7
    <3>2. g_fudge' = d * Tenth + f - Rounded(d, f) * Sample
      BY <2>6, <2>7
    <3> HIDE DEF d
    <3> QED
      BY <2>1, <2>2, <3>1, <3>2, SameTables DEF Timeline!Play
  <2>9. /\ Timeline!Line(g_protocol) = Line(g_protocol)
        /\ Timeline!FamilyOf(g_protocol) = FamilyOf(g_protocol)
        /\ Timeline!LinesAtOnce(g_protocol) = LinesAtOnce(g_protocol)
    BY SameTables
  <2>10. CASE seg # Len(Line(g_protocol))
    BY <1>1, <1>2, <1>4, <2>8, <2>9, <2>10, LineTonePosition DEF Timeline!PlayPart, Part
  <2>11. CASE seg = Len(Line(g_protocol))
    BY <1>1, <1>2, <1>4, <2>8, <2>9, <2>11, LineTonePosition DEF Timeline!PlayPart, Part
  <2> QED
    BY <2>10, <2>11
<1> QED
  BY <1>3, <1>4

LEMMA OtherStepsMap ==
  ASSUME IInv, NoPicture \/ WriteFile \/ UNCHANGED vars
  PROVE  UNCHANGED Timeline!vars
<1>1. CASE NoPicture
  <2>1. /\ stage = "picture" /\ stage' = "crash" /\ g_protocol \in Mode
        /\ UNCHANGED <<g_protocol, i, y, seg, k, g_samples, g_fudge, begun>>
    BY <1>1 DEF IInv, InPart, NoPicture, position, unplayed
  <2>2. g_protocol # 0
    BY <2>1, SMT DEF Mode
  <2> QED
    BY <2>1, <2>2 DEF Timeline!vars, TStage, TVis, TSamples, TFudge, Sending, PlayStages
<1>2. CASE WriteFile
  <2>1. /\ stage = "write" /\ stage' = "exit0"
        /\ UNCHANGED <<g_protocol, i, y, seg, k, g_samples, g_fudge, begun>>
    BY <1>2 DEF WriteFile, position, unplayed
  <2> QED
    BY <2>1 DEF Timeline!vars, TStage, TVis, TSamples, TFudge, Sending, PlayStages
<1>3. CASE UNCHANGED vars
  BY <1>3 DEF Timeline!vars, TStage, TVis, TSamples, TFudge, Sending, vars
<1> QED
  BY <1>1, <1>2, <1>3

LEMMA StepMaps == IInv /\ [Next]_vars => [Timeline!Next]_(Timeline!vars)
<1> SUFFICES ASSUME IInv, [Next]_vars PROVE [Timeline!Next]_(Timeline!vars)
  OBVIOUS
<1>1. CASE ParseOptions
  BY <1>1, ParseOptionsMaps
<1>2. CASE CheckFile
  BY <1>2, CheckFileMaps DEF Timeline!Next
<1>3. CASE HeaderTone
  BY <1>3, HeaderToneMaps DEF Timeline!Next
<1>4. CASE StartTone
  BY <1>4, StartToneMaps DEF Timeline!Next
<1>5. CASE LineTone
  BY <1>5, LineToneMaps DEF Timeline!Next
<1>6. CASE TrailerTone
  BY <1>6, TrailerToneMaps DEF Timeline!Next
<1>7. CASE NoPicture \/ WriteFile \/ UNCHANGED vars
  BY <1>7, OtherStepsMap
<1> QED
  BY <1>1, <1>2, <1>3, <1>4, <1>5, <1>6, <1>7 DEF Next, Ended

(* For every size of picture and every rate, a scan of separately rounded pixels
   is as long as one tone of the whole scan: the encoder implements the
   timeline. *)
THEOREM TimelineImplemented == Spec => ImplementsTimeline
<1>1. Spec => []IInv
  BY InitInv, StepInv, PTL DEF Spec
<1> QED
  BY <1>1, InitMaps, StepMaps, PTL DEF Spec, ImplementsTimeline, Timeline!Spec

-------------------------------------------------------------------------------
(* The header announces the mode. *)

(* What a receiver has heard of the header. *)
HeardSoFar(n) ==
  Len(heard) = n /\ \A m \in 1 .. n : heard[m] = Header(g_protocol)[m][1]

HeardInv ==
  /\ heard \in Seq(Nat)
  /\ stage \in {"options", "filetype"} => heard = <<>>
  /\ stage = "header" => HeardSoFar(i - 1)
  /\ stage \in {"start", "picture", "trailer", "write"} => HeardSoFar(22)

(* The elements of two sequences, one after the other. *)
LEMMA First ==
  ASSUME NEW S, NEW a \in Seq(S), NEW b \in Seq(S), NEW n \in 1 .. Len(a)
  PROVE  (a \o b)[n] = a[n]
  BY SMT

LEMMA Second ==
  ASSUME NEW S, NEW a \in Seq(S), NEW b \in Seq(S), NEW n \in 1 .. Len(b)
  PROVE  (a \o b)[Len(a) + n] = b[n]
  BY SMT

LEMMA Lengths ==
  ASSUME NEW S, NEW a \in Seq(S), NEW b \in Seq(S)
  PROVE  a \o b \in Seq(S) /\ Len(a \o b) = Len(a) + Len(b)
  BY SMT

LEMMA Joined ==
  ASSUME NEW S, NEW a \in Seq(S), NEW b \in Seq(S), NEW c \in Seq(S)
  PROVE  /\ \A n \in 1 .. Len(a) : ((a \o b) \o c)[n] = a[n]
         /\ \A n \in 1 .. Len(b) : ((a \o b) \o c)[Len(a) + n] = b[n]
         /\ \A n \in 1 .. Len(c) : ((a \o b) \o c)[(Len(a) + Len(b)) + n] = c[n]
<1> DEFINE d == a \o b
<1>1. /\ d \in Seq(S) /\ Len(d) = Len(a) + Len(b) /\ Len(a) \in Nat /\ Len(b) \in Nat
      /\ \A n \in 1 .. Len(a) : d[n] = a[n]
      /\ \A n \in 1 .. Len(b) : d[Len(a) + n] = b[n]
  BY Lengths, First, Second
<1> HIDE DEF d
<1>2. ASSUME NEW n \in 1 .. Len(a)
      PROVE  (d \o c)[n] = a[n]
  <2>1. n \in 1 .. Len(d)
    BY <1>1
  <2>2. (d \o c)[n] = d[n]
    BY <1>1, <2>1, First
  <2> QED
    BY <1>1, <2>2
<1>3. ASSUME NEW n \in 1 .. Len(b)
      PROVE  (d \o c)[Len(a) + n] = b[n]
  <2>1. Len(a) + n \in 1 .. Len(d)
    BY <1>1
  <2>2. (d \o c)[Len(a) + n] = d[Len(a) + n]
    BY <1>1, <2>1, First
  <2> QED
    BY <1>1, <2>2
<1>4. ASSUME NEW n \in 1 .. Len(c)
      PROVE  (d \o c)[(Len(a) + Len(b)) + n] = c[n]
  <2>1. (d \o c)[Len(d) + n] = c[n]
    BY <1>1, Second
  <2> QED
    BY <1>1, <2>1
<1> QED
  BY <1>2, <1>3, <1>4 DEF d

(* The tones of the header from the start bit on. *)
LEMMA HeaderDigits ==
  ASSUME NEW vis \in Mode
  PROVE  /\ Header(vis)[13][1] = 1200
         /\ \A n \in 1 .. 7 : Header(vis)[13 + n][1] = Digit(VisBit(vis, n - 1))[1]
         /\ Header(vis)[21][1] = Digit(Parity(vis))[1]
         /\ Header(vis)[22][1] = 1200
<1> DEFINE Digits == [n \in 1 .. 7 |-> Digit(VisBit(vis, n - 1))]
           Last == <<Digit(Parity(vis)), <<1200, 300000>>>>
<1>1. Header(vis) = (Leader \o Digits) \o Last
  BY DEF Header
<1>2. Leader \in Seq(Tone) /\ Len(Leader) = 13 /\ Leader[13][1] = 1200
  BY Durations, SMT DEF Leader, Tone
<1>3. \A bit : Digit(bit) \in Tone
  <2>1. 300000 \in Duration
    BY Durations, SMT
  <2> QED
    BY <2>1, SMT DEF Digit, Tone
<1>4. /\ Digits \in Seq(Tone) /\ Len(Digits) = 7
      /\ \A n \in 1 .. 7 : Digits[n] = Digit(VisBit(vis, n - 1))
  BY <1>3, SMT
<1>5. Last \in Seq(Tone) /\ Len(Last) = 2 /\ Last[1] = Digit(Parity(vis)) /\ Last[2][1] = 1200
  <2>1. <<1200, 300000>> \in Tone
    BY Durations, SMT DEF Tone
  <2> QED
    BY <1>3, <2>1, SMT
<1> HIDE DEF Digits, Last
<1> DEFINE h == Header(vis)
<1> HIDE DEF h
<1>6. /\ \A n \in 1 .. Len(Leader) : h[n] = Leader[n]
      /\ \A n \in 1 .. Len(Digits) : h[Len(Leader) + n] = Digits[n]
      /\ \A n \in 1 .. Len(Last) : h[(Len(Leader) + Len(Digits)) + n] = Last[n]
  <2> DEFINE long == (Leader \o Digits) \o Last
  <2>1. Leader \in Seq(Tone) /\ Digits \in Seq(Tone) /\ Last \in Seq(Tone)
    BY <1>2, <1>4, <1>5, Zenon
  <2>2. /\ \A n \in 1 .. Len(Leader) : long[n] = Leader[n]
        /\ \A n \in 1 .. Len(Digits) : long[Len(Leader) + n] = Digits[n]
        /\ \A n \in 1 .. Len(Last) : long[(Len(Leader) + Len(Digits)) + n] = Last[n]
    <3> HIDE DEF Digits, Last
    <3>1. \A s, t, u \in Seq(Tone) :
            /\ \A n \in 1 .. Len(s) : ((s \o t) \o u)[n] = s[n]
            /\ \A n \in 1 .. Len(t) : ((s \o t) \o u)[Len(s) + n] = t[n]
            /\ \A n \in 1 .. Len(u) : ((s \o t) \o u)[(Len(s) + Len(t)) + n] = u[n]
      BY Joined
    <3> QED
      BY <2>1, <3>1, Zenon
  <2>3. h = long
    BY <1>1, Zenon DEF h
  <2> HIDE DEF long
  <2> QED
    BY <2>2, <2>3, Zenon
<1>7. /\ h[13] = Leader[13]
      /\ \A n \in 1 .. 7 : h[13 + n] = Digits[n]
      /\ h[21] = Last[1]
      /\ h[22] = Last[2]
  <2>1. PICK a, b, c : a = Len(Leader) /\ b = Len(Digits) /\ c = Len(Last)
    OBVIOUS
  <2>2. a = 13 /\ b = 7 /\ c = 2
    BY <1>2, <1>4, <1>5, <2>1, Zenon
  <2>3. /\ \A n \in 1 .. a : h[n] = Leader[n]
        /\ \A n \in 1 .. b : h[a + n] = Digits[n]
        /\ \A n \in 1 .. c : h[(a + b) + n] = Last[n]
    BY <1>6, <2>1, Zenon
  <2>4. /\ h[13] = Leader[13] /\ \A n \in 1 .. 7 : h[13 + n] = Digits[n]
    BY <2>2, <2>3
  <2>5. (a + b) + 1 = 21 /\ (a + b) + 2 = 22 /\ 1 \in 1 .. c /\ 2 \in 1 .. c
    BY <2>2
  <2>6. h[21] = Last[1] /\ h[22] = Last[2]
    BY <2>3, <2>5
  <2> QED
    BY <2>4, <2>6
<1>8. h[13][1] = 1200 /\ h[21][1] = Digit(Parity(vis))[1] /\ h[22][1] = 1200
  <2>1. Leader[13][1] = 1200 /\ Last[1] = Digit(Parity(vis)) /\ Last[2][1] = 1200
    BY <1>2, <1>5, Zenon
  <2> HIDE DEF Last
  <2> QED
    BY <1>7, <2>1
<1>9. \A n \in 1 .. 7 : h[13 + n][1] = Digit(VisBit(vis, n - 1))[1]
  BY <1>4, <1>7, Zenon
<1> QED
  BY <1>8, <1>9 DEF h

(* The digits are 0 and 1, and with their weights make the code. *)
LEMMA Code ==
  ASSUME NEW vis \in Mode
  PROVE  /\ \A n \in 1 .. 7 : VisBit(vis, n - 1) \in {0, 1}
         /\ Parity(vis) \in {0, 1}
         /\ VisBit(vis, 0) + 2 * VisBit(vis, 1) + 4 * VisBit(vis, 2) + 8 * VisBit(vis, 3)
              + 16 * VisBit(vis, 4) + 32 * VisBit(vis, 5) + 64 * VisBit(vis, 6) = vis
<1>1. /\ 2^0 = 1 /\ 2^1 = 2 /\ 2^2 = 4 /\ 2^3 = 8 /\ 2^4 = 16 /\ 2^5 = 32 /\ 2^6 = 64
  BY SMT
<1>2. /\ VisBit(vis, 0) = vis % 2 /\ VisBit(vis, 1) = (vis \div 2) % 2
      /\ VisBit(vis, 2) = (vis \div 4) % 2 /\ VisBit(vis, 3) = (vis \div 8) % 2
      /\ VisBit(vis, 4) = (vis \div 16) % 2 /\ VisBit(vis, 5) = (vis \div 32) % 2
      /\ VisBit(vis, 6) = (vis \div 64) % 2
  BY <1>1, SMT DEF VisBit, Mode
<1>3. /\ VisBit(vis, 0) \in {0, 1} /\ VisBit(vis, 1) \in {0, 1} /\ VisBit(vis, 2) \in {0, 1}
      /\ VisBit(vis, 3) \in {0, 1} /\ VisBit(vis, 4) \in {0, 1} /\ VisBit(vis, 5) \in {0, 1}
      /\ VisBit(vis, 6) \in {0, 1}
  BY <1>2, SMT DEF Mode
<1>4. \A n \in 1 .. 7 : VisBit(vis, n - 1) \in {0, 1}
  <2> SUFFICES ASSUME NEW n \in 1 .. 7 PROVE VisBit(vis, n - 1) \in {0, 1}
    OBVIOUS
  <2>1. n - 1 \in {0, 1, 2, 3, 4, 5, 6}
    OBVIOUS
  <2> QED
    BY <1>3, <2>1
<1>5. Parity(vis) \in {0, 1}
  BY <1>3, SMT DEF Parity
<1>6. VisBit(vis, 0) + 2 * VisBit(vis, 1) + 4 * VisBit(vis, 2) + 8 * VisBit(vis, 3)
        + 16 * VisBit(vis, 4) + 32 * VisBit(vis, 5) + 64 * VisBit(vis, 6) = vis
  <2>1. vis = 44 \/ vis = 40 \/ vis = 60 \/ vis = 56 \/ vis = 76 \/ vis = 8 \/ vis = 95
    BY DEF Mode
  <2> QED
    BY <1>2, <2>1, SMT
<1> QED
  BY <1>4, <1>5, <1>6

(* As many ones as the digits add up to. *)
LEMMA Ones ==
  ASSUME NEW d \in [1 .. 8 -> {0, 1}]
  PROVE  Cardinality({n \in 1 .. 8 : d[n] = 1})
           = d[1] + d[2] + d[3] + d[4] + d[5] + d[6] + d[7] + d[8]
<1> DEFINE S(m) == {n \in 1 .. m : d[n] = 1}
<1>1. ASSUME NEW m \in 0 .. 7, IsFiniteSet(S(m))
      PROVE  IsFiniteSet(S(m + 1)) /\ Cardinality(S(m + 1)) = Cardinality(S(m)) + d[m + 1]
  <2>1. Cardinality(S(m)) \in Nat /\ m + 1 \in 1 .. 8 /\ m + 1 \notin S(m)
    BY <1>1, FS_CardinalityType
  <2>2. CASE d[m + 1] = 1
    <3>1. S(m + 1) = S(m) \union {m + 1}
      BY <2>2
    <3> HIDE DEF S
    <3> QED
      BY <1>1, <2>1, <2>2, <3>1, FS_AddElement
  <2>3. CASE d[m + 1] = 0
    <3>1. S(m + 1) = S(m)
      BY <2>3
    <3> HIDE DEF S
    <3> QED
      BY <1>1, <2>1, <2>3, <3>1
  <2> QED
    BY <2>1, <2>2, <2>3
<1>2. S(0) = {}
  OBVIOUS
<1>3. IsFiniteSet(S(0)) /\ Cardinality(S(0)) = 0
  BY <1>2, FS_EmptySet
<1> HIDE DEF S
<1>4. IsFiniteSet(S(1)) /\ Cardinality(S(1)) = d[1]
  BY <1>1, <1>3
<1>5. IsFiniteSet(S(2)) /\ Cardinality(S(2)) = d[1] + d[2]
  BY <1>1, <1>4
<1>6. IsFiniteSet(S(3)) /\ Cardinality(S(3)) = d[1] + d[2] + d[3]
  BY <1>1, <1>5
<1>7. IsFiniteSet(S(4)) /\ Cardinality(S(4)) = d[1] + d[2] + d[3] + d[4]
  BY <1>1, <1>6
<1>8. IsFiniteSet(S(5)) /\ Cardinality(S(5)) = d[1] + d[2] + d[3] + d[4] + d[5]
  BY <1>1, <1>7
<1>9. IsFiniteSet(S(6)) /\ Cardinality(S(6)) = d[1] + d[2] + d[3] + d[4] + d[5] + d[6]
  BY <1>1, <1>8
<1>10. IsFiniteSet(S(7))
       /\ Cardinality(S(7)) = d[1] + d[2] + d[3] + d[4] + d[5] + d[6] + d[7]
  BY <1>1, <1>9
<1>11. Cardinality(S(8)) = d[1] + d[2] + d[3] + d[4] + d[5] + d[6] + d[7] + d[8]
  BY <1>1, <1>10
<1> QED
  BY <1>11 DEF S

LEMMA HeardInit == Init => HeardInv
  BY DEF Init, HeardInv

LEMMA HeardStep == IInv /\ HeardInv /\ [Next]_vars => HeardInv'
<1> SUFFICES ASSUME IInv, HeardInv, [Next]_vars PROVE HeardInv'
  OBVIOUS
<1>1. CASE HeaderTone
  <2>1. /\ stage = "header" /\ g_protocol \in Mode /\ g_protocol' = g_protocol /\ i \in 1 .. 22
        /\ heard \in Seq(Nat) /\ HeardSoFar(i - 1)
    BY <1>1 DEF IInv, InPart, HeardInv, HeaderTone
  <2>2. heard' = Append(heard, Header(g_protocol)[i][1])
    BY <1>1 DEF HeaderTone
  <2>3. Len(Header(g_protocol)) = 22 /\ Header(g_protocol)[i][1] \in Nat
    BY <2>1, HeaderTones DEF Tone
  <2>4. heard' \in Seq(Nat) /\ Len(heard') = i /\ \A m \in 1 .. i : heard'[m] = Header(g_protocol)[m][1]
    <3>1. heard' \in Seq(Nat) /\ Len(heard') = Len(heard) + 1
          /\ heard'[Len(heard) + 1] = Header(g_protocol)[i][1]
          /\ \A m \in 1 .. Len(heard) : heard'[m] = heard[m]
      BY <2>1, <2>2, <2>3
    <3>2. PICK l \in Nat : l = Len(heard) /\ l = i - 1
      BY <2>1 DEF HeardSoFar
    <3>3. \A m \in 1 .. l : heard'[m] = Header(g_protocol)[m][1]
      BY <2>1, <3>1, <3>2 DEF HeardSoFar
    <3>4. heard'[i] = Header(g_protocol)[i][1]
      BY <2>1, <3>1, <3>2
    <3>5. \A m \in 1 .. i : m \in 1 .. l \/ m = i
      BY <2>1, <3>2
    <3> QED
      <4>1. Len(heard') = i
        BY <2>1, <3>1, <3>2
      <4>2. \A m \in 1 .. i : heard'[m] = Header(g_protocol)[m][1]
        BY <3>3, <3>4, <3>5, Zenon
      <4> QED
        BY <3>1, <4>1, <4>2, Zenon
  <2>5. CASE i < 22
    <3>1. i' = i + 1 /\ stage' = "header"
      BY <1>1, <2>1, <2>3, <2>5 DEF HeaderTone
    <3> QED
      BY <2>1, <2>4, <3>1 DEF HeardInv, HeardSoFar
  <2>6. CASE i = 22
    <3>1. stage' \in {"start", "picture"}
      BY <1>1, <2>3, <2>6 DEF HeaderTone
    <3> QED
      BY <2>1, <2>4, <2>6, <3>1 DEF HeardInv, HeardSoFar
  <2> QED
    BY <2>1, <2>5, <2>6
<1>2. CASE ParseOptions
  BY <1>2 DEF HeardInv, HeardSoFar, ParseOptions
<1>3. CASE CheckFile
  <2>1. i' = 1 /\ heard' = <<>> /\ stage' \in {"header", "exit2"}
    BY <1>3 DEF IInv, Fresh, HeardInv, CheckFile, position
  <2>2. HeardSoFar(0)'
    BY <2>1 DEF HeardSoFar
  <2> QED
    BY <2>1, <2>2 DEF HeardInv
<1>4. CASE StartTone \/ NoPicture \/ WriteFile
  <2>1. /\ stage \in {"start", "picture", "write"}
        /\ stage' \notin {"options", "filetype", "header"}
        /\ UNCHANGED <<g_protocol, heard>>
    BY <1>4 DEF StartTone, NoPicture, WriteFile
  <2> QED
    BY <2>1 DEF HeardInv, HeardSoFar
<1>5. CASE LineTone
  <2>1. stage = "picture" /\ stage' \in {"picture", "trailer"} /\ UNCHANGED <<g_protocol, heard>>
    BY <1>5, LineTonePosition DEF LineTone
  <2> QED
    BY <2>1 DEF HeardInv, HeardSoFar
<1>6. CASE TrailerTone
  <2>1. stage = "trailer" /\ stage' \in {"trailer", "write"} /\ UNCHANGED <<g_protocol, heard>>
    BY <1>6 DEF TrailerTone
  <2> QED
    BY <2>1 DEF HeardInv, HeardSoFar
<1>7. CASE UNCHANGED vars
  BY <1>7 DEF HeardInv, HeardSoFar, vars
<1> QED
  BY <1>1, <1>2, <1>3, <1>4, <1>5, <1>6, <1>7 DEF Next, Ended

LEMMA HeardAnnounces == IInv /\ HeardInv => ModeAnnounced
<1> SUFFICES ASSUME IInv, HeardInv, stage \in {"start", "picture", "trailer", "write"}
             PROVE  /\ HeardCode = g_protocol
                    /\ Cardinality({n \in 1 .. 8 : HeardDigit(n) = 1}) % 2 = 0
                    /\ heard[Len(heard) - 9] = 1200 /\ heard[Len(heard)] = 1200
  BY DEF ModeAnnounced
<1>1. g_protocol \in Mode
  BY DEF IInv, TypeOK, PlayStages
<1>2. Len(heard) = 22 /\ \A m \in 1 .. 22 : heard[m] = Header(g_protocol)[m][1]
  BY DEF HeardInv, HeardSoFar
<1>3. heard[13] = 1200 /\ heard[22] = 1200
  BY <1>1, <1>2, HeaderDigits
<1>4. ASSUME NEW b \in {0, 1}, NEW n \in 1 .. 8, heard[13 + n] = Digit(b)[1]
      PROVE  HeardDigit(n) = b
  <2>1. Len(heard) - 9 + n = 13 + n
    BY <1>2
  <2>2. Digit(b)[1] = IF b = 1 THEN 1100 ELSE 1300
    BY DEF Digit
  <2> QED
    BY <1>4, <2>1, <2>2 DEF HeardDigit
<1>5. ASSUME NEW n \in 1 .. 7
      PROVE  HeardDigit(n) = VisBit(g_protocol, n - 1)
  <2>1. VisBit(g_protocol, n - 1) \in {0, 1} /\ n \in 1 .. 8 /\ 13 + n \in 1 .. 22
    BY <1>1, Code
  <2>2. heard[13 + n] = Digit(VisBit(g_protocol, n - 1))[1]
    BY <1>1, <1>2, <2>1, HeaderDigits
  <2> QED
    BY <1>4, <2>1, <2>2
<1>6. HeardDigit(8) = Parity(g_protocol)
  <2>1. heard[13 + 8] = Digit(Parity(g_protocol))[1]
    BY <1>1, <1>2, HeaderDigits
  <2> QED
    BY <1>1, <1>4, <2>1, Code
<1> DEFINE d == [n \in 1 .. 8 |-> HeardDigit(n)]
           v(n) == VisBit(g_protocol, n)
<1>7. /\ d[1] = v(0) /\ d[2] = v(1) /\ d[3] = v(2) /\ d[4] = v(3) /\ d[5] = v(4)
      /\ d[6] = v(5) /\ d[7] = v(6) /\ d[8] = Parity(g_protocol)
  BY <1>5, <1>6
<1>8. /\ v(0) \in {0, 1} /\ v(1) \in {0, 1} /\ v(2) \in {0, 1} /\ v(3) \in {0, 1}
      /\ v(4) \in {0, 1} /\ v(5) \in {0, 1} /\ v(6) \in {0, 1}
  <2>1. \A n \in 1 .. 7 : v(n - 1) \in {0, 1}
    BY <1>1, Code
  <2> HIDE DEF v
  <2> QED
    BY <2>1
<1>9. HeardCode = g_protocol
  <2>1. HeardCode = d[1] + 2 * d[2] + 4 * d[3] + 8 * d[4] + 16 * d[5] + 32 * d[6] + 64 * d[7]
    BY DEF HeardCode
  <2>2. v(0) + 2 * v(1) + 4 * v(2) + 8 * v(3) + 16 * v(4) + 32 * v(5) + 64 * v(6) = g_protocol
    BY <1>1, Code
  <2> HIDE DEF d, v
  <2> QED
    BY <1>7, <2>1, <2>2
<1>10. Cardinality({n \in 1 .. 8 : HeardDigit(n) = 1}) % 2 = 0
  <2>1. d \in [1 .. 8 -> {0, 1}]
    BY DEF HeardDigit
  <2>2. {n \in 1 .. 8 : HeardDigit(n) = 1} = {n \in 1 .. 8 : d[n] = 1}
    OBVIOUS
  <2>3. Parity(g_protocol) = (v(0) + v(1) + v(2) + v(3) + v(4) + v(5) + v(6)) % 2
    BY DEF Parity
  <2> HIDE DEF d, v
  <2>4. Cardinality({n \in 1 .. 8 : d[n] = 1})
          = v(0) + v(1) + v(2) + v(3) + v(4) + v(5) + v(6) + Parity(g_protocol)
    BY <1>7, <2>1, Ones
  <2>5. (v(0) + v(1) + v(2) + v(3) + v(4) + v(5) + v(6) + Parity(g_protocol)) % 2 = 0
    <3>1. PICK s \in Int : s = v(0) + v(1) + v(2) + v(3) + v(4) + v(5) + v(6)
      BY <1>8
    <3> QED
      BY <2>3, <3>1
  <2> QED
    BY <2>2, <2>4, <2>5
<1>11. heard[Len(heard) - 9] = 1200 /\ heard[Len(heard)] = 1200
  BY <1>2, <1>3
<1> QED
  BY <1>9, <1>10, <1>11

(* From the tones of the header alone, a receiver finds the protocol the picture
   is sent in, whichever it is: seven digits, even parity, a start and a stop bit. *)
THEOREM AnnouncedAlways == Spec => []ModeAnnounced
<1>1. Init => IInv /\ HeardInv
  BY InitInv, HeardInit
<1>2. IInv /\ HeardInv /\ [Next]_vars => (IInv /\ HeardInv)'
  BY StepInv, HeardStep
<1>3. IInv /\ HeardInv => ModeAnnounced
  BY HeardAnnounces
<1> QED
  BY <1>1, <1>2, <1>3, PTL DEF Spec

-------------------------------------------------------------------------------
(* The pulses of a line: where they are and how far apart. *)

(* No pixel sounds like a sync pulse. *)
LEMMA YuvTone ==
  ASSUME NEW c \in Nat
  PROVE  ToneYuv(c) # 1200
<1>1. PICK m \in Nat : m = 1372549 * c
  BY SMT
<1>2. m \div 10000000 >= 0 /\ m \div 10000000 \in Int
  BY <1>1, SMT
<1>3. ToneYuv(c) = 3 * c + (m \div 10000000) + 1500
  BY <1>1, SMT DEF ToneYuv
<1> QED
  BY <1>2, <1>3, SMT

LEMMA Truncated ==
  ASSUME NEW b \in Int, NEW s \in Int
  PROVE  Truncate(b, s) \in Nat
<1>1. PICK m \in Int : m = s \div 1000
  BY SMT
<1>2. PICK r \in Int : r = s % 1000
  BY SMT
<1>3. PICK t \in Int : t = (3906 * m + (3906 * r) \div 1000) \div 1000000
  BY SMT
<1>4. Truncate(b, s) = (b + t) % 256
  BY <1>1, <1>2, <1>3, SMT DEF Truncate
<1> QED
  BY <1>4, SMT

LEMMA PixelTones ==
  /\ 1200 \notin RgbTone
  /\ 1200 \notin LumaTone
  /\ 1200 \notin RedTone
  /\ 1200 \notin BlueTone
<1>1. Colour \subseteq Nat
  BY Colours
<1>2. Average \subseteq Int
  <2> SUFFICES ASSUME NEW c \in Colour, NEW d \in Colour PROVE (c + d) \div 2 \in Int
    BY DEF Average
  <2>1. c + d \in Int
    BY <1>1
  <2> QED
    BY <2>1, SMT
<1>3. 1200 \notin RgbTone
  <2> SUFFICES ASSUME NEW c \in Nat PROVE ToneRgb(c) # 1200
    BY <1>1 DEF RgbTone
  <2>1. PICK m \in Nat : m = 800 * c
    BY SMT
  <2>2. m \div 256 >= 0 /\ m \div 256 \in Int
    BY SMT
  <2> QED
    BY <2>1, <2>2, SMT DEF ToneRgb
<1>4. 1200 \notin LumaTone
  <2> SUFFICES ASSUME NEW r \in Colour, NEW g \in Colour, NEW b \in Colour
               PROVE  ToneYuv(Luma(r, g, b)) # 1200
    BY DEF LumaTone
  <2>1. 65738 * r + 129057 * g + 25064 * b \in Int
    BY <1>1, SMT
  <2> QED
    <3>1. PICK s \in Int : s = 65738 * r + 129057 * g + 25064 * b
      BY <2>1
    <3>2. Truncate(16, s) \in Nat
      BY Truncated, SMT
    <3> QED
      BY <3>1, <3>2, YuvTone DEF Luma
<1>5. 1200 \notin RedTone
  <2> SUFFICES ASSUME NEW r \in Average, NEW g \in Average, NEW b \in Average
               PROVE  ToneYuv(RedDifference(r, g, b)) # 1200
    BY DEF RedTone
  <2>1. 112439 * r - 94154 * g - 18285 * b \in Int
    BY <1>2, SMT
  <2> QED
    <3>1. PICK s \in Int : s = 112439 * r - 94154 * g - 18285 * b
      BY <2>1
    <3>2. Truncate(128, s) \in Nat
      BY Truncated, SMT
    <3> QED
      BY <3>1, <3>2, YuvTone DEF RedDifference
<1>6. 1200 \notin BlueTone
  <2> SUFFICES ASSUME NEW r \in Average, NEW g \in Average, NEW b \in Average
               PROVE  ToneYuv(BlueDifference(r, g, b)) # 1200
    BY DEF BlueTone
  <2>1. -37945 * r - 74494 * g + 112439 * b \in Int
    BY <1>2, SMT
  <2> QED
    <3>1. PICK s \in Int : s = -37945 * r - 74494 * g + 112439 * b
      BY <2>1
    <3>2. Truncate(128, s) \in Nat
      BY Truncated, SMT
    <3> QED
      BY <3>1, <3>2, YuvTone DEF BlueDifference
<1> QED
  BY <1>3, <1>4, <1>5, <1>6

(* Where the sync pulses of a line are, how many come before part n, and how many
   the whole has. *)
SyncParts(vis) == CASE FamilyOf(vis) = "s" -> {5}
                    [] FamilyOf(vis) = "r36" -> {1, 7}
                    [] OTHER -> {1}

Pulses(vis, n) ==
  CASE FamilyOf(vis) = "s" -> IF n > 5 THEN 1 ELSE 0
    [] FamilyOf(vis) = "r36" -> IF n > 7 THEN 2 ELSE IF n > 1 THEN 1 ELSE 0
    [] OTHER -> IF n > 1 THEN 1 ELSE 0

(* How long ago the last sync pulse began, when a part begins. *)
Since(vis) ==
  LET w == Width[FamilyOf(vis)]
      q == w * PixelTime(vis)
      a == w * 2750
      c == w * 1900
      p == SyncPeriod(vis)
  IN CASE FamilyOf(vis) = "m" ->
            <<p, 48620, 54340, 54340 + q, 60060 + q, 60060 + 2 * q, 65780 + 2 * q, 65780 + 3 * q>>
       [] FamilyOf(vis) = "s" ->
            <<105000 + q, 120000 + q, 120000 + 2 * q, 135000 + 2 * q, p, 90000, 105000>>
       [] FamilyOf(vis) = "r36" ->
            <<p, 90000, 120000, 120000 + a, 165000 + a, 180000 + a,
              p, 90000, 120000, 120000 + a, 165000 + a, 180000 + a>>
       [] OTHER ->
            <<p, 200000, 220800, 220800 + c, 220800 + 2 * c, 220800 + 3 * c>>

After(vis, n) == IF n = Len(Line(vis)) THEN 1 ELSE n + 1

(* What the parts of a line have to do with the pulses. *)
Locked(vis, n) ==
  LET part == Line(vis)[n] IN
  /\ Since(vis)[n] \in Int
  /\ 0 <= Since(vis)[n] /\ Since(vis)[n] <= SyncPeriod(vis)
  /\ n \in SyncParts(vis) => /\ part.tones = {1200} /\ part.count = 1
                             /\ Since(vis)[n] = SyncPeriod(vis)
                             /\ Since(vis)[After(vis, n)] = part.time
  /\ n \notin SyncParts(vis) =>
       /\ 1200 \notin part.tones
       /\ Since(vis)[After(vis, n)] = Since(vis)[n] + part.time * part.count

LEMMA MartinLocked ==
  ASSUME NEW vis \in Mode, FamilyOf(vis) = "m"
  PROVE  \A n \in 1 .. Len(Line(vis)) : Locked(vis, n)
<1>1. PICK d \in Nat : d = PixelTime(vis)
  BY SMT DEF PixelTime
<1>2. PICK w \in Nat : w = Width["m"]
  BY Widths DEF Family
<1>3. PICK q \in Nat : q = w * d /\ q = d * w
  BY SMT
<1>4. SyncPeriod(vis) = 71500 + 3 * q
  <2>1. SyncPeriod(vis) = 48620 + 4 * 5720 + 3 * w * d
    BY <1>1, <1>2, SMT DEF SyncPeriod
  <2>2. 3 * w * d = 3 * q
    BY <1>3
  <2> QED
    BY <2>1, <2>2, SMT
<1>5. Line(vis) = MartinLine(d) /\ Len(Line(vis)) = 8 /\ SyncParts(vis) = {1}
  BY <1>1, SMT DEF Line, MartinLine, SyncParts
<1>6. Since(vis) = <<71500 + 3 * q, 48620, 54340, 54340 + q, 60060 + q, 60060 + 2 * q,
                     65780 + 2 * q, 65780 + 3 * q>>
  BY <1>1, <1>2, <1>3, <1>4, SMT DEF Since
<1>7. /\ Line(vis)[1] = Fixed(1200, 48620)
      /\ \A n \in {2, 4, 6, 8} : Line(vis)[n] = Fixed(1500, 5720)
      /\ \A n \in {3, 5, 7} : Line(vis)[n] = Scan(RgbTone, d, w)
  BY <1>2, <1>5, SMT DEF MartinLine
<1>8. \A n \in 1 .. 8 : After(vis, n) = IF n = 8 THEN 1 ELSE n + 1
  BY <1>5 DEF After
<1> SUFFICES ASSUME NEW n \in 1 .. 8 PROVE Locked(vis, n)
  BY <1>5
<1> QED
  BY <1>3, <1>4, <1>5, <1>6, <1>7, <1>8, PixelTones, SMT DEF Locked, Fixed, Scan

LEMMA ScottieLocked ==
  ASSUME NEW vis \in Mode, FamilyOf(vis) = "s"
  PROVE  \A n \in 1 .. Len(Line(vis)) : Locked(vis, n)
<1>1. PICK d \in Nat : d = PixelTime(vis)
  BY SMT DEF PixelTime
<1>2. PICK w \in Nat : w = Width["s"]
  BY Widths DEF Family
<1>3. PICK q \in Nat : q = w * d /\ q = d * w
  BY SMT
<1>4. SyncPeriod(vis) = 135000 + 3 * q
  <2>1. SyncPeriod(vis) = 90000 + 3 * 15000 + 3 * w * d
    BY <1>1, <1>2, SMT DEF SyncPeriod
  <2>2. 3 * w * d = 3 * q
    BY <1>3
  <2> QED
    BY <2>1, <2>2, SMT
<1>5. Line(vis) = ScottieLine(d) /\ Len(Line(vis)) = 7 /\ SyncParts(vis) = {5}
  BY <1>1, SMT DEF Line, ScottieLine, SyncParts
<1>6. Since(vis) = <<105000 + q, 120000 + q, 120000 + 2 * q, 135000 + 2 * q,
                     135000 + 3 * q, 90000, 105000>>
  BY <1>1, <1>2, <1>3, <1>4, SMT DEF Since
<1>7. /\ Line(vis)[5] = Fixed(1200, 90000)
      /\ \A n \in {1, 3, 6} : Line(vis)[n] = Fixed(1500, 15000)
      /\ \A n \in {2, 4, 7} : Line(vis)[n] = Scan(RgbTone, d, w)
  BY <1>2, <1>5, SMT DEF ScottieLine
<1>8. \A n \in 1 .. 7 : After(vis, n) = IF n = 7 THEN 1 ELSE n + 1
  BY <1>5 DEF After
<1> SUFFICES ASSUME NEW n \in 1 .. 7 PROVE Locked(vis, n)
  BY <1>5
<1> QED
  BY <1>3, <1>4, <1>5, <1>6, <1>7, <1>8, PixelTones, SMT DEF Locked, Fixed, Scan

LEMMA RobotLocked ==
  ASSUME NEW vis \in Mode, FamilyOf(vis) = "r36"
  PROVE  \A n \in 1 .. Len(Line(vis)) : Locked(vis, n)
<1>1. PICK w \in Nat : w = Width["r36"]
  BY Widths DEF Family
<1>2. PICK a \in Nat : a = w * 2750 /\ a = 2750 * w
  BY SMT
<1>3. PICK b \in Nat : b = 1375 * w
  BY SMT
<1>4. SyncPeriod(vis) = 180000 + a + b
  <2>1. SyncPeriod(vis) = 90000 + 30000 + 45000 + 15000 + w * (2750 + 1375)
    BY <1>1, SMT DEF SyncPeriod
  <2> QED
    BY <1>2, <1>3, <2>1, SMT
<1>5. Line(vis) = RobotLines /\ Len(Line(vis)) = 12 /\ SyncParts(vis) = {1, 7}
  BY SMT DEF Line, RobotLines, SyncParts
<1>6. Since(vis) = <<180000 + a + b, 90000, 120000, 120000 + a, 165000 + a, 180000 + a,
                     180000 + a + b, 90000, 120000, 120000 + a, 165000 + a, 180000 + a>>
  BY <1>1, <1>2, <1>4, SMT DEF Since
<1>7. /\ \A n \in {1, 7} : Line(vis)[n] = Fixed(1200, 90000)
      /\ \A n \in {2, 8} : Line(vis)[n] = Fixed(1500, 30000)
      /\ \A n \in {3, 9} : Line(vis)[n] = Scan(LumaTone, 2750, w)
      /\ Line(vis)[4] = Fixed(1500, 45000) /\ Line(vis)[10] = Fixed(2300, 45000)
      /\ \A n \in {5, 11} : Line(vis)[n] = Fixed(1900, 15000)
      /\ Line(vis)[6] = Scan(RedTone, 1375, w) /\ Line(vis)[12] = Scan(BlueTone, 1375, w)
  BY <1>1, <1>5, SMT DEF RobotLines
<1>8. \A n \in 1 .. 12 : After(vis, n) = IF n = 12 THEN 1 ELSE n + 1
  BY <1>5 DEF After
<1> SUFFICES ASSUME NEW n \in 1 .. 12 PROVE Locked(vis, n)
  BY <1>5
<1> QED
  BY <1>2, <1>3, <1>4, <1>5, <1>6, <1>7, <1>8, PixelTones, SMTT(60) DEF Locked, Fixed, Scan

LEMMA PdLocked ==
  ASSUME NEW vis \in Mode, FamilyOf(vis) \notin {"m", "s", "r36"}
  PROVE  \A n \in 1 .. Len(Line(vis)) : Locked(vis, n)
<1>1. FamilyOf(vis) = "pd120"
  BY DEF FamilyOf
<1>2. PICK w \in Nat : w = Width["pd120"]
  BY Widths DEF Family
<1>3. PICK c \in Nat : c = w * 1900 /\ c = 1900 * w
  BY SMT
<1>4. SyncPeriod(vis) = 220800 + 4 * c
  <2>1. SyncPeriod(vis) = 200000 + 20800 + 4 * w * 1900
    BY <1>1, <1>2, SMT DEF SyncPeriod
  <2> QED
    BY <1>3, <2>1, SMT
<1>5. Line(vis) = PdLines /\ Len(Line(vis)) = 6 /\ SyncParts(vis) = {1}
  BY SMT DEF Line, PdLines, SyncParts
<1>6. Since(vis) = <<220800 + 4 * c, 200000, 220800, 220800 + c, 220800 + 2 * c, 220800 + 3 * c>>
  BY <1>1, <1>2, <1>3, <1>4, SMT DEF Since
<1>7. /\ Line(vis)[1] = Fixed(1200, 200000)
      /\ Line(vis)[2] = Fixed(1500, 20800)
      /\ \A n \in {3, 6} : Line(vis)[n] = Scan(LumaTone, 1900, w)
      /\ Line(vis)[4] = Scan(RedTone, 1900, w) /\ Line(vis)[5] = Scan(BlueTone, 1900, w)
  BY <1>2, <1>5, SMT DEF PdLines
<1>8. \A n \in 1 .. 6 : After(vis, n) = IF n = 6 THEN 1 ELSE n + 1
  BY <1>5 DEF After
<1> SUFFICES ASSUME NEW n \in 1 .. 6 PROVE Locked(vis, n)
  BY <1>5
<1> QED
  BY <1>3, <1>4, <1>5, <1>6, <1>7, <1>8, PixelTones, SMT DEF Locked, Fixed, Scan

LEMMA LineLocked ==
  ASSUME NEW vis \in Mode, NEW n \in 1 .. Len(Line(vis))
  PROVE  Locked(vis, n)
  BY MartinLocked, ScottieLocked, RobotLocked, PdLocked

(* The pulses of a line, part by part, and all the lines that it sends at once. *)
PerPass(vis) == IF FamilyOf(vis) = "r36" THEN 2 ELSE 1

LEMMA PulseCount ==
  ASSUME NEW vis \in Mode, NEW n \in 1 .. Len(Line(vis))
  PROVE  /\ Pulses(vis, 1) = 0 /\ Pulses(vis, n) \in Nat
         /\ n # Len(Line(vis)) =>
              Pulses(vis, n + 1) = Pulses(vis, n) + IF n \in SyncParts(vis) THEN 1 ELSE 0
         /\ n = Len(Line(vis)) =>
              PerPass(vis) = Pulses(vis, n) + IF n \in SyncParts(vis) THEN 1 ELSE 0
<1>1. CASE FamilyOf(vis) = "m"
  <2>1. Len(Line(vis)) = 8
    BY <1>1, SMT DEF Line, MartinLine
  <2> QED
    BY <1>1, <2>1, SMT DEF Pulses, SyncParts, PerPass
<1>2. CASE FamilyOf(vis) = "s"
  <2>1. Len(Line(vis)) = 7
    BY <1>2, SMT DEF Line, ScottieLine
  <2> QED
    BY <1>2, <2>1, SMT DEF Pulses, SyncParts, PerPass
<1>3. CASE FamilyOf(vis) = "r36"
  <2>1. Len(Line(vis)) = 12
    BY <1>3, SMT DEF Line, RobotLines
  <2> QED
    BY <1>3, <2>1, SMT DEF Pulses, SyncParts, PerPass
<1>4. CASE FamilyOf(vis) \notin {"m", "s", "r36"}
  <2>1. Len(Line(vis)) = 6
    BY <1>4, SMT DEF Line, PdLines
  <2> QED
    BY <1>4, <2>1, SMT DEF Pulses, SyncParts, PerPass
<1> QED
  BY <1>1, <1>2, <1>3, <1>4

(* The pulses heard are those of the passes over the picture, of one line or of two,
   that are done and of the parts of the line played. *)
Counted ==
  /\ syncs \in [count : Nat, first : Nat, last : Nat]
  /\ stage \in {"options", "filetype", "header", "start"} => syncs.count = 0 /\ y = 0 /\ seg = 1
  /\ stage = "picture" =>
       /\ y < Height[FamilyOf(g_protocol)]
       /\ \E p \in Nat : /\ y = p * LinesAtOnce(g_protocol)
                         /\ syncs.count = p * PerPass(g_protocol) + Pulses(g_protocol, seg)
  /\ stage \in {"trailer", "write"} =>
       syncs.count = Height[FamilyOf(g_protocol)] \div (IF g_protocol = 95 THEN 2 ELSE 1)

LEMMA PeriodType ==
  ASSUME NEW vis
  PROVE  SyncPeriod(vis) \in Int
<1>1. FamilyOf(vis) \in Family
  BY DEF FamilyOf, Family
<1>2. PICK w \in Int : w = Width[FamilyOf(vis)]
  BY <1>1, Widths
<1>3. PICK x \in Int : x = PixelTime(vis)
  BY SMT DEF PixelTime
<1>4. 3 * w * x \in Int /\ 4 * w * 1900 \in Int /\ w * (2750 + 1375) \in Int
  BY SMT
<1> QED
  BY <1>2, <1>3, <1>4, SMT DEF SyncPeriod

(* The first and the last pulse are whole periods apart, but for what was carried
   over when each began; and the last is as long ago as the place in the line says. *)
Regular ==
  syncs.count > 0 =>
    \E f1, f2 \in Int :
      /\ Half(f1) /\ Half(f2)
      /\ syncs.last * Sample + f2
           = syncs.first * Sample + f1 + (syncs.count - 1) * (SyncPeriod(g_protocol) * Tenth)
      /\ stage = "picture" =>
           g_samples * Sample + g_fudge
             = syncs.last * Sample + f2 + Since(g_protocol)[seg] * Tenth + k * (Part.time * Tenth)

SyncInv == Counted /\ Regular

LEMMA SyncInit == Init => SyncInv
  BY DEF Init, SyncInv, Counted, Regular

(* A tone of a line is heard as a pulse in the parts that are pulses alone. *)
LEMMA Received ==
  ASSUME IInv, LineTone
  PROVE  /\ seg \in SyncParts(g_protocol) =>
              /\ k = 0 /\ k + 1 = Part.count
              /\ syncs' = [count |-> syncs.count + 1,
                           first |-> IF syncs.count = 0 THEN g_samples ELSE syncs.first,
                           last |-> g_samples]
         /\ seg \notin SyncParts(g_protocol) => syncs' = syncs
<1>1. /\ g_protocol \in Mode /\ seg \in 1 .. Len(Line(g_protocol))
      /\ k \in 0 .. Part.count - 1 /\ Part.count \in Nat
  BY LineToneStep
<1>2. PICK f \in Part.tones : Receive(f)
  BY DEF LineTone, Part
<1>3. Locked(g_protocol, seg)
  BY <1>1, LineLocked
<1>4. CASE seg \in SyncParts(g_protocol)
  <2>1. Part.count = 1 /\ f = 1200
    BY <1>2, <1>3, <1>4 DEF Locked, Part
  <2> QED
    BY <1>1, <1>2, <1>4, <2>1 DEF Receive
<1>5. CASE seg \notin SyncParts(g_protocol)
  <2>1. f # 1200
    BY <1>2, <1>3, <1>5 DEF Locked, Part
  <2> QED
    BY <1>2, <1>5, <2>1 DEF Receive
<1> QED
  BY <1>4, <1>5

LEMMA Heights ==
  ASSUME NEW vis
  PROVE  Height[FamilyOf(vis)] \in Nat \ {0}
<1>1. FamilyOf(vis) \in Family
  BY DEF FamilyOf, Family
<1>2. Height \in [Family -> Nat \ {0}]
  BY PictureAssumption
<1> QED
  BY <1>1, <1>2

(* The height of a picture is that of a whole number of passes. *)
LEMMA WholePasses ==
  ASSUME NEW vis \in Mode, NEW p \in Nat,
         p * LinesAtOnce(vis) < Height[FamilyOf(vis)],
         p * LinesAtOnce(vis) + LinesAtOnce(vis) >= Height[FamilyOf(vis)]
  PROVE  (p + 1) * PerPass(vis) = Height[FamilyOf(vis)] \div (IF vis = 95 THEN 2 ELSE 1)
<1>1. PICK h \in Nat : h = Height[FamilyOf(vis)]
  BY Heights
<1>2. Height["r36"] % 2 = 0 /\ Height["pd120"] % 2 = 0
  BY EvenHeights
<1>3. CASE FamilyOf(vis) \in {"m", "s"}
  <2>1. LinesAtOnce(vis) = 1 /\ PerPass(vis) = 1 /\ vis # 95
    BY <1>3, SMT DEF LinesAtOnce, PerPass, FamilyOf
  <2> QED
    BY <1>1, <2>1, SMT
<1>4. CASE FamilyOf(vis) = "r36"
  <2>1. LinesAtOnce(vis) = 2 /\ PerPass(vis) = 2 /\ vis # 95 /\ h % 2 = 0
    BY <1>1, <1>2, <1>4, SMT DEF LinesAtOnce, PerPass, FamilyOf
  <2> QED
    BY <1>1, <2>1, SMT
<1>5. CASE FamilyOf(vis) = "pd120"
  <2>1. vis = 95
    BY <1>5, SMT DEF FamilyOf, Mode
  <2>2. LinesAtOnce(vis) = 2 /\ PerPass(vis) = 1 /\ h % 2 = 0
    BY <1>1, <1>2, <1>5, SMT DEF LinesAtOnce, PerPass
  <2> QED
    BY <1>1, <2>1, <2>2, SMT
<1> QED
  BY <1>3, <1>4, <1>5 DEF FamilyOf

LEMMA LineToneCounted ==
  ASSUME IInv, Counted, LineTone
  PROVE  Counted'
<1> DEFINE vis == g_protocol
           pulse == IF seg \in SyncParts(vis) THEN 1 ELSE 0
<1>1. /\ stage = "picture" /\ vis \in Mode /\ vis' = vis /\ g_samples \in Nat
      /\ seg \in 1 .. Len(Line(vis)) /\ Part.count \in Nat \ {0} /\ k \in 0 .. Part.count - 1
      /\ y \in Nat
  BY LineToneStep, LineTonePosition DEF IInv, TypeOK
<1>2. PICK p \in Nat : /\ y = p * LinesAtOnce(vis)
                       /\ syncs.count = p * PerPass(vis) + Pulses(vis, seg)
  BY <1>1 DEF Counted
<1>3. y < Height[FamilyOf(vis)] /\ syncs \in [count : Nat, first : Nat, last : Nat]
  BY <1>1 DEF Counted
<1>4. syncs' \in [count : Nat, first : Nat, last : Nat] /\ syncs'.count = syncs.count + pulse
  BY <1>1, <1>3, Received
<1>5. CASE k + 1 # Part.count
  <2>1. stage' = "picture" /\ seg' = seg /\ y' = y /\ syncs' = syncs
    BY <1>5, LineTonePosition, Received
  <2> QED
    BY <1>1, <1>2, <1>3, <2>1 DEF Counted
<1>6. CASE k + 1 = Part.count /\ seg # Len(Line(vis))
  <2>1. stage' = "picture" /\ seg' = seg + 1 /\ y' = y
    BY <1>6, LineTonePosition
  <2>2. Pulses(vis, seg') = Pulses(vis, seg) + pulse /\ Pulses(vis, seg) \in Nat
    BY <1>1, <1>6, <2>1, PulseCount
  <2>3. syncs'.count = p * PerPass(vis) + Pulses(vis, seg')
    <3>1. p * PerPass(vis) \in Nat
      BY DEF PerPass
    <3> QED
      BY <1>2, <1>4, <2>2, <3>1
  <2> QED
    BY <1>1, <1>2, <1>3, <1>4, <2>1, <2>3 DEF Counted
<1>7. CASE k + 1 = Part.count /\ seg = Len(Line(vis))
  <2>1. /\ seg' = 1 /\ y' = y + LinesAtOnce(vis)
        /\ stage' = IF y' >= Height[FamilyOf(vis)] THEN "trailer" ELSE "picture"
    BY <1>7, LineTonePosition
  <2>2. PerPass(vis) = Pulses(vis, seg) + pulse /\ Pulses(vis, 1) = 0 /\ Pulses(vis, seg) \in Nat
    BY <1>1, <1>7, PulseCount
  <2>3. syncs'.count = (p + 1) * PerPass(vis)
    <3>1. (p + 1) * PerPass(vis) = p * PerPass(vis) + PerPass(vis) /\ p * PerPass(vis) \in Nat
      BY DEF PerPass
    <3> QED
      BY <1>2, <1>4, <2>2, <3>1
  <2>4. y' = (p + 1) * LinesAtOnce(vis)
    BY <1>2, <2>1 DEF LinesAtOnce
  <2>5. CASE y' >= Height[FamilyOf(vis)]
    <3>1. syncs'.count = Height[FamilyOf(vis)] \div (IF vis = 95 THEN 2 ELSE 1)
      BY <1>1, <1>2, <1>3, <2>1, <2>3, <2>5, WholePasses
    <3> QED
      BY <1>1, <1>4, <2>1, <2>5, <3>1 DEF Counted
  <2>6. CASE ~(y' >= Height[FamilyOf(vis)])
    <3>1. Height[FamilyOf(vis)] \in Int /\ y' \in Int
      BY <1>1, <2>1, Heights, LinesAtOnceType
    <3>2. y' < Height[FamilyOf(vis)]
      BY <2>6, <3>1
    <3>3. syncs'.count = (p + 1) * PerPass(vis) + Pulses(vis, seg')
      BY <2>1, <2>2, <2>3 DEF PerPass
    <3> QED
      BY <1>1, <1>4, <2>1, <2>4, <2>6, <3>2, <3>3 DEF Counted
  <2> QED
    BY <2>5, <2>6
<1> QED
  BY <1>5, <1>6, <1>7

LEMMA LineToneRegular ==
  ASSUME IInv, Counted, Regular, LineTone
  PROVE  Regular'
<1> DEFINE vis == g_protocol
           ticks == SyncPeriod(vis) * Tenth
<1>1. /\ stage = "picture" /\ vis \in Mode /\ vis' = vis
      /\ seg \in 1 .. Len(Line(vis)) /\ Part.count \in Nat \ {0} /\ k \in 0 .. Part.count - 1
      /\ g_samples \in Int /\ g_fudge \in Int /\ Half(g_fudge)
      /\ Tenth \in Int /\ Sample \in Int
      /\ Part.time \in Int
      /\ syncs \in [count : Nat, first : Nat, last : Nat]
  <2>1. /\ stage = "picture" /\ vis \in Mode /\ vis' = vis
        /\ seg \in 1 .. Len(Line(vis)) /\ Part.count \in Nat \ {0} /\ k \in 0 .. Part.count - 1
        /\ Part.time \in Duration
    BY LineToneStep, LineTonePosition
  <2>2. g_samples \in Int /\ g_fudge \in Int /\ Half(g_fudge)
    BY DEF IInv, TypeOK, Carry
  <2>3. Part.time \in Int
    BY <2>1, LongestTime DEF Duration
  <2> QED
    BY <2>1, <2>2, <2>3, Ticks DEF Counted
<1>2. Locked(vis, seg)
  BY <1>1, LineLocked
<1>3. PICK a \in Int : a = g_samples * Sample + g_fudge
  BY <1>1
<1>4. PICK t \in Int : t = Part.time * Tenth
  BY <1>1
<1>5. g_samples' * Sample + g_fudge' = a + t
  BY <1>3, <1>4, LineToneStep
<1>6. k + 1 = Part.count => k' = 0 /\ (stage' = "picture" => seg' = After(vis, seg))
  BY LineTonePosition, <1>1 DEF After
<1>7. SyncPeriod(vis) \in Int /\ Since(vis)[seg] \in Int
  BY <1>2, PeriodType DEF Locked
<1>8. PICK c \in Int : c = ticks
  BY <1>1, <1>7
<1>9. CASE seg \in SyncParts(vis)
  <2>1. /\ k = 0 /\ k' = 0 /\ (stage' = "picture" => seg' = After(vis, seg))
        /\ syncs' = [count |-> syncs.count + 1,
                     first |-> IF syncs.count = 0 THEN g_samples ELSE syncs.first,
                     last |-> g_samples]
    BY <1>6, <1>9, Received
  <2>2. stage' = "picture" => Since(vis)[seg'] = Part.time
    BY <1>2, <1>9, <2>1 DEF Locked, Part
  <2>3. stage' = "picture" =>
          g_samples' * Sample + g_fudge'
            = syncs'.last * Sample + g_fudge + Since(vis)[seg'] * Tenth + k' * (Part.time * Tenth)'
    <3> SUFFICES ASSUME stage' = "picture"
                 PROVE  g_samples' * Sample + g_fudge'
                          = syncs'.last * Sample + g_fudge + Since(vis)[seg'] * Tenth
                              + k' * (Part.time * Tenth)'
      OBVIOUS
    <3>1. Since(vis)[seg'] * Tenth = t /\ syncs'.last = g_samples
      BY <1>4, <2>1, <2>2
    <3>2. k' * (Part.time * Tenth)' = 0
      <4>1. g_protocol' \in Mode /\ seg' \in 1 .. Len(Line(g_protocol'))
        BY <1>1, <2>1, LineTimed DEF After
      <4>2. (Part.time)' \in Int
        BY <4>1, LineTimed, LongestTime DEF Part, Timed, Duration
      <4>3. (Part.time * Tenth)' \in Int
        BY <1>1, <4>2
      <4> QED
        BY <2>1, <4>3
    <3> QED
      BY <1>3, <1>4, <1>5, <3>1, <3>2
  <2>4. CASE syncs.count = 0
    <3>1. syncs'.count = 1 /\ syncs'.first = g_samples /\ syncs'.last = g_samples
      BY <2>1, <2>4
    <3>2. syncs'.last * Sample + g_fudge = syncs'.first * Sample + g_fudge + (syncs'.count - 1) * c
      BY <1>1, <3>1
    <3> QED
      BY <1>1, <1>8, <2>3, <3>2 DEF Regular
  <2>5. CASE syncs.count # 0
    <3>1. /\ syncs'.count = syncs.count + 1 /\ syncs'.first = syncs.first
          /\ syncs'.last = g_samples /\ syncs.count > 0
      BY <1>1, <2>1, <2>5
    <3>2. PICK f1 \in Int, f2 \in Int :
            /\ Half(f1) /\ Half(f2)
            /\ syncs.last * Sample + f2 = syncs.first * Sample + f1 + (syncs.count - 1) * ticks
            /\ g_samples * Sample + g_fudge
                 = syncs.last * Sample + f2 + Since(vis)[seg] * Tenth + k * (Part.time * Tenth)
      BY <1>1, <3>1 DEF Regular
    <3>3. Since(vis)[seg] * Tenth = c /\ k * (Part.time * Tenth) = 0
      BY <1>2, <1>4, <1>8, <1>9, <2>1 DEF Locked
    <3>4. PICK b \in Int : b = syncs.last * Sample + f2
      BY <1>1, <3>2
    <3>5. a = b + c
      BY <1>3, <1>7, <1>8, <3>2, <3>3, <3>4
    <3>6. PICK e \in Int : e = syncs.first * Sample + f1
      BY <1>1, <3>2
    <3>7. b = e + (syncs.count - 1) * c
      BY <1>8, <3>2, <3>4, <3>6
    <3>8. PICK n \in Int : n = syncs.count - 1 /\ syncs'.count - 1 = n + 1
      <4>1. PICK m \in Int : m = syncs.count
        BY <1>1
      <4> QED
        BY <3>1, <4>1
    <3>9. (n + 1) * c = n * c + c /\ n * c \in Int
      BY Product
    <3>10. a = e + (syncs'.count - 1) * c
      BY <3>5, <3>7, <3>8, <3>9
    <3>11. syncs'.last * Sample + g_fudge
             = syncs'.first * Sample + f1 + (syncs'.count - 1) * ticks
      BY <1>3, <1>8, <3>1, <3>6, <3>10
    <3> QED
      BY <1>1, <2>3, <3>2, <3>11 DEF Regular
  <2> QED
    BY <2>4, <2>5
<1>10. CASE seg \notin SyncParts(vis)
  <2>1. syncs' = syncs
    BY <1>10, Received
  <2> SUFFICES ASSUME syncs.count > 0 PROVE Regular'
    BY <2>1 DEF Regular
  <2>2. PICK f1 \in Int, f2 \in Int :
          /\ Half(f1) /\ Half(f2)
          /\ syncs.last * Sample + f2 = syncs.first * Sample + f1 + (syncs.count - 1) * ticks
          /\ g_samples * Sample + g_fudge
               = syncs.last * Sample + f2 + Since(vis)[seg] * Tenth + k * (Part.time * Tenth)
    BY <1>1 DEF Regular
  <2>3. PICK b \in Int : b = syncs.last * Sample + f2
    BY <1>1, <2>2
  <2>4. PICK s \in Int : s = Since(vis)[seg] * Tenth
    BY <1>1, <1>7
  <2>5. PICK q \in Int : q = k * t
    BY <1>1
  <2>6. a = b + s + q
    BY <1>3, <1>4, <2>2, <2>3, <2>4, <2>5
  <2>7. stage' = "picture" =>
          g_samples' * Sample + g_fudge'
            = syncs.last * Sample + f2 + Since(vis)[seg'] * Tenth + k' * (Part.time * Tenth)'
    <3> SUFFICES ASSUME stage' = "picture"
                 PROVE  g_samples' * Sample + g_fudge'
                          = syncs.last * Sample + f2 + Since(vis)[seg'] * Tenth
                              + k' * (Part.time * Tenth)'
      OBVIOUS
    <3>1. CASE k + 1 # Part.count
      <4>1. seg' = seg /\ k' = k + 1 /\ Part' = Part
        BY <1>1, <3>1, LineTonePosition DEF Part
      <4>2. k' * (Part.time * Tenth)' = q + t
        <5>1. k' * (Part.time * Tenth)' = (k + 1) * t
          BY <1>4, <4>1
        <5>2. (k + 1) * t = k * t + t
          BY <1>1, Product
        <5> QED
          BY <2>5, <5>1, <5>2
      <4> QED
        BY <1>5, <2>3, <2>4, <2>6, <4>1, <4>2
    <3>2. CASE k + 1 = Part.count
      <4>1. k' = 0 /\ seg' = After(vis, seg)
        BY <1>6, <3>2
      <4>2. Since(vis)[seg'] = Since(vis)[seg] + Part.time * Part.count
        BY <1>2, <1>10, <4>1 DEF Locked, Part
      <4>3. Since(vis)[seg'] * Tenth = s + (q + t)
        <5>1. PICK x \in Int : x = Since(vis)[seg]
          BY <1>7
        <5>2. PICK z \in Int : z = Part.time * Part.count
          BY <1>1
        <5>3. (x + z) * Tenth = x * Tenth + z * Tenth
          BY <1>1
        <5>4. z * Tenth = (k + 1) * t
          <6>1. z = Part.time * (k + 1)
            BY <3>2, <5>2
          <6>2. PICK m \in Int, e \in Int : m = k + 1 /\ e = Part.time
            BY <1>1
          <6>3. (e * m) * Tenth = m * (e * Tenth)
            BY <1>1, <6>2
          <6> QED
            BY <1>4, <6>1, <6>2, <6>3
        <5>5. (k + 1) * t = k * t + t
          BY <1>1, Product
        <5> QED
          BY <2>4, <2>5, <4>2, <5>1, <5>2, <5>3, <5>4, <5>5
      <4>4. k' * (Part.time * Tenth)' = 0
        <5>1. g_protocol' \in Mode /\ seg' \in 1 .. Len(Line(g_protocol'))
          BY <1>1, <4>1, LineTimed DEF After
        <5>2. (Part.time)' \in Int
          BY <5>1, LineTimed, LongestTime DEF Part, Timed, Duration
        <5>3. (Part.time * Tenth)' \in Int
          BY <1>1, <5>2
        <5> QED
          BY <4>1, <5>3
      <4> QED
        BY <1>5, <2>3, <2>6, <4>3, <4>4
    <3> QED
      BY <3>1, <3>2
  <2> QED
    BY <1>1, <2>1, <2>2, <2>7 DEF Regular
<1> QED
  BY <1>9, <1>10

LEMMA SyncStep == IInv /\ SyncInv /\ [Next]_vars => SyncInv'
<1> SUFFICES ASSUME IInv, Counted, Regular, [Next]_vars PROVE SyncInv'
  BY DEF SyncInv
<1>1. CASE LineTone
  BY <1>1, LineToneCounted, LineToneRegular DEF SyncInv
<1>2. CASE ParseOptions
  BY <1>2 DEF SyncInv, Counted, Regular, ParseOptions, position
<1>3. CASE CheckFile
  <2>1. stage = "filetype" /\ stage' \in {"header", "exit2"}
        /\ UNCHANGED <<g_protocol, y, seg, k, syncs>>
    BY <1>3 DEF CheckFile, position
  <2> QED
    BY <2>1 DEF SyncInv, Counted, Regular
<1>4. CASE HeaderTone \/ StartTone
  <2>1. /\ stage \in {"header", "start"} /\ stage' \in {"header", "start", "picture"}
        /\ UNCHANGED <<g_protocol, y, seg, k, syncs>> /\ g_protocol \in Mode
    BY <1>4 DEF HeaderTone, StartTone, position, IInv, InPart
  <2>2. syncs.count = 0 /\ y = 0 /\ seg = 1
    BY <2>1 DEF Counted
  <2>3. 0 < Height[FamilyOf(g_protocol)] /\ Pulses(g_protocol, 1) = 0
    BY <2>1, Heights DEF Pulses
  <2>4. 0 = 0 * LinesAtOnce(g_protocol) /\ 0 * PerPass(g_protocol) + 0 = 0
    BY DEF LinesAtOnce, PerPass
  <2>5. Counted'
    BY <2>1, <2>2, <2>3, <2>4 DEF Counted
  <2> QED
    BY <2>1, <2>2, <2>5 DEF SyncInv, Regular
<1>5. CASE NoPicture \/ TrailerTone \/ WriteFile
  <2>1. /\ stage \in {"picture", "trailer", "write"} /\ UNCHANGED <<g_protocol, syncs>>
        /\ stage' \in {"crash", "trailer", "write", "exit0"}
        /\ stage' \in {"trailer", "write"} => stage \in {"trailer", "write"}
    BY <1>5 DEF NoPicture, TrailerTone, WriteFile
  <2> QED
    BY <2>1 DEF SyncInv, Counted, Regular
<1>6. CASE UNCHANGED vars
  BY <1>6 DEF SyncInv, Counted, Regular, Part, vars
<1> QED
  BY <1>1, <1>2, <1>3, <1>4, <1>5, <1>6 DEF Next, Ended

(* A remainder is what the whole number of divisors leaves. *)
LEMMA Remainder ==
  ASSUME NEW n \in Int, NEW m \in Int, 0 < m
  PROVE  n \div m \in Int /\ n % m \in Int /\ n = m * (n \div m) + (n % m)
<1>1. PICK q \in Int : q = n \div m
  BY SMT
<1>2. n % m = n - m * q /\ n % m \in Int
  BY <1>1, SMT
<1>3. PICK p \in Int : p = m * q
  BY SMT
<1>4. n % m = n - p
  BY <1>2, <1>3, Zenon
<1>5. n = p + (n - p)
  BY <1>3
<1>6. n = p + (n % m)
  BY <1>4, <1>5, Zenon
<1> QED
  BY <1>1, <1>2, <1>3, <1>6, Zenon

LEMMA RegularIsRegular == IInv /\ SyncInv => SyncsRegular
<1> DEFINE ticks == SyncPeriod(g_protocol) * Tenth
           periods == syncs.count - 1
           drift == (syncs.last - syncs.first - periods * (ticks \div Sample)) * Sample
                    - periods * (ticks % Sample)
<1> SUFFICES ASSUME IInv, SyncInv, syncs.count > 0
             PROVE  drift <= Sample /\ -drift <= Sample
  BY DEF SyncsRegular
<1>1. PICK f1 \in Int, f2 \in Int :
        /\ Half(f1) /\ Half(f2)
        /\ syncs.last * Sample + f2 = syncs.first * Sample + f1 + periods * ticks
  BY DEF SyncInv, Regular
<1>2. Sample \in Int /\ 0 < Sample /\ Tenth \in Int
  BY Ticks
<1>3. PICK n \in Int, l \in Int, f \in Int : n = periods /\ l = syncs.last /\ f = syncs.first
  BY DEF SyncInv, Counted
<1>4. SyncPeriod(g_protocol) \in Int
  BY PeriodType
<1>5. PICK t \in Int : t = ticks
  BY <1>2, <1>4
<1>6. PICK u \in Int, v \in Int : u = t \div Sample /\ v = t % Sample /\ t = Sample * u + v
  BY <1>2, Remainder
<1>7. drift = (l - f - n * u) * Sample - n * v
  BY <1>3, <1>5, <1>6
<1> HIDE DEF drift
<1>8. n * t = (n * u) * Sample + n * v
  <2>1. n * t = n * (Sample * u) + n * v
    BY <1>2, <1>6
  <2>2. n * (Sample * u) = (n * u) * Sample
    BY <1>2
  <2> QED
    BY <2>1, <2>2
<1>9. drift = f1 - f2
  <2>1. PICK a \in Int : a = n * u
    BY SMT
  <2>2. PICK b \in Int : b = n * v
    BY SMT
  <2>3. (l - f - a) * Sample = l * Sample - f * Sample - a * Sample
    BY <1>2
  <2>4. l * Sample \in Int /\ f * Sample \in Int /\ a * Sample \in Int
    BY <1>2
  <2>5. l * Sample + f2 = f * Sample + f1 + n * t
    BY <1>1, <1>3, <1>5
  <2> QED
    BY <1>7, <1>8, <2>1, <2>2, <2>3, <2>4, <2>5
<1> QED
  BY <1>1, <1>2, <1>9 DEF Half

(* One sync pulse is heard for each line that is sent, for two lines in PD 120:
   for any picture, as no pixel sounds like one. *)
THEOREM SyncForEveryLine == Spec => []EveryLineHasSync
<1>1. Init => IInv /\ SyncInv
  BY InitInv, SyncInit
<1>2. IInv /\ SyncInv /\ [Next]_vars => (IInv /\ SyncInv)'
  BY StepInv, SyncStep
<1>3. IInv /\ SyncInv => EveryLineHasSync
  BY DEF SyncInv, Counted, EveryLineHasSync
<1> QED
  BY <1>1, <1>2, <1>3, PTL DEF Spec

(* The pulses are as regular as samples allow: the last is never more than one
   sample from where the first and the period of the mode put it, however long
   the picture and whatever the rate. *)
THEOREM RegularAlways == Spec => []SyncsRegular
<1>1. Init => IInv /\ SyncInv
  BY InitInv, SyncInit
<1>2. IInv /\ SyncInv /\ [Next]_vars => (IInv /\ SyncInv)'
  BY StepInv, SyncStep
<1> QED
  BY <1>1, <1>2, RegularIsRegular, PTL DEF Spec

-------------------------------------------------------------------------------
(* The transmission fits the buffer. *)

(* The pictures that pisstv.c sends, and the seconds that MAXSAMPLES counts. *)
RealPictures ==
  /\ Width["m"] = 320 /\ Width["s"] = 320 /\ Width["r36"] = 320 /\ Width["pd120"] = 640
  /\ Height["m"] = 256 /\ Height["s"] = 256 /\ Height["r36"] = 240 /\ Height["pd120"] = 496
  /\ MaxSeconds = 300

(* The longest time from the first pulse to the end of the last period, and from the
   start to the end of the transmission, in tenths of a microsecond. *)
Sent == 2720000000
Whole == 28 * Longest + Sent

Passed(ticks) == g_samples * Sample + g_fudge = ticks * Tenth

(* How long the transmission has taken. *)
Elapsed ==
  /\ stage \in {"options", "filetype"} => g_samples = 0 /\ g_fudge = 0
  /\ stage = "header" => \E t \in Int : Passed(t) /\ t <= (i - 1) * Longest
  /\ stage = "start" => \E t \in Int : Passed(t) /\ t <= 22 * Longest
  /\ stage = "picture" =>
       \E t \in Int : /\ t <= 23 * Longest
                      /\ Passed(t - Since(g_protocol)[1] + syncs.count * SyncPeriod(g_protocol)
                                  + Since(g_protocol)[seg] + k * Part.time)
  /\ stage = "trailer" =>
       \E t \in Int : Passed(t) /\ t <= 23 * Longest + Sent + (i - 1) * Longest
  /\ stage \notin {"picture"} => \E t \in Int : Passed(t) /\ t <= Whole

LEMMA Bounds == Longest \in Nat /\ Longest >= 1 /\ Sent \in Nat /\ Whole = 28 * Longest + Sent
  BY SMT DEF Longest, Sent, Whole

(* The periods of a whole picture, and one more. *)
LEMMA PeriodsBounded ==
  ASSUME RealPictures, NEW vis \in Mode, NEW n \in Nat,
         n <= Height[FamilyOf(vis)] \div (IF vis = 95 THEN 2 ELSE 1)
  PROVE  SyncPeriod(vis) \in Nat /\ (n + 1) * SyncPeriod(vis) <= Sent
<1>1. /\ vis = 44 => FamilyOf(vis) = "m" /\ SyncPeriod(vis) = 4464460
      /\ vis = 40 => FamilyOf(vis) = "m" /\ SyncPeriod(vis) = 2267980
      /\ vis = 60 => FamilyOf(vis) = "s" /\ SyncPeriod(vis) = 4282200
      /\ vis = 56 => FamilyOf(vis) = "s" /\ SyncPeriod(vis) = 2776920
      /\ vis = 76 => FamilyOf(vis) = "s" /\ SyncPeriod(vis) = 10503000
      /\ vis = 8 => FamilyOf(vis) = "r36" /\ SyncPeriod(vis) = 1500000
      /\ vis = 95 => FamilyOf(vis) = "pd120" /\ SyncPeriod(vis) = 5084800
  BY SMT DEF RealPictures, SyncPeriod, PixelTime, FamilyOf
<1>2. vis \in {44, 40, 60, 56, 76} => n <= 256
  BY <1>1, SMT DEF RealPictures
<1>3. vis = 8 => n <= 240
  BY <1>1, SMT DEF RealPictures
<1>4. vis = 95 => n <= 248
  BY <1>1, SMT DEF RealPictures
<1>5. vis = 44 \/ vis = 40 \/ vis = 60 \/ vis = 56 \/ vis = 76 \/ vis = 8 \/ vis = 95
  BY SMT DEF Mode
<1> QED
  BY <1>1, <1>2, <1>3, <1>4, <1>5, SMT DEF Sent

(* Within a line, the last pulse is no longer ago than a period. *)
LEMMA WithinPeriod ==
  ASSUME NEW vis \in Mode, NEW n \in 1 .. Len(Line(vis)), NEW m \in 0 .. Line(vis)[n].count - 1
  PROVE  /\ Since(vis)[n] + m * Line(vis)[n].time <= SyncPeriod(vis)
         /\ Since(vis)[n] \in Nat /\ SyncPeriod(vis) \in Int
<1>1. PICK d \in Nat, c \in Nat : d = Line(vis)[n].time /\ c = Line(vis)[n].count
  BY LineTimed, LongestTime DEF Timed, Duration
<1>2. PICK s \in Nat : s = Since(vis)[n]
  BY LineLocked DEF Locked
<1>3. SyncPeriod(vis) \in Int
  BY PeriodType
<1>4. CASE n \in SyncParts(vis)
  <2>1. c = 1 /\ s = SyncPeriod(vis)
    BY <1>1, <1>2, <1>4, LineLocked DEF Locked
  <2>2. m = 0
    BY <1>1, <2>1
  <2>3. m * d = 0
    BY <2>2
  <2> QED
    BY <1>1, <1>2, <1>3, <2>1, <2>3
<1>5. CASE n \notin SyncParts(vis)
  <2>1. After(vis, n) \in 1 .. Len(Line(vis))
    BY LineTimed DEF After
  <2>2. s + d * c <= SyncPeriod(vis)
    <3>1. Since(vis)[After(vis, n)] <= SyncPeriod(vis)
      BY <2>1, LineLocked DEF Locked
    <3>2. Since(vis)[After(vis, n)] = s + d * c
      <4>1. Locked(vis, n)
        BY LineLocked
      <4> QED
        BY <1>1, <1>2, <1>5, <4>1 DEF Locked
    <3> QED
      BY <3>1, <3>2
  <2>3. m * d <= d * c
    <3>1. PICK x \in Nat : x = c - m /\ c = x + m
      BY <1>1
    <3>2. d * c = d * x + d * m /\ d * x >= 0
      BY <3>1
    <3> QED
      BY <3>2
  <2>4. m * d \in Int /\ d * c \in Int
    OBVIOUS
  <2> QED
    BY <1>1, <1>2, <1>3, <2>2, <2>3, <2>4
<1> QED
  BY <1>4, <1>5

(* No more pulses than the picture has lines. *)
LEMMA PulsesBounded ==
  ASSUME IInv, Counted, stage \in {"picture", "trailer", "write"}
  PROVE  /\ g_protocol \in Mode /\ syncs.count \in Nat
         /\ syncs.count <= Height[FamilyOf(g_protocol)] \div (IF g_protocol = 95 THEN 2 ELSE 1)
<1>1. g_protocol \in Mode /\ syncs.count \in Nat
  BY DEF IInv, TypeOK, PlayStages, Counted
<1>2. PICK h \in Nat : h = Height[FamilyOf(g_protocol)]
  BY Heights
<1>3. CASE stage = "picture"
  <2>1. PICK p \in Nat : /\ y = p * LinesAtOnce(g_protocol) /\ y < h
                         /\ syncs.count = p * PerPass(g_protocol) + Pulses(g_protocol, seg)
    BY <1>2, <1>3 DEF Counted
  <2>2. Height["r36"] % 2 = 0 /\ Height["pd120"] % 2 = 0
    BY EvenHeights
  <2>3. PICK q : q = Pulses(g_protocol, seg)
    OBVIOUS
  <2>4. CASE FamilyOf(g_protocol) \in {"m", "s"}
    <3>1. LinesAtOnce(g_protocol) = 1 /\ PerPass(g_protocol) = 1 /\ g_protocol # 95 /\ q \in {0, 1}
      BY <2>3, <2>4, SMT DEF LinesAtOnce, PerPass, FamilyOf, Pulses
    <3>2. y = p /\ syncs.count = p + q
      BY <2>1, <2>3, <3>1
    <3>3. p + q <= h
      BY <2>1, <3>1, <3>2
    <3>4. h \div 1 = h
      BY SMT
    <3> QED
      BY <1>1, <1>2, <3>1, <3>2, <3>3, <3>4
  <2>5. CASE FamilyOf(g_protocol) = "r36"
    <3>1. LinesAtOnce(g_protocol) = 2 /\ PerPass(g_protocol) = 2 /\ g_protocol # 95 /\ h % 2 = 0
          /\ q \in {0, 1, 2}
      BY <1>2, <2>2, <2>3, <2>5, SMT DEF LinesAtOnce, PerPass, FamilyOf, Pulses
    <3>2. y = 2 * p /\ syncs.count = 2 * p + q
      BY <2>1, <2>3, <3>1
    <3>3. 2 * p + q <= h
      BY <2>1, <3>1, <3>2
    <3>4. h \div 1 = h
      BY SMT
    <3> QED
      BY <1>1, <1>2, <3>1, <3>2, <3>3, <3>4
  <2>6. CASE FamilyOf(g_protocol) = "pd120"
    <3>1. g_protocol = 95
      BY <1>1, <2>6, SMT DEF FamilyOf, Mode
    <3>2. LinesAtOnce(g_protocol) = 2 /\ PerPass(g_protocol) = 1 /\ h % 2 = 0 /\ q \in {0, 1}
      BY <1>2, <2>2, <2>3, <2>6, SMT DEF LinesAtOnce, PerPass, Pulses
    <3>3. y = 2 * p /\ syncs.count = p + q
      BY <2>1, <2>3, <3>2
    <3>4. p + q <= h \div 2
      BY <2>1, <3>2, <3>3, SMT
    <3> QED
      BY <1>1, <1>2, <3>1, <3>3, <3>4
  <2> QED
    BY <1>1, <2>4, <2>5, <2>6 DEF FamilyOf
<1>4. CASE stage \in {"trailer", "write"}
  BY <1>1, <1>4 DEF Counted
<1> QED
  BY <1>1, <1>3, <1>4

LEMMA ElapsedInit == Init => Elapsed
<1> SUFFICES ASSUME Init PROVE Elapsed
  OBVIOUS
<1>1. Passed(0) /\ 0 \in Int /\ 0 <= Whole
  <2>1. 0 * Sample = 0 /\ 0 * Tenth = 0
    BY Ticks
  <2> QED
    BY <2>1, Bounds DEF Init, Passed
<1> QED
  BY <1>1 DEF Init, Elapsed

(* A tone of the header, the start or the trailer. *)
LEMMA TonePasses ==
  ASSUME IInv, NEW d \in Duration, PlayTone(d), NEW t \in Int, Passed(t)
  PROVE  t + d \in Int /\ t + d <= t + Longest /\ Passed(t + d)'
<1>1. g_samples' * Sample + g_fudge' = g_samples * Sample + g_fudge + d * Tenth
  BY PlayToneStep DEF IInv, TypeOK
<1>2. d \in Nat /\ d <= Longest
  BY LongestTime DEF Duration
<1>3. (t + d) * Tenth = t * Tenth + d * Tenth
  BY <1>2, Ticks
<1> QED
  BY <1>1, <1>2, <1>3, LongestTime DEF Passed

(* Where the first line begins. *)
LEMMA StartsNow ==
  ASSUME NEW vis \in Mode, NEW t \in Int
  PROVE  t - Since(vis)[1] + 0 * SyncPeriod(vis) + Since(vis)[1] + 0 * Line(vis)[1].time = t
<1>1. 1 \in 1 .. Len(Line(vis))
  BY LineTimed
<1>2. PICK s \in Int : s = Since(vis)[1]
  BY <1>1, LineLocked DEF Locked
<1>3. PICK p \in Int : p = SyncPeriod(vis)
  BY PeriodType
<1>4. PICK d \in Int : d = Line(vis)[1].time
  BY <1>1, LineTimed, LongestTime DEF Timed, Duration
<1> QED
  BY <1>2, <1>3, <1>4

LEMMA HeaderToneElapsed == IInv /\ Elapsed /\ SyncInv /\ HeaderTone => Elapsed'
<1> SUFFICES ASSUME IInv, Elapsed, SyncInv, HeaderTone PROVE Elapsed'
  OBVIOUS
<1>1. stage = "header" /\ g_protocol \in Mode /\ g_protocol' = g_protocol /\ i \in 1 .. 22
  BY DEF IInv, InPart, HeaderTone
<1>2. Len(Header(g_protocol)) = 22 /\ Header(g_protocol)[i][2] \in Duration
  BY <1>1, HeaderTones, ToneDuration
<1>3. PICK t \in Int : Passed(t) /\ t <= (i - 1) * Longest
  BY <1>1 DEF Elapsed
<1>4. PICK u \in Int : u <= t + Longest /\ Passed(u)'
  <2>1. PICK d \in Duration : d = Header(g_protocol)[i][2] /\ PlayTone(d)
    BY <1>2 DEF HeaderTone
  <2> QED
    BY <1>3, <2>1, TonePasses
<1>5. u <= i * Longest /\ u <= 22 * Longest /\ u <= Whole
  <2>1. PICK l \in Nat : l = Longest /\ Whole >= 28 * l
    BY Bounds
  <2>2. t <= (i - 1) * l /\ u <= t + l
    BY <1>3, <1>4, <2>1
  <2>3. PICK a \in Int, b \in Int : a = (i - 1) * l /\ b = i * l /\ a + l = b /\ b <= 22 * l
    BY <1>1, <2>1
  <2>4. u <= b /\ u <= 22 * l /\ u <= 28 * l
    BY <2>2, <2>3
  <2>5. Whole \in Int
    BY Bounds
  <2> QED
    BY <2>1, <2>3, <2>4, <2>5
<1>6. CASE i < 22
  <2>1. stage' = "header" /\ i' = i + 1
    BY <1>1, <1>2, <1>6 DEF HeaderTone
  <2>2. i' - 1 = i
    BY <1>1, <2>1
  <2> QED
    BY <1>4, <1>5, <2>1, <2>2 DEF Elapsed
<1>7. CASE i = 22
  <2>1. stage' \in {"start", "picture"} /\ UNCHANGED <<seg, k, syncs, g_protocol>>
    BY <1>1, <1>2, <1>7 DEF HeaderTone
  <2>2. CASE stage' = "start"
    BY <1>4, <1>5, <2>2 DEF Elapsed
  <2>3. CASE stage' = "picture"
    <3>1. seg' = 1 /\ k' = 0 /\ syncs'.count = 0
      BY <1>1, <2>1 DEF SyncInv, Counted, IInv, InPart
    <3>2. u - Since(g_protocol')[1] + syncs'.count * SyncPeriod(g_protocol')
            + Since(g_protocol')[seg'] + k' * Part.time' = u
      BY <1>1, <1>4, <3>1, StartsNow DEF Part
    <3>3. u <= 23 * Longest
      BY <1>5, Bounds
    <3> QED
      BY <1>4, <2>3, <3>2, <3>3 DEF Elapsed
  <2> QED
    BY <2>1, <2>2, <2>3
<1> QED
  BY <1>1, <1>6, <1>7

LEMMA StartToneElapsed == IInv /\ Elapsed /\ SyncInv /\ StartTone => Elapsed'
<1> SUFFICES ASSUME IInv, Elapsed, SyncInv, StartTone PROVE Elapsed'
  OBVIOUS
<1>1. /\ stage = "start" /\ stage' = "picture" /\ g_protocol \in Mode
      /\ UNCHANGED <<g_protocol, seg, k, syncs>> /\ k = 0
  BY DEF IInv, InPart, StartTone, position
<1>2. seg' = 1 /\ k' = 0 /\ syncs'.count = 0
  BY <1>1 DEF SyncInv, Counted
<1>3. PICK t \in Int : Passed(t) /\ t <= 22 * Longest
  BY <1>1 DEF Elapsed
<1>4. PICK u \in Int : u <= t + Longest /\ Passed(u)'
  <2>1. PICK d \in Duration : d = 90000 /\ PlayTone(d)
    BY Durations, SMT DEF StartTone
  <2> QED
    BY <1>3, <2>1, TonePasses
<1>5. u - Since(g_protocol')[1] + syncs'.count * SyncPeriod(g_protocol')
        + Since(g_protocol')[seg'] + k' * Part.time' = u
  BY <1>1, <1>2, <1>4, StartsNow DEF Part
<1>6. u <= 23 * Longest
  BY <1>3, <1>4, Bounds
<1> QED
  BY <1>1, <1>4, <1>5, <1>6 DEF Elapsed

LEMMA TrailerToneElapsed == IInv /\ Elapsed /\ TrailerTone => Elapsed'
<1> SUFFICES ASSUME IInv, Elapsed, TrailerTone PROVE Elapsed'
  OBVIOUS
<1>1. stage = "trailer" /\ i \in 1 .. 5
  BY DEF IInv, InPart, TrailerTone
<1>2. Trailer[i][2] \in Duration /\ Len(Trailer) = 5
  BY <1>1, TrailerTones, ToneDuration, Zenon
<1>3. PICK t \in Int : Passed(t) /\ t <= 23 * Longest + Sent + (i - 1) * Longest
  BY <1>1 DEF Elapsed
<1>4. PICK u \in Int : u <= t + Longest /\ Passed(u)'
  <2>1. PICK d \in Duration : d = Trailer[i][2] /\ PlayTone(d)
    BY <1>2 DEF TrailerTone
  <2> QED
    BY <1>3, <2>1, TonePasses
<1>5. u <= 23 * Longest + Sent + i * Longest /\ u <= Whole
  <2>1. PICK l \in Nat : l = Longest /\ Whole = 28 * l + Sent /\ Sent \in Nat
    BY Bounds
  <2>2. PICK a \in Int, b \in Int : a = (i - 1) * l /\ b = i * l /\ a + l = b /\ b <= 5 * l
    BY <1>1, <2>1
  <2>3. u <= 23 * l + Sent + b /\ u <= 28 * l + Sent
    BY <1>3, <1>4, <2>1, <2>2
  <2> QED
    BY <2>1, <2>2, <2>3
<1>6. CASE i < 5
  <2>1. stage' = "trailer" /\ i' = i + 1
    BY <1>1, <1>2, <1>6 DEF TrailerTone
  <2>2. i' - 1 = i
    BY <1>1, <2>1
  <2> QED
    BY <1>4, <1>5, <2>1, <2>2 DEF Elapsed
<1>7. CASE i = 5
  <2>1. stage' = "write"
    BY <1>1, <1>2, <1>7 DEF TrailerTone
  <2> QED
    BY <1>4, <1>5, <2>1 DEF Elapsed
<1> QED
  BY <1>1, <1>6, <1>7

(* The place in a picture bounds the time there. *)
LEMMA PictureBounded ==
  ASSUME RealPictures, IInv, SyncInv, Elapsed, stage = "picture"
  PROVE  \E t \in Int : Passed(t) /\ t <= 23 * Longest + Sent
<1>1. /\ g_protocol \in Mode /\ seg \in 1 .. Len(Line(g_protocol))
      /\ k \in 0 .. Line(g_protocol)[seg].count - 1
  BY DEF IInv, InPart, Part
<1>2. PICK t \in Int : /\ t <= 23 * Longest
                       /\ Passed(t - Since(g_protocol)[1] + syncs.count * SyncPeriod(g_protocol)
                                   + Since(g_protocol)[seg] + k * Part.time)
  BY DEF Elapsed
<1>3. PICK n \in Nat, p \in Nat : /\ n = syncs.count /\ p = SyncPeriod(g_protocol)
                                  /\ (n + 1) * p <= Sent
  BY PulsesBounded, PeriodsBounded DEF SyncInv
<1>4. PICK s \in Nat, d \in Int :
        s = Since(g_protocol)[seg] /\ d = Part.time /\ s + k * d <= p /\ d >= 0
  <2>1. Part.time \in Nat
    BY <1>1, LineTimed, LongestTime DEF Part, Timed, Duration
  <2> QED
    BY <1>1, <1>3, <2>1, WithinPeriod DEF Part
<1>5. PICK z \in Nat : z = Since(g_protocol)[1] /\ z <= p
  <2>1. 1 \in 1 .. Len(Line(g_protocol)) /\ 0 \in 0 .. Line(g_protocol)[1].count - 1
    BY <1>1, LineTimed DEF Timed
  <2> QED
    <3>1. Locked(g_protocol, 1)
      BY <1>1, <2>1, LineLocked
    <3>2. /\ Since(g_protocol)[1] \in Int /\ 0 <= Since(g_protocol)[1]
          /\ Since(g_protocol)[1] <= SyncPeriod(g_protocol)
      BY <3>1 DEF Locked
    <3> QED
      BY <1>3, <3>2
<1>6. PICK a \in Nat, b \in Nat : a = n * p /\ b = k * d /\ (n + 1) * p = a + p
  <2>1. k \in Nat /\ n * p \in Nat /\ (n + 1) * p = n * p + p
    BY <1>1
  <2>2. k * d \in Nat
    BY <1>4, <2>1
  <2>3. PICK a \in Nat, b \in Nat : a = n * p /\ b = k * d
    BY <2>1, <2>2
  <2> QED
    BY <2>1, <2>3
<1>7. Passed(t - z + a + s + b)
  BY <1>2, <1>3, <1>4, <1>5, <1>6
<1>8. t - z + a + s + b <= t + (a + p)
  BY <1>4, <1>5, <1>6
<1>9. t - z + a + s + b <= 23 * Longest + Sent
  <2>1. a + p <= Sent
    BY <1>3, <1>6
  <2>2. PICK l \in Int, e \in Int : l = 23 * Longest /\ e = Sent
    BY Bounds
  <2> QED
    BY <1>2, <1>8, <2>1, <2>2
<1> QED
  BY <1>7, <1>9

LEMMA LineToneElapsed ==
  ASSUME RealPictures, IInv, SyncInv, Elapsed, LineTone, IInv', SyncInv'
  PROVE  Elapsed'
<1> DEFINE vis == g_protocol
<1>1. /\ stage = "picture" /\ stage' \in {"picture", "trailer"}
      /\ vis \in Mode /\ vis' = vis /\ i' = i /\ i = 1
      /\ seg \in 1 .. Len(Line(vis)) /\ Part.count \in Nat \ {0} /\ k \in 0 .. Part.count - 1
      /\ Part.time \in Duration /\ g_samples \in Int /\ g_fudge \in Int
  BY LineToneStep, LineTonePosition DEF IInv, TypeOK, InPart
<1>2. Part.time \in Int /\ 0 <= Part.time /\ Part.time <= Longest
  BY <1>1, LongestTime DEF Duration
<1>3. PICK t \in Int :
        /\ t <= 23 * Longest
        /\ Passed(t - Since(vis)[1] + syncs.count * SyncPeriod(vis) + Since(vis)[seg] + k * Part.time)
  BY <1>1 DEF Elapsed
<1>4. PICK d \in Int : d = Part.time
  BY <1>2
<1>5. PICK p \in Int : p = SyncPeriod(vis)
  BY PeriodType
<1>6. PICK z \in Int : z = Since(vis)[1]
  BY <1>1, LineTimed, LineLocked DEF Locked
<1>7. PICK s \in Int : s = Since(vis)[seg]
  BY <1>1, LineLocked DEF Locked
<1>8. PICK n \in Int : n = syncs.count
  BY DEF SyncInv, Counted
<1>9. PICK r \in Int : r = t - z + n * p + s + k * d
  BY <1>1
<1>10. Passed(r)
  BY <1>3, <1>4, <1>5, <1>6, <1>7, <1>8, <1>9
<1>11. Passed(r + d)'
  <2>1. g_samples' * Sample + g_fudge' = g_samples * Sample + g_fudge + d * Tenth
    BY <1>4, LineToneStep
  <2>2. (r + d) * Tenth = r * Tenth + d * Tenth
    BY Ticks
  <2> QED
    BY <1>10, <2>1, <2>2 DEF Passed
<1>12. k + 1 = Part.count => k' = 0 /\ seg' = After(vis, seg)
  BY LineTonePosition, <1>1 DEF After
<1>13. PICK n2 \in Int, s2 \in Int, q2 \in Int :
         /\ n2 = syncs'.count /\ s2 = Since(vis)[seg'] /\ q2 = k' * Part.time'
         /\ r + d = t - z + n2 * p + s2 + q2
  <2>1. CASE k + 1 # Part.count
    <3>1. seg' = seg /\ k' = k + 1 /\ Part' = Part /\ syncs' = syncs
      BY <1>1, <2>1, LineTonePosition, Received DEF Part
    <3>2. (k + 1) * d = k * d + d
      BY <1>1, Product
    <3>3. k' * Part.time' = (k + 1) * d
      BY <1>4, <3>1
    <3>4. (k + 1) * d \in Int
      BY <1>1
    <3>5. r + d = t - z + n * p + s + (k + 1) * d
      BY <1>1, <1>9, <3>2
    <3> QED
      BY <1>7, <1>8, <3>1, <3>3, <3>4, <3>5
  <2>2. CASE k + 1 = Part.count
    <3>1. k' = 0 /\ seg' = After(vis, seg) /\ seg' \in 1 .. Len(Line(vis))
      BY <1>1, <1>12, <2>2, LineTimed DEF After
    <3>2. k' * Part.time' = 0
      <4>1. g_protocol' \in Mode /\ seg' \in 1 .. Len(Line(g_protocol'))
        BY <1>1, <3>1
      <4>2. (Part.time)' \in Int
        BY <4>1, LineTimed, LongestTime DEF Part, Timed, Duration
      <4> QED
        BY <3>1, <4>2
    <3>3. PICK s2 \in Int : s2 = Since(vis)[seg']
      BY <1>1, <3>1, LineLocked DEF Locked
    <3>4. Locked(vis, seg)
      BY <1>1, LineLocked
    <3>5. CASE seg \in SyncParts(vis)
      <4>1. k = 0 /\ syncs'.count = n + 1 /\ s = p /\ s2 = d
        BY <1>4, <1>5, <1>7, <1>8, <3>1, <3>3, <3>4, <3>5, Received DEF Locked, Part
      <4>2. (n + 1) * p = n * p + p
        BY Product
      <4>3. r + d = t - z + (n + 1) * p + s2 + 0
        <5>1. k * d = 0
          BY <4>1
        <5>2. PICK e \in Int : e = n * p
          BY Product
        <5> QED
          BY <1>9, <4>1, <4>2, <5>1, <5>2
      <4> QED
        BY <3>2, <3>3, <4>1, <4>3
    <3>6. CASE seg \notin SyncParts(vis)
      <4>1. syncs'.count = n /\ s2 = s + d * Part.count
        BY <1>4, <1>7, <1>8, <3>1, <3>3, <3>4, <3>6, Received DEF Locked, Part
      <4>2. d * Part.count = k * d + d
        <5>1. (k + 1) * d = k * d + d
          BY <1>1, Product
        <5>2. d * (k + 1) = (k + 1) * d
          BY <1>1
        <5> QED
          BY <2>2, <5>1, <5>2
      <4>3. r + d = t - z + n * p + s2 + 0
        <5>1. PICK e \in Int : e = n * p
          BY Product
        <5>2. PICK f \in Int : f = k * d
          BY <1>1
        <5> QED
          BY <1>9, <4>1, <4>2, <5>1, <5>2
      <4> QED
        BY <3>2, <3>3, <4>1, <4>3
    <3> QED
      BY <3>5, <3>6
  <2> QED
    BY <2>1, <2>2
<1>14. Passed(t - z + n2 * p + s2 + q2)'
  BY <1>11, <1>13
<1>15. CASE stage' = "picture"
  BY <1>1, <1>3, <1>5, <1>6, <1>13, <1>14, <1>15 DEF Elapsed
<1>16. CASE stage' = "trailer"
  <2>1. seg' = 1 /\ k' = 0
    BY <1>1, <1>16 , LineTonePosition
  <2>2. q2 = 0 /\ s2 = z
    <3>1. (Part.time)' \in Int
      <4>1. g_protocol' \in Mode /\ seg' \in 1 .. Len(Line(g_protocol'))
        BY <1>1, <2>1, LineTimed
      <4> QED
        BY <4>1, LineTimed, LongestTime DEF Part, Timed, Duration
    <3> QED
      BY <1>6, <1>13, <2>1, <3>1
  <2>3. Passed(t + n2 * p)'
    <3>1. t - z + n2 * p + s2 + q2 = t + n2 * p
      BY <2>2
    <3> QED
      BY <1>14, <3>1
  <2>4. n2 \in Nat /\ p \in Nat /\ (n2 + 1) * p <= Sent
    <3>1. /\ g_protocol' \in Mode /\ syncs'.count \in Nat
          /\ syncs'.count <= Height[FamilyOf(g_protocol')] \div (IF g_protocol' = 95 THEN 2 ELSE 1)
      BY <1>16 DEF SyncInv, Counted, IInv, TypeOK, PlayStages
    <3> QED
      BY <1>1, <1>5, <1>13, <3>1, PeriodsBounded
  <2>5. n2 * p <= Sent
    <3>1. (n2 + 1) * p = n2 * p + p /\ n2 * p \in Int
      BY Product
    <3> QED
      BY <2>4, <3>1, Bounds
  <2>6. i' - 1 = 0 /\ 0 * Longest = 0
    BY <1>1, Bounds
  <2>7. t + n2 * p <= 23 * Longest + Sent + (i' - 1) * Longest /\ t + n2 * p <= Whole
    <3>1. PICK e \in Int : e = n2 * p /\ e <= Sent
      BY <2>5, Product
    <3>2. PICK l \in Nat, x \in Int : l = Longest /\ x = Sent /\ Whole = 28 * l + x
      BY Bounds
    <3>3. t + e <= 23 * l + x /\ t + e <= 28 * l + x
      BY <1>3, <3>1, <3>2
    <3> QED
      BY <2>6, <3>1, <3>2, <3>3
  <2>8. t + n2 * p \in Int
    BY Product
  <2> QED
    BY <1>16, <2>3, <2>7, <2>8 DEF Elapsed
<1> QED
  BY <1>1, <1>15, <1>16

LEMMA ElapsedStep ==
  ASSUME RealPictures, IInv, SyncInv, Elapsed, [Next]_vars, IInv', SyncInv'
  PROVE  Elapsed'
<1>1. CASE HeaderTone
  BY <1>1, HeaderToneElapsed
<1>2. CASE StartTone
  BY <1>2, StartToneElapsed
<1>3. CASE LineTone
  BY <1>3, LineToneElapsed
<1>4. CASE TrailerTone
  BY <1>4, TrailerToneElapsed
<1>5. CASE ParseOptions \/ CheckFile
  <2>1. /\ stage \in {"options", "filetype"} /\ UNCHANGED <<g_samples, g_fudge>>
        /\ stage' \in {"filetype", "crash", "header", "exit2"}
        /\ stage' = "header" => i' = i /\ i = 1
    BY <1>5 DEF ParseOptions, CheckFile, unplayed, position, IInv, Fresh
  <2>2. g_samples' = 0 /\ g_fudge' = 0
    BY <2>1 DEF Elapsed
  <2>3. Passed(0)'
    BY <2>2, Ticks DEF Passed
  <2>4. stage' = "header" => 0 <= (i' - 1) * Longest
    BY <2>1, Bounds
  <2>5. 0 <= Whole
    BY Bounds
  <2> QED
    BY <2>1, <2>2, <2>3, <2>4, <2>5 DEF Elapsed
<1>6. CASE NoPicture
  <2>1. stage = "picture" /\ stage' = "crash" /\ UNCHANGED <<g_samples, g_fudge>>
    BY <1>6 DEF NoPicture, unplayed
  <2>2. PICK t \in Int : Passed(t) /\ t <= 23 * Longest + Sent
    BY <2>1, PictureBounded
  <2>3. Passed(t)' /\ t <= Whole
    BY <2>1, <2>2, Bounds DEF Passed
  <2> QED
    BY <2>1, <2>3 DEF Elapsed
<1>7. CASE WriteFile
  <2>1. stage = "write" /\ stage' = "exit0" /\ UNCHANGED <<g_samples, g_fudge>>
    BY <1>7 DEF WriteFile, unplayed
  <2>2. PICK t \in Int : Passed(t) /\ t <= Whole
    BY <2>1 DEF Elapsed
  <2>3. Passed(t)'
    BY <2>1, <2>2 DEF Passed
  <2> QED
    BY <2>1, <2>2, <2>3 DEF Elapsed
<1>8. CASE UNCHANGED vars
  BY <1>8 DEF Elapsed, Passed, Part, vars
<1> QED
  BY <1>1, <1>2, <1>3, <1>4, <1>5, <1>6, <1>7, <1>8 DEF Next, Ended

(* At no rate up to MAXRATE is that time as many samples as g_audio has. *)
LEMMA ElapsedFits ==
  ASSUME RealPictures, IInv, SyncInv, Elapsed
  PROVE  AudioFits
<1>1. PICK t \in Int : Passed(t) /\ t <= Whole
  <2>1. CASE stage = "picture"
    BY <2>1, PictureBounded, Bounds
  <2>2. CASE stage # "picture"
    BY <2>2 DEF Elapsed
  <2> QED
    BY <2>1, <2>2
<1>2. /\ Tenth \in Int /\ 0 < Tenth /\ Sample \in Int /\ 0 < Sample
      /\ MaxRate \in Int /\ 1 <= MaxRate /\ g_samples \in Nat /\ g_fudge \in Int
      /\ 2 * g_fudge >= -Sample
  <2>1. MaxRate \in Int /\ 1 <= MaxRate
    BY Rates
  <2>2. g_samples \in Nat /\ g_fudge \in Int /\ Half(g_fudge)
    BY DEF IInv, TypeOK, Carry
  <2> QED
    BY <2>1, <2>2, Ticks DEF Half
<1>3. MaxSamples = 300 * MaxRate
  BY DEF RealPictures, MaxSamples
<1>4. Whole <= 2860000000 /\ Whole \in Int
  BY SMT DEF Whole, Longest, Sent
<1>5. PICK a \in Int : a = g_samples * Sample
  BY <1>2
<1>6. PICK m \in Int : m = MaxRate * Sample /\ 10000000 * Tenth <= m
  BY <1>2, RateBound, SMT
<1>7. 2 * a <= 5720000000 * Tenth + Sample
  <2>1. PICK e \in Int : e = t * Tenth /\ e <= 2860000000 * Tenth
    BY <1>1, <1>2, <1>4, SMT
  <2>2. a + g_fudge = e
    BY <1>1, <1>5, <2>1 DEF Passed
  <2> QED
    BY <1>2, <2>1, <2>2, SMT
<1>8. ASSUME g_samples >= 300 * MaxRate
      PROVE  FALSE
  <2>1. a >= 300 * m
    <3>1. g_samples * Sample >= (300 * MaxRate) * Sample
      BY <1>2, <1>8
    <3>2. (300 * MaxRate) * Sample = 300 * m
      BY <1>2, <1>6
    <3> QED
      BY <1>5, <3>1, <3>2
  <2>2. m >= Sample
    BY <1>2, <1>6
  <2> QED
    BY <1>2, <1>6, <1>7, <2>1, <2>2, SMT
<1> QED
  BY <1>2, <1>3, <1>8 DEF AudioFits

(* The pictures that pisstv.c sends fit g_audio, which has room for 300 seconds at
   MAXRATE: in every mode, at every rate up to MAXRATE, at every step. *)
THEOREM AudioFitsAlways ==
  ASSUME RealPictures
  PROVE  Spec => []AudioFits
<1>1. Init => IInv /\ SyncInv /\ Elapsed
  BY InitInv, SyncInit, ElapsedInit
<1>2. IInv /\ SyncInv /\ Elapsed /\ [Next]_vars => (IInv /\ SyncInv /\ Elapsed)'
  BY StepInv, SyncStep, ElapsedStep
<1>3. IInv /\ SyncInv /\ Elapsed => AudioFits
  BY ElapsedFits
<1> QED
  BY <1>1, <1>2, <1>3, PTL DEF Spec
================================================================================
