------------------------------- MODULE SstvTones -------------------------------
(***************************************************************************)
(* What pisstv.c plays: the tones of a slow-scan television transmission,  *)
(* by protocol, and the tones a colour can have.                           *)
(*                                                                         *)
(* Durations are in tenths of a microsecond, as 137.5 and 457.6 need. A    *)
(* tenth is Tenth ticks and a sample is Sample ticks, so that g_uspersample *)
(* is Sample / (10 * Tenth) and the arithmetic on doubles is exact.        *)
(***************************************************************************)
EXTENDS Integers, Sequences

CONSTANTS
  Colour,        \* the values of a colour component
  Tenth, Sample,
  Width, Height, \* [Family -> Nat]: 320 and 640 pixels, 256, 240 and 496 lines
  MaxRate,       \* MAXRATE
  MaxSeconds     \* the 300 of MAXSAMPLES

Family == {"m", "s", "r36", "pd120"}

ASSUME PictureAssumption ==
  /\ Colour \subseteq 0 .. 255
  /\ Width \in [Family -> Nat \ {0}]
  /\ Height \in [Family -> Nat \ {0}]
  /\ Height["r36"] % 2 = 0 /\ Height["pd120"] % 2 = 0

ASSUME RateAssumption ==
  /\ Tenth \in Nat \ {0}
  /\ Sample \in Nat \ {0}
  /\ MaxRate \in Nat \ {0} /\ MaxRate < 65536
  /\ MaxSeconds \in Nat

\* The rate, 10000000 * Tenth / Sample, is at most MAXRATE and fits 16 bits.
ASSUME RateBound == 10000000 * Tenth <= MaxRate * Sample

(* Mutant: the buffer is sized for the default rate, half the highest. *)
MaxSamplesAtRate == MaxSeconds * (MaxRate \div 2)

MaxSamples == MaxSeconds * MaxRate

Mode == {44, 40, 60, 56, 76, 8, 95}

FamilyOf(vis) == CASE vis \in {44, 40} -> "m"
                   [] vis \in {60, 56, 76} -> "s"
                   [] vis = 8 -> "r36"
                   [] OTHER -> "pd120"

\* The pixeltime argument of buildaudio_m and buildaudio_s.
PixelTime(vis) == CASE vis = 44 -> 4576
                    [] vis = 40 -> 2288
                    [] vis = 60 -> 4320
                    [] vis = 56 -> 2752
                    [] OTHER -> 10800

-------------------------------------------------------------------------------
(* Colours to tones. *)

(* Mutant: the colours begin at the frequency of the sync pulse. *)
ToneRgbLow(c) == (1100 * c) \div 256 + 1200

ToneRgb(c) == (800 * c) \div 256 + 1500

\* c * 3.1372549 + 1500.0, truncated.
ToneYuv(c) == 3 * c + (1372549 * c) \div 10000000 + 1500

\* base + 0.003906 * s / 1000, truncated to a uint8_t. The product is taken in
\* two parts, which fit 32 bits.
Truncate(base, s) ==
  (base + (3906 * (s \div 1000) + (3906 * (s % 1000)) \div 1000) \div 1000000) % 256

Luma(r, g, b) == Truncate(16, 65738 * r + 129057 * g + 25064 * b)
RedDifference(r, g, b) == Truncate(128, 112439 * r - 94154 * g - 18285 * b)
BlueDifference(r, g, b) == Truncate(128, -37945 * r - 74494 * g + 112439 * b)

\* The averages of two lines.
Average == {(c + d) \div 2 : c, d \in Colour}

RgbTone == {ToneRgb(c) : c \in Colour}
LumaTone == {ToneYuv(Luma(r, g, b)) : r, g, b \in Colour}
RedTone == {ToneYuv(RedDifference(r, g, b)) : r, g, b \in Average}
BlueTone == {ToneYuv(BlueDifference(r, g, b)) : r, g, b \in Average}

-------------------------------------------------------------------------------
(* The tones of a transmission. *)

(* Mutant: the most significant digit is sent first. *)
VisBitReversed(vis, n) == (vis \div 2^(6 - n)) % 2

\* The VIS digits, least significant first, and the parity.
VisBit(vis, n) == (vis \div 2^n) % 2
Parity(vis) == (VisBit(vis, 0) + VisBit(vis, 1) + VisBit(vis, 2) + VisBit(vis, 3)
                + VisBit(vis, 4) + VisBit(vis, 5) + VisBit(vis, 6)) % 2
Digit(bit) == <<IF bit = 1 THEN 1100 ELSE 1300, 300000>>

Leader == <<<<0, 5000000>>, <<1900, 1000000>>, <<1500, 1000000>>, <<1900, 1000000>>,
            <<1500, 1000000>>, <<2300, 1000000>>, <<1500, 1000000>>, <<2300, 1000000>>,
            <<1500, 1000000>>, <<1900, 3000000>>, <<1200, 100000>>, <<1900, 3000000>>,
            <<1200, 300000>>>>

Header(vis) == Leader \o [n \in 1 .. 7 |-> Digit(VisBit(vis, n - 1))]
                      \o <<Digit(Parity(vis)), <<1200, 300000>>>>

Trailer == <<<<2300, 3000000>>, <<1200, 100000>>, <<2300, 1000000>>, <<1200, 300000>>,
             <<0, 5000000>>>>

\* A part of a line: tones to choose from, how long one lasts, how many.
Fixed(f, d) == [tones |-> {f}, time |-> d, count |-> 1]
Scan(tones, d, n) == [tones |-> tones, time |-> d, count |-> n]

MartinLine(d) == LET w == Width["m"] IN
  <<Fixed(1200, 48620), Fixed(1500, 5720), Scan(RgbTone, d, w), Fixed(1500, 5720),
    Scan(RgbTone, d, w), Fixed(1500, 5720), Scan(RgbTone, d, w), Fixed(1500, 5720)>>

ScottieLine(d) == LET w == Width["s"] IN
  <<Fixed(1500, 15000), Scan(RgbTone, d, w), Fixed(1500, 15000), Scan(RgbTone, d, w),
    Fixed(1200, 90000), Fixed(1500, 15000), Scan(RgbTone, d, w)>>

RobotLines == LET w == Width["r36"] IN
  <<Fixed(1200, 90000), Fixed(1500, 30000), Scan(LumaTone, 2750, w),
    Fixed(1500, 45000), Fixed(1900, 15000), Scan(RedTone, 1375, w),
    Fixed(1200, 90000), Fixed(1500, 30000), Scan(LumaTone, 2750, w),
    Fixed(2300, 45000), Fixed(1900, 15000), Scan(BlueTone, 1375, w)>>

PdLines == LET w == Width["pd120"] IN
  <<Fixed(1200, 200000), Fixed(1500, 20800), Scan(LumaTone, 1900, w),
    Scan(RedTone, 1900, w), Scan(BlueTone, 1900, w), Scan(LumaTone, 1900, w)>>

Line(vis) == CASE FamilyOf(vis) = "m" -> MartinLine(PixelTime(vis))
               [] FamilyOf(vis) = "s" -> ScottieLine(PixelTime(vis))
               [] FamilyOf(vis) = "r36" -> RobotLines
               [] OTHER -> PdLines

(* Mutant: y++ where a step of the loop sends two lines. *)
LinesAtOnceSingle(vis) == 1

\* y++ or y += 2.
LinesAtOnce(vis) == IF FamilyOf(vis) \in {"r36", "pd120"} THEN 2 ELSE 1

\* The samples of a tone: its duration and what is left of the tones before,
\* to the nearest whole number.
Rounded(d, fudge) == (2 * (d * Tenth + fudge) + Sample) \div (2 * Sample)
================================================================================
