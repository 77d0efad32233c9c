------------------------------ MODULE SstvEncoder ------------------------------
(***************************************************************************)
(* pisstv.c: a picture becomes a slow-scan television transmission, a      *)
(* sequence of tones written to a WAV file. Every tone goes through        *)
(* playtone, which turns a duration into a whole number of samples and     *)
(* carries what is left over to the next tone in g_fudge. One step plays   *)
(* one tone. A picture has any Colour at any pixel.                        *)
(***************************************************************************)
EXTENDS SstvTones, FiniteSets

CONSTANTS
  Option,      \* what -p may be given; NoOption when it is missing
  NoOption,
  File         \* kinds of input: "png", "jpg", "text", "broken_png"

VARIABLES
  stage,       \* where main is
  option, input,
  g_protocol,  \* the VIS code
  i,           \* the next tone of the header or the trailer
  y, seg, k,   \* the line, the part of the line, the pixel of that part
  g_samples,
  g_fudge,     \* in ticks
  late,        \* history: by how many ticks the audio is short of its tones
  begun,       \* history: g_samples and g_fudge when the part began
  heard,       \* history: frequencies of the header, as a receiver hears them
  syncs,       \* history: sync pulses of the picture, with their first samples
  out          \* the output file

vars == <<stage, option, input, g_protocol, i, y, seg, k, g_samples, g_fudge,
          late, begun, heard, syncs, out>>

NoFile == [bytes |-> -1, riff |-> -1]
EmptyFile == [bytes |-> 0, riff |-> -1]

-------------------------------------------------------------------------------
(* playtone. *)

(* Mutant: the fraction of a sample is cut off instead of rounded. *)
ToneSamplesCut(d) == ((d * Tenth + g_fudge) \div Sample) % 65536

\* uint16_t tonesamples.
ToneSamples(d) == Rounded(d, g_fudge) % 65536

(* Mutant: nothing is carried to the next tone. *)
PlayToneForgets(d) ==
  /\ g_samples' = g_samples + ToneSamples(d)
  /\ g_fudge' = 0
  /\ late' = late + d * Tenth - ToneSamples(d) * Sample

PlayTone(d) ==
  /\ g_samples' = g_samples + ToneSamples(d)
  /\ g_fudge' = d * Tenth + g_fudge - ToneSamples(d) * Sample
  /\ late' = late + d * Tenth - ToneSamples(d) * Sample

-------------------------------------------------------------------------------
Init ==
  /\ stage = "options"
  /\ option \in Option
  /\ input \in File
  /\ g_protocol = 0
  /\ i = 1 /\ y = 0 /\ seg = 1 /\ k = 0
  /\ g_samples = 0 /\ g_fudge = 0
  /\ late = 0
  /\ begun = [samples |-> 0, fudge |-> 0]
  /\ heard = <<>>
  /\ syncs = [count |-> 0, first |-> 0, last |-> 0]
  /\ out = NoFile

unplayed == <<g_samples, g_fudge, late, begun>>
position == <<i, y, seg, k>>

(* Mutant: the default protocol is forgotten. *)
VisOfNoDefault(opt) == CASE opt = "m1" -> 44
                         [] opt = "m2" -> 40
                         [] opt = "s1" -> 60
                         [] opt = "s2" -> 56
                         [] opt = "sdx" -> 76
                         [] opt = "r36" -> 8
                         [] opt = "pd120" -> 95
                         [] OTHER -> 0

VisOf(opt) == CASE opt = "m1" -> 44
                [] opt = "m2" -> 40
                [] opt = "s1" -> 60
                [] opt = "s2" -> 56
                [] opt = "sdx" -> 76
                [] opt = "r36" -> 8
                [] opt = "pd120" -> 95
                [] OTHER -> 44

\* Without -p the pointer protocol is not initialised: comparing it crashes or
\* finds no protocol, which is Martin 1.
ParseOptions ==
  /\ stage = "options"
  /\ \/ stage' = "filetype" /\ g_protocol' = VisOf(option)
     \/ option = NoOption /\ stage' = "crash" /\ UNCHANGED g_protocol
  /\ UNCHANGED <<option, input, position, unplayed, heard, syncs, out>>

\* filetype recognises PNG alone; the output is opened, and emptied, before the
\* picture is decoded. A null picture is first used at the first pixel.
CheckFile ==
  /\ stage = "filetype"
  /\ IF input \in {"png", "broken_png"}
     THEN stage' = "header" /\ out' = EmptyFile
     ELSE stage' = "exit2" /\ UNCHANGED out
  /\ UNCHANGED <<option, input, g_protocol, position, unplayed, heard, syncs>>

HeaderTone ==
  /\ stage = "header"
  /\ LET tone == Header(g_protocol)[i] IN
       /\ PlayTone(tone[2])
       /\ heard' = Append(heard, tone[1])
  /\ IF i < Len(Header(g_protocol))
     THEN i' = i + 1 /\ UNCHANGED stage
     ELSE i' = 1 /\ stage' = IF FamilyOf(g_protocol) = "s" THEN "start" ELSE "picture"
  /\ UNCHANGED <<option, input, g_protocol, y, seg, k, begun, syncs, out>>

\* The starting sync pulse of the Scottie modes.
StartTone ==
  /\ stage = "start"
  /\ PlayTone(90000)
  /\ stage' = "picture"
  /\ UNCHANGED <<option, input, g_protocol, position, begun, heard, syncs, out>>

NoPicture ==
  /\ stage = "picture" /\ input = "broken_png"
  /\ stage' = "crash"
  /\ UNCHANGED <<option, input, g_protocol, position, unplayed, heard, syncs, out>>

\* A receiver notes where the 1200 Hz pulses of the picture begin.
Receive(f) ==
  syncs' = IF f # 1200 THEN syncs
           ELSE [count |-> syncs.count + 1,
                 first |-> IF syncs.count = 0 THEN g_samples ELSE syncs.first,
                 last |-> g_samples]

LineTone ==
  /\ stage = "picture" /\ input # "broken_png"
  /\ LET line == Line(g_protocol)
         part == line[seg]
         partEnds == k + 1 = part.count
         lineEnds == partEnds /\ seg = Len(line)
     IN /\ PlayTone(part.time)
        /\ \E f \in part.tones : Receive(f)
        /\ begun' = IF k = 0 THEN [samples |-> g_samples, fudge |-> g_fudge] ELSE begun
        /\ k' = IF partEnds THEN 0 ELSE k + 1
        /\ seg' = IF lineEnds THEN 1 ELSE IF partEnds THEN seg + 1 ELSE seg
        /\ y' = IF lineEnds THEN y + LinesAtOnce(g_protocol) ELSE y
        /\ stage' = IF lineEnds /\ y + LinesAtOnce(g_protocol)
                                     >= Height[FamilyOf(g_protocol)]
                    THEN "trailer" ELSE "picture"
  /\ UNCHANGED <<option, input, g_protocol, i, heard, out>>

TrailerTone ==
  /\ stage = "trailer"
  /\ PlayTone(Trailer[i][2])
  /\ IF i < Len(Trailer) THEN i' = i + 1 /\ UNCHANGED stage ELSE i' = 1 /\ stage' = "write"
  /\ UNCHANGED <<option, input, g_protocol, y, seg, k, begun, heard, syncs, out>>

\* writefile_wav: 44 bytes of headers, then g_audio[0] to g_audio[g_samples].
WriteFile ==
  /\ stage = "write"
  /\ LET audiosize == 2 * g_samples IN
       out' = [bytes |-> 44 + 2 * (g_samples + 1), riff |-> 4 + (8 + 16) + (8 + audiosize)]
  /\ stage' = "exit0"
  /\ UNCHANGED <<option, input, g_protocol, position, unplayed, heard, syncs>>

Ended == stage \in {"exit0", "exit2", "crash"} /\ UNCHANGED vars

Next ==
  \/ ParseOptions \/ CheckFile \/ HeaderTone \/ StartTone \/ NoPicture
  \/ LineTone \/ TrailerTone \/ WriteFile \/ Ended

Spec == Init /\ [][Next]_vars

-------------------------------------------------------------------------------
(* Properties. *)

Stages == {"options", "filetype", "header", "start", "picture", "trailer", "write",
           "exit0", "exit2", "crash"}
PlayStages == {"header", "start", "picture", "trailer", "write", "exit0"}

(* Types. *)
TypeOK ==
  /\ stage \in Stages
  /\ option \in Option /\ input \in File
  /\ g_protocol \in Mode \union {0}
  /\ stage \in PlayStages => g_protocol \in Mode
  /\ i \in Nat \ {0} /\ y \in Nat /\ seg \in Nat \ {0} /\ k \in Nat
  /\ g_samples \in Nat
  /\ g_fudge \in Int /\ late \in Int
  /\ begun \in [samples : Nat, fudge : Int]

(* playtone's promise: at every moment the audio has the number of samples
   nearest to the time its tones should have taken, in every mode and at every
   rate, however many tones there were. It depends on the carry, and on no tone
   reaching the 65536 samples at which tonesamples wraps. *)
NearestSample == 2 * late <= Sample /\ -2 * late <= Sample

(* MAXSAMPLES (pisstv.c:35): g_audio, which playtone indexes up to g_samples without
   a check, holds the whole transmission of every protocol at the highest rate. *)
AudioFits == g_samples < MaxSamples

(* addvisheader: from the tones alone a receiver finds the protocol that
   buildaudio follows: seven digits, least significant first, and even parity. *)
HeardDigit(n) == IF heard[Len(heard) - 9 + n] = 1100 THEN 1 ELSE 0
HeardCode == HeardDigit(1) + 2 * HeardDigit(2) + 4 * HeardDigit(3) + 8 * HeardDigit(4)
             + 16 * HeardDigit(5) + 32 * HeardDigit(6) + 64 * HeardDigit(7)
ModeAnnounced ==
  stage \in {"start", "picture", "trailer", "write"} =>
    /\ HeardCode = g_protocol
    /\ Cardinality({n \in 1 .. 8 : HeardDigit(n) = 1}) % 2 = 0
    /\ heard[Len(heard) - 9] = 1200 /\ heard[Len(heard)] = 1200

(* The time between two sync pulses of each mode. *)
SyncPeriod(vis) ==
  LET w == Width[FamilyOf(vis)] IN
  CASE FamilyOf(vis) = "m" -> 48620 + 4 * 5720 + 3 * w * PixelTime(vis)
    [] FamilyOf(vis) = "s" -> 90000 + 3 * 15000 + 3 * w * PixelTime(vis)
    [] FamilyOf(vis) = "r36" -> 90000 + 30000 + 45000 + 15000 + w * (2750 + 1375)
    [] OTHER -> 200000 + 20800 + 4 * w * 1900

(* What a receiver locks to: the pulses it hears are the sync pulses alone, as no
   pixel sounds like one, and the last is within a sample of where the first
   and the period of the mode put it: the picture does not slant. *)
SyncsRegular ==
  LET ticks == SyncPeriod(g_protocol) * Tenth
      periods == syncs.count - 1
      drift == (syncs.last - syncs.first - periods * (ticks \div Sample)) * Sample
               - periods * (ticks % Sample)
  IN syncs.count > 0 => drift <= Sample /\ -drift <= Sample

(* One sync pulse for each line (for two lines in PD 120). *)
EveryLineHasSync ==
  stage \in {"trailer", "write"} =>
    syncs.count = Height[FamilyOf(g_protocol)] \div (IF g_protocol = 95 THEN 2 ELSE 1)

(* The encoder implements SstvTimeline: seen at the ends of the parts of a line, its
   scans of Width pixels, with a rounding each, have exactly the samples that
   one tone of the whole scan would have. *)
Sending == stage \in PlayStages \/ (stage = "crash" /\ g_protocol # 0)
TStage == IF ~Sending THEN "idle"
          ELSE IF stage = "crash" THEN "picture"
          ELSE IF stage \in {"write", "exit0"} THEN "end" ELSE stage
TVis == IF Sending THEN g_protocol ELSE 0
TSamples == IF k = 0 THEN g_samples ELSE begun.samples
TFudge == IF k = 0 THEN g_fudge ELSE begun.fudge
Timeline == INSTANCE SstvTimeline WITH
  stage <- TStage, vis <- TVis, samples <- TSamples, fudge <- TFudge
ImplementsTimeline == Timeline!Spec
================================================================================
