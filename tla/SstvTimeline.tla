------------------------------ MODULE SstvTimeline ------------------------------
(***************************************************************************)
(* What SstvEncoder promises of time: a transmission is its header, its    *)
(* lines and its trailer, one part after another, and a scan of a line is   *)
(* as long as one tone of the whole scan's duration. The pixels do not     *)
(* show. SstvEncoder implements this.                                      *)
(***************************************************************************)
EXTENDS SstvTones

VARIABLES stage, vis, i, y, seg, samples, fudge

vars == <<stage, vis, i, y, seg, samples, fudge>>

Play(d) ==
  /\ samples' = samples + Rounded(d, fudge)
  /\ fudge' = d * Tenth + fudge - Rounded(d, fudge) * Sample

Init ==
  /\ stage = "idle" /\ vis = 0
  /\ i = 1 /\ y = 0 /\ seg = 1
  /\ samples = 0 /\ fudge = 0

Begin ==
  /\ stage = "idle"
  /\ vis' \in Mode
  /\ stage' = "header"
  /\ UNCHANGED <<i, y, seg, samples, fudge>>

PlayHeader ==
  /\ stage = "header"
  /\ Play(Header(vis)[i][2])
  /\ IF i < Len(Header(vis))
     THEN i' = i + 1 /\ UNCHANGED stage
     ELSE i' = 1 /\ stage' = IF FamilyOf(vis) = "s" THEN "start" ELSE "picture"
  /\ UNCHANGED <<vis, y, seg>>

PlayStart ==
  /\ stage = "start"
  /\ Play(90000)
  /\ stage' = "picture"
  /\ UNCHANGED <<vis, i, y, seg>>

\* A part of a line.
PlayPart ==
  /\ stage = "picture"
  /\ LET part == Line(vis)[seg]
         lineEnds == seg = Len(Line(vis))
     IN /\ Play(part.time * part.count)
        /\ seg' = IF lineEnds THEN 1 ELSE seg + 1
        /\ y' = IF lineEnds THEN y + LinesAtOnce(vis) ELSE y
        /\ stage' = IF lineEnds /\ y + LinesAtOnce(vis) >= Height[FamilyOf(vis)]
                    THEN "trailer" ELSE "picture"
  /\ UNCHANGED <<vis, i>>

PlayTrailer ==
  /\ stage = "trailer"
  /\ Play(Trailer[i][2])
  /\ IF i < Len(Trailer) THEN i' = i + 1 /\ UNCHANGED stage ELSE i' = 1 /\ stage' = "end"
  /\ UNCHANGED <<vis, y, seg>>

Ended == stage = "end" /\ UNCHANGED vars

Next == Begin \/ PlayHeader \/ PlayStart \/ PlayPart \/ PlayTrailer \/ Ended

Spec == Init /\ [][Next]_vars

================================================================================
