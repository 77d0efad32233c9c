-------------------------------- MODULE MCSstv --------------------------------
(* Values for model-checking SstvEncoder: the Scottie modes, of which DX is the longest
   transmission of all, on the picture they really send, the others on a few
   pixels; and a rate at which the tones are no whole number of samples. *)
EXTENDS SstvEncoder

MCOption == {"m1", "m2", "s1", "s2", "sdx", "r36", "pd120", "m3", NoOption}
MCFile == {"png", "jpg", "text", "broken_png"}
MCColour == {0, 100, 255}
MCWidth == [f \in Family |-> CASE f = "s" -> 320 [] f = "pd120" -> 4 [] OTHER -> 3]
MCHeight == [f \in Family |-> CASE f = "s" -> 256 [] f \in {"r36", "pd120"} -> 6 [] OTHER -> 4]
================================================================================
