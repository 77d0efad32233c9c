-------------------------------- MODULE MCRadio --------------------------------
(* Values for model-checking RadioTools. *)
EXTENDS RadioTools, TLC

CONSTANTS p1, p2, p3

Line(program, lo, gain, fs) == [program |-> program, lo |-> lo, gain |-> gain, fs |-> fs]

\* Two measurements with plutoset, and one with both transmitters.
MCCommandLines ==
  { p1 :> Line("pow", 434000, 20, 4000) @@ p2 :> Line("pow", 100000, 40, 4000)
      @@ p3 :> Line("set", 0, 0, 0),
    p1 :> Line("pow", 434000, 20, 4000) @@ p2 :> Line("ssb", 144000, 0, 0)
      @@ p3 :> Line("plutossb", 144000, 0, 0) }
================================================================================
