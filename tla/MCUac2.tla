--------------------------------- MODULE MCUac2 ---------------------------------
(* Values for model-checking Uac2Function. *)
EXTENDS Uac2Function

(* The UAC2_DEF_* defaults with small rates. *)
MCDefault == [p_chmask |-> 3, p_srate |-> 1, p_ssize |-> 2,
              c_chmask |-> 3, c_srate |-> 2, c_ssize |-> 2, req_number |-> 2]

(* Capture may be disabled between two binds, and an option may be invalid. *)
MCCaptureOptional == [a \in Attr |-> IF a = "c_chmask" THEN {0, 3}
                                    ELSE IF a = "p_srate" THEN {0, 1} ELSE {}]

(* Either direction may be disabled between two binds, and an option may be
   invalid: the channel masks decide which descriptors, interfaces and
   endpoints a bind touches. *)
MCAnyDirections == [a \in Attr |-> IF a \in {"p_chmask", "c_chmask"} THEN {0, 1}
                                   ELSE IF a = "p_ssize" THEN {2, 5}
                                   ELSE IF a = "c_srate" THEN {0, 2} ELSE {}]
================================================================================
