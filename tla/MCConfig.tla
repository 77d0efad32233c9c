-------------------------------- MODULE MCConfig --------------------------------
(* Values for model-checking DeviceConfig. *)
EXTENDS DeviceConfig

(* A network setting other than the default; an xo_correction that is the
   default's or that of a calibration. *)
MCNet == {1, 2}
MCXo == {1, 3}
MCAction == {"none", "reset", "dfu", "calibrate"}

(* Any settings with either line ends, and each action with some. *)
MCEdits ==
  {c \in Config :
     \/ c.action = "none"
     \/ ~c.crlf /\ c.xo = DefaultXo /\ (c.action = "calibrate" \/ c.net # DefaultNet)}
================================================================================
