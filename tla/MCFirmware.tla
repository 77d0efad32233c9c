------------------------------- MODULE MCFirmware -------------------------------
(* Values for model-checking FirmwareUpdate. *)
EXTENDS FirmwareUpdate

CONSTANTS a, b, x, y

(* Released payloads a (in flash at first) and b, larger; x, a corrupted copy
   of b; y, a release for another device. *)
MCImage == {a, b, x, y}
MCSize == [i \in MCImage |-> IF i = a THEN 1 ELSE 2]
MCFrm == {[img |-> i, sum |-> i] : i \in {a, b, y}} \union {[img |-> x, sum |-> b]}
MCHasMagic == {a, b, x}
MCGenuine == {a, b, y}
================================================================================
