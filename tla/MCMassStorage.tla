----------------------------- MODULE MCMassStorage -----------------------------
(***************************************************************************)
(* The use of the drive's image for TLC.                                   *)
(***************************************************************************)
EXTENDS MassStorage
================================================================================
