----------------------------- MODULE MCAutomounter -----------------------------
(***************************************************************************)
(* The automounter for TLC.                                                *)
(***************************************************************************)
EXTENDS Automounter
================================================================================
