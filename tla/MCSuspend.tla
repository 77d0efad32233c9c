------------------------------- MODULE MCSuspend -------------------------------
(***************************************************************************)
(* The suspend handler for TLC.                                            *)
(***************************************************************************)
EXTENDS SuspendHandler
================================================================================
