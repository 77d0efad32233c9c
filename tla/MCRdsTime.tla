------------------------------- MODULE MCRdsTime -------------------------------
(* All dates of rds_decode_time's calendar. *)
EXTENDS RdsTime
================================================================================
