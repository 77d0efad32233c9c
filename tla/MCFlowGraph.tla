------------------------------ MODULE MCFlowGraph ------------------------------
(* A small flow graph for TLC: a source, and a sink that joins its samples with what a
   filter makes of them, which holds one back. *)
EXTENDS FlowGraph, TLC

CONSTANTS source, filter, sink

JoinOrder == <<source, filter, sink>>
JoinOuts == source :> <<filter, sink>> @@ filter :> <<sink>> @@ sink :> <<>>
JoinDelay == source :> 0 @@ filter :> 1 @@ sink :> 0
TheSource == {source}
================================================================================
