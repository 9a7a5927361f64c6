--------------------------- MODULE MCRealtimeHub ---------------------------
(* Instances of RealtimeHub for TLC. *)
EXTENDS RealtimeHub, TLC

\* The second record of p1 is one that Decode rejects.
CONSTANT p1
SecondCorrupt == {[project |-> p1, offset |-> 2]}
=============================================================================
