--------------------------- MODULE MCBoardClient ---------------------------
(* Instances of BoardClient for TLC. *)
EXTENDS BoardClient, TLC

CONSTANTS t1, pA

\* One project with one task.
OnlyOne == t1 :> pA
=============================================================================
