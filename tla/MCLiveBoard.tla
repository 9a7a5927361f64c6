---------------------------- MODULE MCLiveBoard ----------------------------
(* Instances of LiveBoard for TLC. *)
EXTENDS LiveBoard, TLC

CONSTANTS t1, pA

\* One project with one task.
OnlyOne == t1 :> pA

\* A race stays on record and excuses the board: one is followed up only while
\* nothing was written.  A behaviour that is cut off has met the promise of
\* ChangesReachBoard, and none that is kept loses a fair step.
RaceBeforeWrites == races = {} \/ \A t \in Task : db[t] = 0
=============================================================================
