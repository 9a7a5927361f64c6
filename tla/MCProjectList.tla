--------------------------- MODULE MCProjectList ---------------------------
(* Instances of ProjectList for TLC. *)
EXTENDS ProjectList, TLC

CONSTANTS t1, pA

\* Two projects, of which the second stays empty.
OnlyFirst == t1 :> pA

\* A race stays on record.  The properties excuse what follows a failed load,
\* and the other races change neither selection nor subscription.
NoRace == races = {}

\* The counts that CountedOnceWhenLoaded excuses need not be told apart.
Relevant ==
  <<vars, listing = NULL, early, IF early THEN << >> ELSE <<task_count, listing>>>>
=============================================================================
