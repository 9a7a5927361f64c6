---------------------------- MODULE MCTaskStore ----------------------------
(* Instances of TaskStore for TLC. *)
EXTENDS TaskStore, TLC

\* Requests are interchangeable: no action or property tells them apart.
HandlerSymmetry == Permutations(Handler)
=============================================================================
