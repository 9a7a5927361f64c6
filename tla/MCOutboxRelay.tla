--------------------------- MODULE MCOutboxRelay ---------------------------
(* Instances of OutboxRelay for TLC. *)
EXTENDS OutboxRelay, TLC

\* Relays are interchangeable: no action or property tells them apart.
WorkerSymmetry == Permutations(Worker)
=============================================================================
