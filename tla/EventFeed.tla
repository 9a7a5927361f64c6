----------------------------- MODULE EventFeed -----------------------------
(***************************************************************************)
(* What the transactional outbox promises to whoever reads the Kafka topic *)
(* noapp.board-events.v1, with the relay's claims, leases, retries and     *)
(* crashes left out.  An event is absent, then pending (its row is         *)
(* committed), then either published or dead, and stays so.  While it is   *)
(* not absent it may be appended to the topic any number of times, in any  *)
(* order relative to the other events: at-least-once, unordered.  It is    *)
(* settled as published only once the topic holds it, and an event whose   *)
(* payload cannot be decoded never reaches the topic.                      *)
(***************************************************************************)
EXTENDS Integers, Sequences

CONSTANTS
  Sequence,   \* outbox_events.sequence values
  Poison      \* the rows whose payload events.Decode rejects

VARIABLES
  status,     \* what became of each event
  log         \* the topic: the events appended to it, oldest first

vars == <<status, log>>

Status == {"absent", "pending", "published", "dead"}

InLog(s) == \E i \in 1..Len(log) : log[i] = s

Init ==
  /\ status = [s \in Sequence |-> "absent"]
  /\ log = << >>

\* The API transaction that wrote the event commits.
Insert(s) ==
  /\ status[s] = "absent"
  /\ status' = [status EXCEPT ![s] = "pending"]
  /\ UNCHANGED log

\* A relay's record reaches the topic, perhaps not for the first time.
Append1(s) ==
  /\ status[s] # "absent"
  /\ s \notin Poison
  /\ log' = Append(log, s)
  /\ UNCHANGED status

\* The event is recorded as published.
Settle(s) ==
  /\ status[s] = "pending"
  /\ InLog(s)
  /\ status' = [status EXCEPT ![s] = "published"]
  /\ UNCHANGED log

\* The event is given up.
Bury(s) ==
  /\ status[s] = "pending"
  /\ status' = [status EXCEPT ![s] = "dead"]
  /\ UNCHANGED log

Next == \E s \in Sequence : Insert(s) \/ Append1(s) \/ Settle(s) \/ Bury(s)

Spec == Init /\ [][Next]_vars
=============================================================================
