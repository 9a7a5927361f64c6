---------------------------- MODULE OutboxRelay ----------------------------
(***************************************************************************)
(* The outbox relay (internal/outbox/relay.go, cmd/outbox-relay/main.go):  *)
(* processes that lease committed outbox rows, publish them to Kafka and   *)
(* record the outcome, while other relays, lease expiry, database errors   *)
(* and crashes interleave with every step.                                 *)
(*                                                                         *)
(* Each column of outbox_events that the relay reads or writes is a        *)
(* variable.  Instants are kept relative to now(): next_attempt_at and     *)
(* claim_until hold the time left, and Tick lets one unit of time pass.    *)
(* A claim is a transaction of two steps, because FOR UPDATE SKIP LOCKED   *)
(* makes the rows of an open claim invisible to the others; the single     *)
(* UPDATEs of publishOne and fail are one step each, and wait while their  *)
(* row is locked.                                                          *)
(***************************************************************************)
EXTENDS Integers, Sequences, FiniteSets

CONSTANTS
  Worker,        \* WorkerIDs: the host names of the relay processes
  MaxSequence,   \* rows are numbered 1..MaxSequence
  Poison,        \* rows whose payload events.Decode rejects
  BatchSize,     \* Config.BatchSize
  ClaimFor,      \* Config.ClaimFor, in units of Tick
  MaxBackoff,    \* Config.MaxBackoff, in units of Tick
  MaxAttempts,   \* Config.MaxAttempts
  MaxLog,        \* bound: records the modelled topic can hold
  NULL           \* SQL NULL

Sequence == 1..MaxSequence

\* What claim keeps of a row it leased.
ClaimedEvent == [sequence : Sequence, attemptCount : Nat]

ASSUME ConstantsAssumption ==
  /\ MaxSequence \in Nat
  /\ Poison \subseteq Sequence
  /\ BatchSize \in Nat \ {0}
  /\ ClaimFor \in Nat \ {0}
  /\ MaxBackoff \in Nat \ {0}
  /\ MaxAttempts \in Nat \ {0}
  /\ MaxLog \in Nat
  /\ NULL \notin Worker
  /\ NULL \notin Int
  /\ NULL \notin ClaimedEvent

VARIABLES
  rows,             \* sequences of the committed outbox rows
  published,        \* rows with published_at set
  dead,             \* rows with dead_at set
  attempt_count,    \* column, per row
  next_attempt_at,  \* column, per row: time left until it, 0 once reached
  claimed_by,       \* column, per row: a worker or NULL
  claim_until,      \* column, per row: time left, -1 once passed, or NULL
  log,              \* the Kafka topic: sequences of the records, oldest first
  pc,               \* what each worker is doing
  locked,           \* rows locked by each worker's open claim transaction
  batch,            \* claimedEvents each worker has still to publish
  item,             \* claimedEvent each worker is publishing, or NULL
  lease,            \* time left of the lease each worker's batch was taken under
  dead_reported     \* rows a worker has logged and counted as dead-lettered

dbVars     == <<rows, published, dead, attempt_count, next_attempt_at,
                claimed_by, claim_until>>
workerVars == <<pc, locked, batch, item, lease>>
vars       == <<dbVars, log, workerVars, dead_reported>>

\* The columns, the topic and each relay's local state have their types; lease
\* times and backoffs stay inside ClaimFor and MaxBackoff.
TypeOK ==
  /\ rows \subseteq Sequence
  /\ published \subseteq rows
  /\ dead \subseteq rows
  /\ attempt_count \in [Sequence -> Nat]
  /\ next_attempt_at \in [Sequence -> 0..MaxBackoff]
  /\ claimed_by \in [Sequence -> Worker \cup {NULL}]
  /\ claim_until \in [Sequence -> (-1..ClaimFor) \cup {NULL}]
  /\ log \in Seq(Sequence)
  /\ pc \in [Worker -> {"idle", "claiming", "publishing", "marking", "failing", "down"}]
  /\ locked \in [Worker -> SUBSET Sequence]
  /\ batch \in [Worker -> SUBSET ClaimedEvent]
  /\ item \in [Worker -> ClaimedEvent \cup {NULL}]
  /\ lease \in [Worker -> -1..ClaimFor]
  /\ dead_reported \subseteq Sequence

Init ==
  /\ rows = {}
  /\ published = {}
  /\ dead = {}
  /\ attempt_count = [s \in Sequence |-> 0]
  /\ next_attempt_at = [s \in Sequence |-> 0]
  /\ claimed_by = [s \in Sequence |-> NULL]
  /\ claim_until = [s \in Sequence |-> NULL]
  /\ log = << >>
  /\ pc = [w \in Worker |-> "idle"]
  /\ locked = [w \in Worker |-> {}]
  /\ batch = [w \in Worker |-> {}]
  /\ item = [w \in Worker |-> NULL]
  /\ lease = [w \in Worker |-> -1]
  /\ dead_reported = {}

-----------------------------------------------------------------------------
(* The API's transactions                                                  *)

\* The transaction that inserted row s commits.  A sequence number is drawn
\* inside the transaction, so rows become visible in any order.
InsertOutbox(s) ==
  /\ s \notin rows
  /\ rows' = rows \cup {s}
  /\ UNCHANGED <<published, dead, attempt_count, next_attempt_at, claimed_by,
                 claim_until, log, workerVars, dead_reported>>

-----------------------------------------------------------------------------
(* claim                                                                   *)

\* Mutant: the query forgets that a row may be leased.
ClaimableThoughLeased(s) ==
  /\ s \in rows \ (published \cup dead)
  /\ next_attempt_at[s] <= 0

\* Mutant: only unclaimed rows are taken, never those of an expired claim.
ClaimableIfUnclaimed(s) ==
  /\ s \in rows \ (published \cup dead)
  /\ next_attempt_at[s] <= 0
  /\ claim_until[s] = NULL

\* The WHERE clause of the candidates query.
Claimable(s) ==
  /\ s \in rows \ (published \cup dead)
  /\ next_attempt_at[s] <= 0
  /\ claim_until[s] = NULL \/ claim_until[s] < 0

LockedByOthers(w) == UNION {locked[v] : v \in Worker \ {w}}

\* ORDER BY sequence LIMIT n
Lowest(n, S) == {s \in S : Cardinality({t \in S : t < s}) < n}

Candidates(w) ==
  Lowest(BatchSize, {s \in rows : Claimable(s)} \ LockedByOthers(w))

\* Begin, and the candidates query with its row locks.  An empty batch only
\* refreshes the backlog gauge, which is telemetry and left out.
ClaimBegin(w) ==
  /\ pc[w] = "idle"
  /\ Candidates(w) # {}
  /\ pc' = [pc EXCEPT ![w] = "claiming"]
  /\ locked' = [locked EXCEPT ![w] = Candidates(w)]
  /\ lease' = [lease EXCEPT ![w] = ClaimFor]
  /\ UNCHANGED <<dbVars, log, batch, item, dead_reported>>

\* The UPDATE of the claim takes effect with the commit.
WriteClaim(w) ==
  /\ claimed_by' = [s \in Sequence |->
                      IF s \in locked[w] THEN w ELSE claimed_by[s]]
  /\ claim_until' = [s \in Sequence |->
                      IF s \in locked[w] THEN lease[w] ELSE claim_until[s]]
  /\ locked' = [locked EXCEPT ![w] = {}]
  /\ UNCHANGED <<rows, published, dead, attempt_count, next_attempt_at, log,
                 item, dead_reported>>

ClaimCommit(w) ==
  /\ pc[w] = "claiming"
  /\ WriteClaim(w)
  /\ batch' = [batch EXCEPT ![w] =
                 {[sequence |-> s, attemptCount |-> attempt_count[s]] : s \in locked[w]}]
  /\ pc' = [pc EXCEPT ![w] = "publishing"]
  /\ UNCHANGED lease

\* The commit is applied, its acknowledgement is lost: claim returns an error.
ClaimCommitUnacknowledged(w) ==
  /\ pc[w] = "claiming"
  /\ WriteClaim(w)
  /\ pc' = [pc EXCEPT ![w] = "idle"]
  /\ lease' = [lease EXCEPT ![w] = -1]
  /\ UNCHANGED batch

\* Any error before the commit: the deferred Rollback releases the locks.
ClaimRollback(w) ==
  /\ pc[w] = "claiming"
  /\ pc' = [pc EXCEPT ![w] = "idle"]
  /\ locked' = [locked EXCEPT ![w] = {}]
  /\ lease' = [lease EXCEPT ![w] = -1]
  /\ UNCHANGED <<dbVars, log, batch, item, dead_reported>>

-----------------------------------------------------------------------------
(* publishOne and fail                                                     *)

\* Take the next event of the batch.  UPDATE ... RETURNING promises no order,
\* so any of them may be next.
TakeItem(w, i, next) ==
  /\ pc[w] = "publishing"
  /\ i \in batch[w]
  /\ batch' = [batch EXCEPT ![w] = @ \ {i}]
  /\ item' = [item EXCEPT ![w] = i]
  /\ pc' = [pc EXCEPT ![w] = next]
  /\ UNCHANGED <<dbVars, locked, lease, dead_reported>>

AppendRecord(s) ==
  /\ Len(log) < MaxLog
  /\ log' = Append(log, s)

\* events.Decode rejects the payload.
DecodeFails(w) ==
  \E i \in batch[w] :
    /\ i.sequence \in Poison
    /\ TakeItem(w, i, "failing")
    /\ UNCHANGED log

\* ProduceSync returns without an error: every in-sync replica has the record.
PublishAcknowledged(w) ==
  \E i \in batch[w] :
    /\ i.sequence \notin Poison
    /\ TakeItem(w, i, "marking")
    /\ AppendRecord(i.sequence)

\* Mutant: the error of ProduceSync is dropped.
PublishIgnoringError(w) ==
  \E i \in batch[w] :
    /\ i.sequence \notin Poison
    /\ TakeItem(w, i, "marking")
    /\ UNCHANGED log \/ AppendRecord(i.sequence)

\* ProduceSync returns an error; the record may have been appended all the same.
PublishFails(w) ==
  \E i \in batch[w] :
    /\ i.sequence \notin Poison
    /\ TakeItem(w, i, "failing")
    /\ UNCHANGED log \/ AppendRecord(i.sequence)

Publish(w) == DecodeFails(w) \/ PublishAcknowledged(w) \/ PublishFails(w)

\* The loop of runBatch goes on with the next event, or the batch is done.
NextItem(w) ==
  /\ item' = [item EXCEPT ![w] = NULL]
  /\ pc' = [pc EXCEPT ![w] = IF batch[w] = {} THEN "idle" ELSE "publishing"]
  /\ lease' = [lease EXCEPT ![w] = IF batch[w] = {} THEN -1 ELSE @]
  /\ UNCHANGED <<locked, batch>>

\* Mutant: WHERE sequence = $1 AND published_at IS NULL
StillUnpublished(w) == item[w].sequence \notin published

\* Mutant: WHERE sequence = $1
StillThere(w) == item[w].sequence \in rows

\* WHERE sequence = $1 AND claimed_by = $2 AND published_at IS NULL
StillOwned(w) ==
  LET s == item[w].sequence
  IN  claimed_by[s] = w /\ s \notin published

\* Mutant: the UPDATE resets claim_until only.
ReleaseKeepingOwner(s) ==
  /\ claim_until' = [claim_until EXCEPT ![s] = NULL]
  /\ UNCHANGED claimed_by

ReleaseClaim(s) ==
  /\ claimed_by' = [claimed_by EXCEPT ![s] = NULL]
  /\ claim_until' = [claim_until EXCEPT ![s] = NULL]

\* The UPDATE that records the publication, when it reaches the database.
MarkPublished(w) ==
  LET s == item[w].sequence
  IN  /\ pc[w] = "marking"
      /\ s \notin LockedByOthers(w)
      /\ StillOwned(w)
      /\ published' = published \cup {s}
      /\ ReleaseClaim(s)
      /\ NextItem(w)
      /\ UNCHANGED <<rows, dead, attempt_count, next_attempt_at, log, dead_reported>>

\* No row matches (the claim was lost), or the statement fails.
MarkWithoutEffect(w) ==
  /\ pc[w] = "marking"
  /\ NextItem(w)
  /\ UNCHANGED <<dbVars, log, dead_reported>>

RetryDelay(attempt) ==
  LET a     == IF attempt < 1 THEN 1 ELSE attempt
      delay == 2 ^ (IF a - 1 < 10 THEN a - 1 ELSE 10)
  IN  IF delay > MaxBackoff THEN MaxBackoff ELSE delay

\* Mutant: the attempt under way is not counted.
ExhaustedBefore(w) == item[w].attemptCount >= MaxAttempts

Exhausted(w) == item[w].attemptCount + 1 >= MaxAttempts

\* The metric and the log line that follow the UPDATE, whatever it did.
ReportDead(w) ==
  dead_reported' = IF Exhausted(w) THEN dead_reported \cup {item[w].sequence}
                                   ELSE dead_reported

\* The UPDATE of fail, when a row matches.
Fail(w) ==
  LET s == item[w].sequence
  IN  /\ pc[w] = "failing"
      /\ s \notin LockedByOthers(w)
      /\ StillOwned(w)
      /\ attempt_count' = [attempt_count EXCEPT ![s] = @ + 1]
      /\ next_attempt_at' = [next_attempt_at EXCEPT ![s] =
                               RetryDelay(item[w].attemptCount + 1)]
      /\ ReleaseClaim(s)
      /\ dead' = IF Exhausted(w) THEN dead \cup {s} ELSE dead
      /\ ReportDead(w)
      /\ NextItem(w)
      /\ UNCHANGED <<rows, published, log>>

\* No row matches, or the statement fails.
FailWithoutEffect(w) ==
  /\ pc[w] = "failing"
  /\ ReportDead(w)
  /\ NextItem(w)
  /\ UNCHANGED <<dbVars, log>>

-----------------------------------------------------------------------------
(* Processes and time                                                      *)

\* The process ends, by a crash or by a shutdown in the middle of a batch.
\* PostgreSQL rolls its open transaction back; its claims stay.
Crash(w) ==
  /\ pc[w] # "down"
  /\ pc' = [pc EXCEPT ![w] = "down"]
  /\ locked' = [locked EXCEPT ![w] = {}]
  /\ batch' = [batch EXCEPT ![w] = {}]
  /\ item' = [item EXCEPT ![w] = NULL]
  /\ lease' = [lease EXCEPT ![w] = -1]
  /\ UNCHANGED <<dbVars, log, dead_reported>>

\* restart: unless-stopped, under the same host name
Restart(w) ==
  /\ pc[w] = "down"
  /\ pc' = [pc EXCEPT ![w] = "idle"]
  /\ UNCHANGED <<dbVars, log, locked, batch, item, lease, dead_reported>>

Elapse(left, floor) == IF left > floor THEN left - 1 ELSE left

Tick ==
  /\ next_attempt_at' = [s \in Sequence |-> Elapse(next_attempt_at[s], 0)]
  /\ claim_until' = [s \in Sequence |->
                       IF claim_until[s] = NULL THEN NULL ELSE Elapse(claim_until[s], -1)]
  /\ lease' = [w \in Worker |-> Elapse(lease[w], -1)]
  /\ UNCHANGED <<rows, published, dead, attempt_count, claimed_by, log,
                 pc, locked, batch, item, dead_reported>>

WorkerStep(w) ==
  \/ ClaimBegin(w)
  \/ ClaimCommit(w)
  \/ ClaimCommitUnacknowledged(w)
  \/ ClaimRollback(w)
  \/ DecodeFails(w)
  \/ PublishAcknowledged(w)
  \/ PublishFails(w)
  \/ MarkPublished(w)
  \/ MarkWithoutEffect(w)
  \/ Fail(w)
  \/ FailWithoutEffect(w)
  \/ Crash(w)
  \/ Restart(w)

Next ==
  \/ \E s \in Sequence : InsertOutbox(s)
  \/ \E w \in Worker : WorkerStep(w)
  \/ Tick

Spec == Init /\ [][Next]_vars

\* Scheduling: processes are restarted, time passes, and no step of a relay is
\* defeated for ever by faults that keep recurring at that very step.
Fairness ==
  /\ WF_vars(Tick)
  /\ \A w \in Worker :
       /\ WF_vars(Restart(w))
       /\ SF_vars(ClaimBegin(w))
       /\ SF_vars(ClaimCommit(w))
       /\ SF_vars(Publish(w))
       /\ SF_vars(MarkPublished(w))
       /\ SF_vars(Fail(w))

FairSpec == Spec /\ Fairness

-----------------------------------------------------------------------------
(* Properties                                                              *)

\* The claimed events a worker has still to finish, and the rows it deals with.
Work(w) == batch[w] \cup (IF item[w] = NULL THEN {} ELSE {item[w]})

Held(w) == locked[w] \cup {i.sequence : i \in Work(w)}

\* Two relays never work on the same row while both still have time left on
\* the lease they took it under: the claim query's lock, its lease test and
\* the UPDATE at commit exclude each other even when claims overlap, rows are
\* marked late or a relay restarts under its old name.
LeaseExclusion ==
  \A w, v \in Worker :
    w # v /\ lease[w] >= 0 /\ lease[v] >= 0 => Held(w) \cap Held(v) = {}

\* A row is dead-lettered exactly when its recorded attempts reach
\* MaxAttempts, although fail decides that from the attempt count read at
\* claim time and increments the column separately: a relay that lost its
\* claim never adds an attempt, and no attempt is recorded past the limit.
DeadIffExhausted ==
  \A s \in rows :
    /\ attempt_count[s] <= MaxAttempts
    /\ s \in dead <=> attempt_count[s] = MaxAttempts

InTopic(s) == \E i \in 1..Len(log) : log[i] = s

\* A row is marked published only if the topic holds its record, whoever
\* appended it, and a row is never both published and dead-lettered.
PublishedReachedTopic ==
  /\ \A s \in published : InTopic(s)
  /\ published \cap dead = {}

\* Once a row is published or dead-lettered no late relay changes it: it is
\* not claimed again, its attempts stay and it does not leave that state.
SettledRowsFrozen ==
  [][\A s \in published \cup dead :
       /\ s \in published => s \in published'
       /\ s \in dead => s \in dead'
       /\ attempt_count'[s] = attempt_count[s]
       /\ claimed_by'[s] = NULL]_vars

\* Why these hold, as an inductive invariant.  A worker has row locks only
\* inside a claim, an item only between producing and recording, and each row
\* at most once; a record to be marked is in the topic.
WorkerShape ==
  \A w \in Worker :
    /\ pc[w] # "claiming" => locked[w] = {}
    /\ pc[w] \in {"idle", "down", "claiming"} => batch[w] = {}
    /\ pc[w] \in {"marking", "failing"} <=> item[w] # NULL
    /\ pc[w] = "marking" => InTopic(item[w].sequence)
    /\ item[w] \notin batch[w]
    /\ \A i, j \in Work(w) : i.sequence = j.sequence => i = j

\* Locked rows are unsettled, out of lease and locked once.
LockShape ==
  /\ \A w \in Worker : \A s \in locked[w] :
       /\ s \in rows \ (published \cup dead)
       /\ claim_until[s] = NULL \/ claim_until[s] < 0
  /\ \A w, v \in Worker : w # v => locked[w] \cap locked[v] = {}

\* What a worker may still assume of an event it claimed: while its lease
\* runs the row is its own, and while the row is its own the attempt count
\* read at claim time and the expiry are the row's.
ClaimShape ==
  \A w \in Worker : \A i \in Work(w) :
    /\ i.sequence \in rows
    /\ lease[w] >= 0 => claimed_by[i.sequence] = w
    /\ claimed_by[i.sequence] = w =>
         /\ claim_until[i.sequence] = lease[w]
         /\ attempt_count[i.sequence] = i.attemptCount

\* A claimed row is committed and unsettled; both claim columns go together.
RowShape ==
  \A s \in Sequence :
    /\ claimed_by[s] = NULL <=> claim_until[s] = NULL
    /\ claimed_by[s] # NULL => s \in rows \ (published \cup dead)
    /\ s \notin rows => attempt_count[s] = 0

\* The inductive invariant: together these survive every step of a claim, a
\* publication, a failure, a crash and the passing of time.
RelayInv ==
  /\ TypeOK
  /\ WorkerShape
  /\ LockShape
  /\ ClaimShape
  /\ RowShape
  /\ DeadIffExhausted
  /\ PublishedReachedTopic

\* The relays implement the abstract feed: nothing uncommitted or undecodable
\* reaches the topic, nothing is settled before it is there, and settled
\* events stay settled.
status ==
  [s \in Sequence |-> IF s \notin rows THEN "absent"
                      ELSE IF s \in published THEN "published"
                      ELSE IF s \in dead THEN "dead"
                      ELSE "pending"]

Feed == INSTANCE EventFeed WITH status <- status, log <- log,
                               Sequence <- Sequence, Poison <- Poison

ImplementsFeed == Feed!Spec

\* Every committed event is eventually published or dead-lettered, through
\* crashes, lost acknowledgements, expired leases, backoff and undecodable
\* rows ahead of it in the queue.
EveryEventSettles ==
  \A s \in Sequence : (s \in rows) ~> (s \in published \cup dead)

\* When a relay logs "outbox event moved to dead-letter state" and counts the
\* event in noapp.outbox.events.dead, the row is in that state.
DeadReportIsTrue == dead_reported \subseteq dead
=============================================================================
