------------------------- MODULE OutboxRelayProofs -------------------------
(***************************************************************************)
(* Proofs about OutboxRelay, for any number of relays and rows and any     *)
(* batch size, lease, backoff and attempt limit: RelayInv is inductive,    *)
(* and the safety properties of the relay follow from it.                  *)
(***************************************************************************)
EXTENDS OutboxRelay, TLAPS

-----------------------------------------------------------------------------
(* Helpers                                                                 *)

\* retryDelay never exceeds the configured maximum and is never negative.
LEMMA RetryDelayRange ==
  ASSUME NEW a \in Nat
  PROVE  RetryDelay(a) \in 0..MaxBackoff
<1> DEFINE b == IF a < 1 THEN 1 ELSE a
           e == IF b - 1 < 10 THEN b - 1 ELSE 10
<1>1. e \in {0, 1, 2, 3, 4, 5, 6, 7, 8, 9, 10}
  OBVIOUS
<1>2. /\ 2^0 \in Nat /\ 2^1 \in Nat /\ 2^2 \in Nat /\ 2^3 \in Nat
      /\ 2^4 \in Nat /\ 2^5 \in Nat /\ 2^6 \in Nat /\ 2^7 \in Nat
      /\ 2^8 \in Nat /\ 2^9 \in Nat /\ 2^10 \in Nat
  OBVIOUS
<1>3. 2^e \in Nat
  <2> HIDE DEF e
  <2> QED  BY <1>1, <1>2, Zenon
<1>4. RetryDelay(a) = IF 2^e > MaxBackoff THEN MaxBackoff ELSE 2^e
  BY DEF RetryDelay
<1> HIDE DEF e
<1> QED  BY <1>3, <1>4, ConstantsAssumption

\* The claim query returns rows it may claim and nobody else has locked.
LEMMA CandidatesClaimable ==
  ASSUME NEW w \in Worker, NEW s \in Candidates(w)
  PROVE  s \in rows /\ Claimable(s) /\ s \notin LockedByOthers(w)
BY DEF Candidates, Lowest

\* Appending a record keeps what the topic holds and adds that record.
LEMMA AppendKeepsTopic ==
  ASSUME TypeOK, NEW r \in Sequence, AppendRecord(r)
  PROVE  /\ log' \in Seq(Sequence)
         /\ InTopic(r)'
         /\ \A s : InTopic(s) => InTopic(s)'
<1>1. /\ log \in Seq(Sequence)
      /\ log' = Append(log, r)
  BY DEF TypeOK, AppendRecord
<1>2. /\ log' \in Seq(Sequence)
      /\ Len(log') = Len(log) + 1
      /\ Len(log) \in Nat
      /\ log'[Len(log) + 1] = r
      /\ \A i \in 1..Len(log) : log'[i] = log[i]
  BY <1>1
<1>3. InTopic(r)'
  <2>1. Len(log) + 1 \in 1..Len(log')
    BY <1>2
  <2> QED  BY <2>1, <1>2 DEF InTopic
<1>4. \A s : InTopic(s) => InTopic(s)'
  <2>1. \A i \in 1..Len(log) : i \in 1..Len(log')
    BY <1>2
  <2> QED  BY <2>1, <1>2 DEF InTopic
<1> QED  BY <1>2, <1>3, <1>4

-----------------------------------------------------------------------------
(* RelayInv is inductive: one lemma per action                             *)

LEMMA InitInv == Init => RelayInv
<1> SUFFICES ASSUME Init PROVE RelayInv
  OBVIOUS
<1>1. TypeOK
  BY ConstantsAssumption DEF Init, TypeOK
<1>2. WorkerShape
  BY DEF Init, WorkerShape, Work
<1>3. LockShape /\ ClaimShape
  BY DEF Init, LockShape, ClaimShape, Work
<1>4. RowShape /\ DeadIffExhausted /\ PublishedReachedTopic
  BY DEF Init, RowShape, DeadIffExhausted, PublishedReachedTopic
<1> QED  BY <1>1, <1>2, <1>3, <1>4 DEF RelayInv

LEMMA InsertOutboxInv ==
  ASSUME RelayInv, NEW s \in Sequence, InsertOutbox(s)
  PROVE  RelayInv'
<1> USE DEF InsertOutbox, workerVars
<1>1. TypeOK'
  BY DEF RelayInv, TypeOK
<1>2. WorkerShape'
  BY DEF RelayInv, WorkerShape, Work, InTopic
<1>3. LockShape'
  BY DEF RelayInv, LockShape
<1>4. ClaimShape'
  BY DEF RelayInv, ClaimShape, Work
<1>5. RowShape'
  BY DEF RelayInv, RowShape
<1>6. DeadIffExhausted'
  BY ConstantsAssumption DEF RelayInv, DeadIffExhausted, RowShape, TypeOK
<1>7. PublishedReachedTopic'
  BY DEF RelayInv, PublishedReachedTopic, InTopic
<1> QED  BY <1>1, <1>2, <1>3, <1>4, <1>5, <1>6, <1>7 DEF RelayInv

LEMMA ClaimBeginInv ==
  ASSUME RelayInv, NEW w \in Worker, ClaimBegin(w)
  PROVE  RelayInv'
<1> USE DEF ClaimBegin, dbVars
<1>1. TypeOK'
  <2>1. Candidates(w) \subseteq Sequence
    BY CandidatesClaimable DEF RelayInv, TypeOK
  <2> QED  BY <2>1, ConstantsAssumption DEF RelayInv, TypeOK
<1>2. WorkerShape'
  BY DEF RelayInv, WorkerShape, TypeOK, Work, InTopic
<1>3. LockShape'
  <2>1. \A s \in Candidates(w) :
          /\ s \in rows \ (published \cup dead)
          /\ claim_until[s] = NULL \/ claim_until[s] < 0
          /\ \A v \in Worker \ {w} : s \notin locked[v]
    BY CandidatesClaimable DEF Claimable, LockedByOthers
  <2> QED  BY <2>1 DEF RelayInv, LockShape, TypeOK
<1>4. ClaimShape'
  <2>1. Work(w)' = {}
    BY DEF RelayInv, WorkerShape, TypeOK, Work
  <2>2. \A v \in Worker \ {w} : Work(v)' = Work(v) /\ lease'[v] = lease[v]
    BY DEF RelayInv, TypeOK, Work
  <2> QED  BY <2>1, <2>2 DEF RelayInv, ClaimShape
<1>5. RowShape' /\ DeadIffExhausted'
  BY DEF RelayInv, RowShape, DeadIffExhausted
<1>6. PublishedReachedTopic'
  BY DEF RelayInv, PublishedReachedTopic, InTopic
<1> QED  BY <1>1, <1>2, <1>3, <1>4, <1>5, <1>6 DEF RelayInv

LEMMA ClaimCommitInv ==
  ASSUME RelayInv, NEW w \in Worker, ClaimCommit(w)
  PROVE  RelayInv'
<1> USE DEF ClaimCommit, WriteClaim
<1>a. /\ batch[w] = {}
      /\ item[w] = NULL
      /\ Work(w)' = {[sequence |-> s, attemptCount |-> attempt_count[s]] : s \in locked[w]}
      /\ \A v \in Worker \ {w} : Work(v)' = Work(v)
      /\ Work(w) = {}
  BY DEF RelayInv, WorkerShape, TypeOK, Work
<1>1. TypeOK'
  BY ConstantsAssumption DEF RelayInv, TypeOK, ClaimedEvent
<1>2. WorkerShape'
  <2>1. \A i, j \in Work(w)' : i.sequence = j.sequence => i = j
    BY <1>a
  <2>2. item[w]' \notin batch[w]'
    BY <1>a, ConstantsAssumption DEF RelayInv, TypeOK, ClaimedEvent
  <2>3. \A v \in Worker \ {w} :
          /\ pc'[v] = pc[v] /\ locked'[v] = locked[v] /\ batch'[v] = batch[v]
          /\ item'[v] = item[v]
    BY DEF RelayInv, TypeOK
  <2>4. /\ pc'[w] = "publishing" /\ locked'[w] = {} /\ item'[w] = NULL
    BY <1>a DEF RelayInv, TypeOK
  <2> QED  BY <2>1, <2>2, <2>3, <2>4, <1>a DEF RelayInv, WorkerShape, InTopic
<1>3. LockShape'
  BY DEF RelayInv, LockShape, TypeOK
<1>4. ClaimShape'
  <2> SUFFICES ASSUME NEW v \in Worker, NEW i \in Work(v)'
               PROVE  /\ i.sequence \in rows
                      /\ lease[v] >= 0 => claimed_by'[i.sequence] = v
                      /\ claimed_by'[i.sequence] = v =>
                           /\ claim_until'[i.sequence] = lease[v]
                           /\ attempt_count[i.sequence] = i.attemptCount
    BY DEF ClaimShape
  <2>1. CASE v = w
    <3>1. PICK s \in locked[w] : i = [sequence |-> s, attemptCount |-> attempt_count[s]]
      BY <2>1, <1>a
    <3> QED  BY <3>1, <2>1 DEF RelayInv, LockShape, TypeOK
  <2>2. CASE v # w
    <3>1. i \in Work(v) /\ i.sequence \in Sequence
      BY <2>2, <1>a DEF RelayInv, TypeOK, ClaimShape
    <3>2. CASE i.sequence \in locked[w]
      <4>1. claim_until[i.sequence] = NULL \/ claim_until[i.sequence] < 0
        BY <3>2 DEF RelayInv, LockShape
      <4>2. ~(lease[v] >= 0)
        BY <4>1, <3>1, ConstantsAssumption DEF RelayInv, ClaimShape, TypeOK
      <4> QED  BY <4>2, <3>1, <3>2, <2>2 DEF RelayInv, ClaimShape
    <3>3. CASE i.sequence \notin locked[w]
      BY <3>1, <3>3 DEF RelayInv, ClaimShape
    <3> QED  BY <3>2, <3>3
  <2> QED  BY <2>1, <2>2
<1>5. RowShape'
  BY ConstantsAssumption DEF RelayInv, RowShape, LockShape, TypeOK
<1>6. DeadIffExhausted'
  BY DEF RelayInv, DeadIffExhausted
<1>7. PublishedReachedTopic'
  BY DEF RelayInv, PublishedReachedTopic, InTopic
<1> QED  BY <1>1, <1>2, <1>3, <1>4, <1>5, <1>6, <1>7 DEF RelayInv
LEMMA ClaimCommitUnacknowledgedInv ==
  ASSUME RelayInv, NEW w \in Worker, ClaimCommitUnacknowledged(w)
  PROVE  RelayInv'
<1> USE DEF ClaimCommitUnacknowledged, WriteClaim
<1>a. /\ \A v \in Worker : Work(v)' = Work(v)
      /\ Work(w) = {}
      /\ \A v \in Worker \ {w} : lease'[v] = lease[v]
  BY DEF RelayInv, WorkerShape, TypeOK, Work
<1>1. TypeOK'
  BY ConstantsAssumption DEF RelayInv, TypeOK
<1>2. WorkerShape'
  BY <1>a DEF RelayInv, WorkerShape, TypeOK, InTopic
<1>3. LockShape'
  BY DEF RelayInv, LockShape, TypeOK
<1>4. ClaimShape'
  <2> SUFFICES ASSUME NEW v \in Worker \ {w}, NEW i \in Work(v)
               PROVE  /\ i.sequence \in rows
                      /\ lease[v] >= 0 => claimed_by'[i.sequence] = v
                      /\ claimed_by'[i.sequence] = v =>
                           /\ claim_until'[i.sequence] = lease[v]
                           /\ attempt_count[i.sequence] = i.attemptCount
    BY <1>a DEF ClaimShape
  <2>1. i.sequence \in Sequence
    BY DEF RelayInv, TypeOK, ClaimShape
  <2>2. CASE i.sequence \in locked[w]
    <3>1. claim_until[i.sequence] = NULL \/ claim_until[i.sequence] < 0
      BY <2>2 DEF RelayInv, LockShape
    <3>2. ~(lease[v] >= 0)
      BY <3>1, <2>1, ConstantsAssumption DEF RelayInv, ClaimShape, TypeOK
    <3> QED  BY <3>2, <2>1, <2>2 DEF RelayInv, ClaimShape
  <2>3. CASE i.sequence \notin locked[w]
    BY <2>1, <2>3 DEF RelayInv, ClaimShape
  <2> QED  BY <2>2, <2>3
<1>5. RowShape'
  BY ConstantsAssumption DEF RelayInv, RowShape, LockShape, TypeOK
<1>6. DeadIffExhausted'
  BY DEF RelayInv, DeadIffExhausted
<1>7. PublishedReachedTopic'
  BY DEF RelayInv, PublishedReachedTopic, InTopic
<1> QED  BY <1>1, <1>2, <1>3, <1>4, <1>5, <1>6, <1>7 DEF RelayInv

LEMMA ClaimRollbackInv ==
  ASSUME RelayInv, NEW w \in Worker, ClaimRollback(w)
  PROVE  RelayInv'
<1> USE DEF ClaimRollback, dbVars
<1>a. /\ \A v \in Worker : Work(v)' = Work(v)
      /\ Work(w) = {}
      /\ \A v \in Worker \ {w} : lease'[v] = lease[v]
  BY DEF RelayInv, WorkerShape, TypeOK, Work
<1>1. TypeOK'
  BY ConstantsAssumption DEF RelayInv, TypeOK
<1>2. WorkerShape'
  BY <1>a DEF RelayInv, WorkerShape, TypeOK, InTopic
<1>3. LockShape'
  BY DEF RelayInv, LockShape, TypeOK
<1>4. ClaimShape'
  BY <1>a DEF RelayInv, ClaimShape
<1>5. RowShape' /\ DeadIffExhausted'
  BY DEF RelayInv, RowShape, DeadIffExhausted
<1>6. PublishedReachedTopic'
  BY DEF RelayInv, PublishedReachedTopic, InTopic
<1> QED  BY <1>1, <1>2, <1>3, <1>4, <1>5, <1>6 DEF RelayInv

\* Taking an event out of the batch leaves the rows and the worker's work
\* alone.  What the topic gains is left to the caller.
LEMMA TakeItemInv ==
  ASSUME RelayInv, NEW w \in Worker, NEW i, NEW next \in {"marking", "failing"},
         TakeItem(w, i, next),
         log' \in Seq(Sequence),
         \A s : InTopic(s) => InTopic(s)',
         next = "marking" => InTopic(i.sequence)'
  PROVE  RelayInv'
<1> USE DEF TakeItem, dbVars
<1>a. /\ i \in ClaimedEvent /\ i # NULL /\ i \in batch[w]
      /\ item[w] = NULL /\ locked[w] = {}
      /\ item'[w] = i /\ pc'[w] = next /\ batch'[w] = batch[w] \ {i}
      /\ \A v \in Worker \ {w} :
           item'[v] = item[v] /\ pc'[v] = pc[v] /\ batch'[v] = batch[v]
  BY ConstantsAssumption DEF RelayInv, TypeOK, WorkerShape
<1>b. \A v \in Worker : Work(v)' = Work(v)
  BY <1>a DEF Work
<1>1. TypeOK'
  BY <1>a DEF RelayInv, TypeOK
<1>2. WorkerShape'
  BY <1>a, <1>b DEF RelayInv, WorkerShape
<1>3. LockShape'
  BY DEF RelayInv, LockShape
<1>4. ClaimShape'
  BY <1>b DEF RelayInv, ClaimShape
<1>5. RowShape' /\ DeadIffExhausted'
  BY DEF RelayInv, RowShape, DeadIffExhausted
<1>6. PublishedReachedTopic'
  BY DEF RelayInv, PublishedReachedTopic
<1> QED  BY <1>1, <1>2, <1>3, <1>4, <1>5, <1>6 DEF RelayInv

LEMMA PublishInv ==
  ASSUME RelayInv, NEW w \in Worker, Publish(w)
  PROVE  RelayInv'
<1>a. ASSUME NEW i \in batch[w]  PROVE i.sequence \in Sequence
  BY <1>a DEF RelayInv, TypeOK, ClaimedEvent
<1>b. UNCHANGED log => log' \in Seq(Sequence) /\ \A s : InTopic(s) => InTopic(s)'
  BY DEF RelayInv, TypeOK, InTopic
<1>1. CASE DecodeFails(w)
  BY <1>1, <1>b, TakeItemInv DEF DecodeFails
<1>2. CASE PublishAcknowledged(w)
  <2>1. PICK i \in batch[w] : TakeItem(w, i, "marking") /\ AppendRecord(i.sequence)
    BY <1>2 DEF PublishAcknowledged
  <2> QED  BY <2>1, <1>a, AppendKeepsTopic, TakeItemInv DEF RelayInv
<1>3. CASE PublishFails(w)
  <2>1. PICK i \in batch[w] : /\ TakeItem(w, i, "failing")
                              /\ UNCHANGED log \/ AppendRecord(i.sequence)
    BY <1>3 DEF PublishFails
  <2>2. log' \in Seq(Sequence) /\ \A s : InTopic(s) => InTopic(s)'
    BY <2>1, <1>a, <1>b, AppendKeepsTopic DEF RelayInv
  <2> QED  BY <2>1, <2>2, TakeItemInv
<1> QED  BY <1>1, <1>2, <1>3 DEF Publish
\* Finishing an event: the worker drops it, keeps the others of its batch and
\* their lease, and none of those is about the same row.
LEMMA FinishItem ==
  ASSUME RelayInv, NEW w \in Worker, pc[w] \in {"marking", "failing"},
         NextItem(w), UNCHANGED log
  PROVE  /\ item[w] \in ClaimedEvent /\ item[w] \in Work(w)
         /\ item[w].sequence \in rows /\ item[w].sequence \in Sequence
         /\ item[w].attemptCount \in Nat
         /\ pc' \in [Worker -> {"idle", "claiming", "publishing", "marking", "failing", "down"}]
         /\ item' \in [Worker -> ClaimedEvent \cup {NULL}]
         /\ lease' \in [Worker -> -1..ClaimFor]
         /\ \A v \in Worker : \A i \in Work(v)' :
              /\ i \in Work(v)
              /\ lease'[v] = lease[v]
              /\ v = w => i.sequence # item[w].sequence
         /\ WorkerShape'
<1> USE DEF NextItem
<1>1. /\ item[w] \in ClaimedEvent /\ item[w] # NULL /\ item[w] \in Work(w)
      /\ batch[w] \subseteq Work(w) /\ item[w] \notin batch[w] /\ locked[w] = {}
  BY DEF RelayInv, TypeOK, WorkerShape, Work
<1>2. /\ item[w].sequence \in rows /\ item[w].sequence \in Sequence
      /\ item[w].attemptCount \in Nat
  BY <1>1 DEF RelayInv, ClaimShape, ClaimedEvent
<1>3. /\ pc' \in [Worker -> {"idle", "claiming", "publishing", "marking", "failing", "down"}]
      /\ item' \in [Worker -> ClaimedEvent \cup {NULL}]
      /\ lease' \in [Worker -> -1..ClaimFor]
  BY ConstantsAssumption DEF RelayInv, TypeOK
<1>4. /\ item'[w] = NULL /\ batch'[w] = batch[w] /\ Work(w)' = batch[w]
      /\ pc'[w] \in {"idle", "publishing"}
      /\ pc'[w] = "idle" => batch[w] = {}
      /\ batch[w] # {} => lease'[w] = lease[w]
  BY DEF RelayInv, TypeOK, Work
<1>5. \A v \in Worker \ {w} :
        /\ item'[v] = item[v] /\ pc'[v] = pc[v] /\ lease'[v] = lease[v]
        /\ Work(v)' = Work(v)
  BY DEF RelayInv, TypeOK, Work
<1>6. \A i \in batch[w] : i.sequence # item[w].sequence
  BY <1>1 DEF RelayInv, WorkerShape
<1>7. \A v \in Worker : \A i \in Work(v)' :
        /\ i \in Work(v)
        /\ lease'[v] = lease[v]
        /\ v = w => i.sequence # item[w].sequence
  BY <1>1, <1>4, <1>5, <1>6
<1>8. WorkerShape'
  <2>1. NULL \notin batch[w]
    BY ConstantsAssumption DEF RelayInv, TypeOK
  <2> QED  BY <1>1, <1>4, <1>5, <1>7, <2>1 DEF RelayInv, WorkerShape, InTopic
<1> QED  BY <1>1, <1>2, <1>3, <1>7, <1>8

LEMMA MarkPublishedInv ==
  ASSUME RelayInv, NEW w \in Worker, MarkPublished(w)
  PROVE  RelayInv'
<1> DEFINE s == item[w].sequence
<1>a. /\ pc[w] = "marking" /\ NextItem(w) /\ UNCHANGED <<log, locked, batch>>
      /\ s \notin LockedByOthers(w) /\ claimed_by[s] = w
      /\ published' = published \cup {s}
      /\ claimed_by' = [claimed_by EXCEPT ![s] = NULL]
      /\ claim_until' = [claim_until EXCEPT ![s] = NULL]
      /\ UNCHANGED <<rows, dead, attempt_count, next_attempt_at, dead_reported>>
  BY DEF MarkPublished, StillOwned, ReleaseClaim, NextItem
<1>b. /\ s \in rows /\ s \in Sequence /\ item[w] \in Work(w) /\ InTopic(s)
      /\ s \notin published /\ s \notin dead
      /\ \A v \in Worker : s \notin locked[v]
  <2>1. s \in rows /\ s \in Sequence /\ item[w] \in Work(w)
    BY <1>a, FinishItem
  <2>2. InTopic(s) /\ locked[w] = {}
    BY <1>a DEF RelayInv, WorkerShape
  <2>3. s \notin published /\ s \notin dead
    BY <1>a, <2>1, ConstantsAssumption DEF RelayInv, RowShape
  <2> QED  BY <1>a, <2>1, <2>2, <2>3 DEF LockedByOthers
<1> HIDE DEF s
<1>1. TypeOK'
  BY SMTT(30), <1>a, <1>b, FinishItem DEF RelayInv, TypeOK
<1>2. WorkerShape'
  BY <1>a, FinishItem
<1>3. LockShape'
  BY <1>a, <1>b DEF RelayInv, LockShape, TypeOK
<1>4. ClaimShape'
  <2> SUFFICES ASSUME NEW v \in Worker, NEW i \in Work(v)'
               PROVE  /\ i.sequence \in rows
                      /\ lease'[v] >= 0 => claimed_by'[i.sequence] = v
                      /\ claimed_by'[i.sequence] = v =>
                           /\ claim_until'[i.sequence] = lease'[v]
                           /\ attempt_count[i.sequence] = i.attemptCount
    BY <1>a DEF ClaimShape
  <2>1. i \in Work(v) /\ lease'[v] = lease[v] /\ (v = w => i.sequence # s)
    BY <1>a, FinishItem DEF s
  <2>2. CASE i.sequence = s
    BY <2>1, <2>2, <1>a, <1>b, ConstantsAssumption DEF RelayInv, ClaimShape, TypeOK
  <2>3. CASE i.sequence # s
    BY <2>1, <2>3, <1>a, <1>b DEF RelayInv, ClaimShape, TypeOK
  <2> QED  BY <2>2, <2>3
<1>5. RowShape'
  BY <1>a, <1>b DEF RelayInv, RowShape, TypeOK
<1>6. DeadIffExhausted'
  BY <1>a DEF RelayInv, DeadIffExhausted
<1>7. PublishedReachedTopic'
  BY <1>a, <1>b DEF RelayInv, PublishedReachedTopic, InTopic
<1> QED  BY <1>1, <1>2, <1>3, <1>4, <1>5, <1>6, <1>7 DEF RelayInv

LEMMA FailInv ==
  ASSUME RelayInv, NEW w \in Worker, Fail(w)
  PROVE  RelayInv'
<1> DEFINE s == item[w].sequence
           n == item[w].attemptCount
<1>a. /\ pc[w] = "failing" /\ NextItem(w) /\ UNCHANGED <<log, locked, batch>>
      /\ s \notin LockedByOthers(w) /\ claimed_by[s] = w /\ s \notin published
      /\ attempt_count' = [attempt_count EXCEPT ![s] = @ + 1]
      /\ next_attempt_at' = [next_attempt_at EXCEPT ![s] = RetryDelay(n + 1)]
      /\ claimed_by' = [claimed_by EXCEPT ![s] = NULL]
      /\ claim_until' = [claim_until EXCEPT ![s] = NULL]
      /\ dead' = IF n + 1 >= MaxAttempts THEN dead \cup {s} ELSE dead
      /\ dead_reported' = IF n + 1 >= MaxAttempts THEN dead_reported \cup {s}
                                                  ELSE dead_reported
      /\ UNCHANGED <<rows, published>>
  BY DEF Fail, StillOwned, ReleaseClaim, NextItem, Exhausted, ReportDead
<1>b. /\ s \in rows /\ s \in Sequence /\ item[w] \in Work(w) /\ n \in Nat
      /\ s \notin dead /\ attempt_count[s] = n
      /\ \A v \in Worker : s \notin locked[v]
  <2>1. s \in rows /\ s \in Sequence /\ item[w] \in Work(w) /\ n \in Nat
    BY <1>a, FinishItem
  <2>2. attempt_count[s] = n
    BY <1>a, <2>1 DEF RelayInv, ClaimShape
  <2>3. locked[w] = {}
    BY <1>a DEF RelayInv, WorkerShape
  <2>4. s \notin dead
    BY <1>a, <2>1, ConstantsAssumption DEF RelayInv, RowShape
  <2> QED  BY <1>a, <2>1, <2>2, <2>3, <2>4 DEF LockedByOthers
<1>c. RetryDelay(n + 1) \in 0..MaxBackoff
  BY <1>b, RetryDelayRange
<1> HIDE DEF s, n
<1>1. TypeOK'
  <2>1. /\ attempt_count' \in [Sequence -> Nat]
        /\ next_attempt_at' \in [Sequence -> 0..MaxBackoff]
    BY <1>a, <1>b, <1>c DEF RelayInv, TypeOK
  <2>2. /\ claimed_by' \in [Sequence -> Worker \cup {NULL}]
        /\ claim_until' \in [Sequence -> -1..ClaimFor \cup {NULL}]
    BY <1>a DEF RelayInv, TypeOK
  <2>3. rows' \subseteq Sequence /\ published' \subseteq rows' /\ log' \in Seq(Sequence)
    BY <1>a DEF RelayInv, TypeOK
  <2>4. dead' \subseteq rows' /\ dead_reported' \subseteq Sequence
    BY <1>a, <1>b DEF RelayInv, TypeOK
  <2>5. locked' \in [Worker -> SUBSET Sequence] /\ batch' \in [Worker -> SUBSET ClaimedEvent]
    BY <1>a DEF RelayInv, TypeOK
  <2>6. /\ pc' \in [Worker -> {"idle", "claiming", "publishing", "marking",
                             "failing", "down"}]
        /\ item' \in [Worker -> ClaimedEvent \cup {NULL}]
        /\ lease' \in [Worker -> -1..ClaimFor]
    BY <1>a, FinishItem DEF RelayInv
  <2> QED  BY <2>1, <2>2, <2>3, <2>4, <2>5, <2>6 DEF TypeOK
<1>2. WorkerShape'
  BY <1>a, FinishItem
<1>3. LockShape'
  BY <1>a, <1>b DEF RelayInv, LockShape, TypeOK
<1>4. ClaimShape'
  <2> SUFFICES ASSUME NEW v \in Worker, NEW i \in Work(v)'
               PROVE  /\ i.sequence \in rows
                      /\ lease'[v] >= 0 => claimed_by'[i.sequence] = v
                      /\ claimed_by'[i.sequence] = v =>
                           /\ claim_until'[i.sequence] = lease'[v]
                           /\ attempt_count'[i.sequence] = i.attemptCount
    BY <1>a DEF ClaimShape
  <2>1. i \in Work(v) /\ lease'[v] = lease[v] /\ (v = w => i.sequence # s)
    BY <1>a, FinishItem DEF s
  <2>2. CASE i.sequence = s
    BY <2>1, <2>2, <1>a, <1>b, ConstantsAssumption DEF RelayInv, ClaimShape, TypeOK
  <2>3. CASE i.sequence # s
    BY <2>1, <2>3, <1>a, <1>b DEF RelayInv, ClaimShape, TypeOK
  <2> QED  BY <2>2, <2>3
<1>5. RowShape'
  BY <1>a, <1>b DEF RelayInv, RowShape, TypeOK
<1>6. DeadIffExhausted'
  BY <1>a, <1>b, ConstantsAssumption DEF RelayInv, DeadIffExhausted, TypeOK
<1>7. PublishedReachedTopic'
  BY <1>a, <1>b DEF RelayInv, PublishedReachedTopic, InTopic
<1> QED  BY <1>1, <1>2, <1>3, <1>4, <1>5, <1>6, <1>7 DEF RelayInv

\* A statement without effect changes nothing but the worker.
LEMMA WithoutEffectInv ==
  ASSUME RelayInv, NEW w \in Worker,
         MarkWithoutEffect(w) \/ FailWithoutEffect(w)
  PROVE  RelayInv'
<1>a. /\ pc[w] \in {"marking", "failing"} /\ NextItem(w)
      /\ UNCHANGED <<rows, published, dead, attempt_count, next_attempt_at,
                     claimed_by, claim_until, log, locked, batch>>
  BY DEF MarkWithoutEffect, FailWithoutEffect, NextItem, dbVars
<1>b. dead_reported' \subseteq dead_reported \cup {item[w].sequence}
  BY DEF MarkWithoutEffect, FailWithoutEffect, ReportDead
<1>1. TypeOK'
  BY <1>a, <1>b, FinishItem DEF RelayInv, TypeOK
<1>2. WorkerShape'
  BY <1>a, FinishItem
<1>3. LockShape'
  BY <1>a DEF RelayInv, LockShape
<1>4. ClaimShape'
  BY <1>a, FinishItem DEF RelayInv, ClaimShape
<1>5. RowShape' /\ DeadIffExhausted'
  BY <1>a DEF RelayInv, RowShape, DeadIffExhausted
<1>6. PublishedReachedTopic'
  BY <1>a DEF RelayInv, PublishedReachedTopic, InTopic
<1> QED  BY <1>1, <1>2, <1>3, <1>4, <1>5, <1>6 DEF RelayInv
LEMMA CrashInv ==
  ASSUME RelayInv, NEW w \in Worker, Crash(w)
  PROVE  RelayInv'
<1> USE DEF Crash, dbVars
<1>a. /\ Work(w)' = {}
      /\ \A v \in Worker \ {w} : Work(v)' = Work(v) /\ lease'[v] = lease[v]
  BY DEF RelayInv, TypeOK, Work
<1>1. TypeOK'
  BY ConstantsAssumption DEF RelayInv, TypeOK
<1>2. WorkerShape'
  BY <1>a DEF RelayInv, WorkerShape, TypeOK, InTopic
<1>3. LockShape'
  BY DEF RelayInv, LockShape, TypeOK
<1>4. ClaimShape'
  BY <1>a DEF RelayInv, ClaimShape
<1>5. RowShape' /\ DeadIffExhausted'
  BY DEF RelayInv, RowShape, DeadIffExhausted
<1>6. PublishedReachedTopic'
  BY DEF RelayInv, PublishedReachedTopic, InTopic
<1> QED  BY <1>1, <1>2, <1>3, <1>4, <1>5, <1>6 DEF RelayInv

LEMMA RestartInv ==
  ASSUME RelayInv, NEW w \in Worker, Restart(w)
  PROVE  RelayInv'
<1> USE DEF Restart, dbVars
<1>a. \A v \in Worker : Work(v)' = Work(v)
  BY DEF Work
<1>1. TypeOK'
  BY DEF RelayInv, TypeOK
<1>2. WorkerShape'
  BY <1>a DEF RelayInv, WorkerShape, TypeOK, InTopic
<1>3. LockShape' /\ ClaimShape'
  BY <1>a DEF RelayInv, LockShape, ClaimShape
<1>4. RowShape' /\ DeadIffExhausted'
  BY DEF RelayInv, RowShape, DeadIffExhausted
<1>5. PublishedReachedTopic'
  BY DEF RelayInv, PublishedReachedTopic, InTopic
<1> QED  BY <1>1, <1>2, <1>3, <1>4, <1>5 DEF RelayInv

\* Time takes the lease of a batch and the claim_until of its rows down together.
LEMMA TickInv ==
  ASSUME RelayInv, Tick
  PROVE  RelayInv'
<1> USE DEF Tick, Elapse
<1>a. \A v \in Worker : Work(v)' = Work(v)
  BY DEF Work
<1>b. /\ \A s \in Sequence :
           /\ claim_until[s] = NULL => claim_until'[s] = NULL
           /\ claim_until[s] # NULL =>
                /\ claim_until[s] \in -1..ClaimFor
                /\ claim_until'[s] = IF claim_until[s] > -1 THEN claim_until[s] - 1
                                                            ELSE claim_until[s]
      /\ \A v \in Worker :
           /\ lease[v] \in -1..ClaimFor
           /\ lease'[v] = IF lease[v] > -1 THEN lease[v] - 1 ELSE lease[v]
  BY DEF RelayInv, TypeOK
<1>c. ClaimFor \in Nat /\ MaxBackoff \in Nat /\ NULL \notin Int /\ NULL \notin Worker
  BY ConstantsAssumption
<1>1. TypeOK'
  BY <1>c DEF RelayInv, TypeOK
<1>2. WorkerShape'
  BY <1>a DEF RelayInv, WorkerShape, InTopic
<1>3. LockShape'
  <2>1. ASSUME NEW w \in Worker, NEW s \in locked[w]
        PROVE  claim_until'[s] = NULL \/ claim_until'[s] < 0
    <3>1. s \in Sequence /\ (claim_until[s] = NULL \/ claim_until[s] < 0)
      BY DEF RelayInv, LockShape, TypeOK
    <3> QED  BY <3>1, <1>b, <1>c
  <2> QED  BY <2>1 DEF RelayInv, LockShape
<1>4. ClaimShape'
  <2> SUFFICES ASSUME NEW v \in Worker, NEW i \in Work(v)
               PROVE  /\ i.sequence \in rows
                      /\ lease'[v] >= 0 => claimed_by[i.sequence] = v
                      /\ claimed_by[i.sequence] = v =>
                           /\ claim_until'[i.sequence] = lease'[v]
                           /\ attempt_count[i.sequence] = i.attemptCount
    BY <1>a DEF ClaimShape
  <2>1. /\ i.sequence \in rows /\ i.sequence \in Sequence
        /\ lease[v] >= 0 => claimed_by[i.sequence] = v
        /\ claimed_by[i.sequence] = v =>
             /\ claim_until[i.sequence] = lease[v]
             /\ attempt_count[i.sequence] = i.attemptCount
    BY DEF RelayInv, ClaimShape, TypeOK
  <2> QED  BY <2>1, <1>b, <1>c
<1>5. RowShape'
  <2>1. \A s \in Sequence : claim_until'[s] = NULL <=> claim_until[s] = NULL
    BY <1>b, <1>c
  <2> QED  BY <2>1 DEF RelayInv, RowShape
<1>6. DeadIffExhausted'
  BY DEF RelayInv, DeadIffExhausted
<1>7. PublishedReachedTopic'
  BY DEF RelayInv, PublishedReachedTopic, InTopic
<1> QED  BY <1>1, <1>2, <1>3, <1>4, <1>5, <1>6, <1>7 DEF RelayInv

LEMMA StutterInv ==
  ASSUME RelayInv, UNCHANGED vars
  PROVE  RelayInv'
<1> USE DEF vars, dbVars, workerVars
<1>a. \A v \in Worker : Work(v)' = Work(v)
  BY DEF Work
<1>1. TypeOK'
  BY DEF RelayInv, TypeOK
<1>2. WorkerShape'
  BY <1>a DEF RelayInv, WorkerShape, InTopic
<1>3. LockShape' /\ ClaimShape'
  BY <1>a DEF RelayInv, LockShape, ClaimShape
<1>4. RowShape' /\ DeadIffExhausted' /\ PublishedReachedTopic'
  BY DEF RelayInv, RowShape, DeadIffExhausted, PublishedReachedTopic, InTopic
<1> QED  BY <1>1, <1>2, <1>3, <1>4 DEF RelayInv

LEMMA NextInv ==
  ASSUME RelayInv, [Next]_vars
  PROVE  RelayInv'
<1>1. ASSUME NEW w \in Worker, WorkerStep(w)  PROVE RelayInv'
  BY <1>1, ClaimBeginInv, ClaimCommitInv, ClaimCommitUnacknowledgedInv,
     ClaimRollbackInv, PublishInv, MarkPublishedInv, FailInv, WithoutEffectInv,
     CrashInv, RestartInv
     DEF WorkerStep, Publish
<1> QED  BY <1>1, InsertOutboxInv, TickInv, StutterInv DEF Next

\* RelayInv holds in every state the relays can reach.
THEOREM RelayInvariant == Spec => []RelayInv
BY InitInv, NextInv, PTL DEF Spec
-----------------------------------------------------------------------------
(* What follows from it                                                    *)

\* The variables of the relay stay in their types.
THEOREM TypeCorrect == Spec => []TypeOK
BY RelayInvariant, PTL DEF RelayInv

\* A worker with time left on its lease holds only rows that are locked by its
\* own claim, and so out of lease, or that its own claim leases.
LEMMA LeaseExcludes == RelayInv => LeaseExclusion
<1> SUFFICES ASSUME RelayInv, NEW w \in Worker, NEW v \in Worker, w # v,
                    lease[w] >= 0, lease[v] >= 0, NEW s \in Held(w), s \in Held(v)
             PROVE  FALSE
  BY DEF LeaseExclusion
<1>1. ASSUME NEW u \in Worker, lease[u] >= 0, s \in Held(u), s \notin locked[u]
      PROVE  s \in Sequence /\ claimed_by[s] = u /\ claim_until[s] = lease[u]
  BY <1>1 DEF Held, RelayInv, ClaimShape, TypeOK
<1>2. ASSUME NEW u \in Worker, s \in locked[u]
      PROVE  claim_until[s] = NULL \/ claim_until[s] < 0
  BY <1>2 DEF RelayInv, LockShape
<1>3. lease[w] # NULL /\ lease[v] # NULL
  BY ConstantsAssumption DEF RelayInv, TypeOK
<1>4. CASE s \in locked[w] /\ s \in locked[v]
  BY <1>4 DEF RelayInv, LockShape
<1>5. CASE s \in locked[w] /\ s \notin locked[v]
  <2>1. claim_until[s] = lease[v]
    BY <1>1, <1>5
  <2> QED  BY <2>1, <1>2, <1>3, <1>5 DEF RelayInv, TypeOK
<1>6. CASE s \notin locked[w] /\ s \in locked[v]
  <2>1. claim_until[s] = lease[w]
    BY <1>1, <1>6
  <2> QED  BY <2>1, <1>2, <1>3, <1>6 DEF RelayInv, TypeOK
<1>7. CASE s \notin locked[w] /\ s \notin locked[v]
  <2>1. claimed_by[s] = w /\ claimed_by[s] = v
    BY <1>1, <1>7
  <2> QED  BY <2>1
<1> QED  BY <1>4, <1>5, <1>6, <1>7

\* Two relays never work on one row while both leases run: claim's row locks,
\* lease test and UPDATE exclude each other.
THEOREM LeasesExclude == Spec => []LeaseExclusion
BY RelayInvariant, LeaseExcludes, PTL

\* fail dead-letters a row exactly when the attempts recorded reach the limit,
\* although it decides from the count read at claim time.
THEOREM DeadLettersExact == Spec => []DeadIffExhausted
BY RelayInvariant, PTL DEF RelayInv

\* publishOne marks a row published only once the topic holds its record, and
\* no row ends both published and dead.
THEOREM PublishedIsInTopic == Spec => []PublishedReachedTopic
BY RelayInvariant, PTL DEF RelayInv

\* One step of the relay leaves settled rows alone.
LEMMA StepFreezes ==
  ASSUME RelayInv, Next, NEW s \in published \cup dead
  PROVE  /\ s \in published => s \in published'
         /\ s \in dead => s \in dead'
         /\ attempt_count'[s] = attempt_count[s]
         /\ claimed_by'[s] = NULL
<1>a. /\ s \in Sequence /\ claimed_by[s] = NULL
      /\ \A w \in Worker : s \notin locked[w]
  BY DEF RelayInv, TypeOK, RowShape, LockShape
<1>b. ASSUME UNCHANGED <<published, dead, attempt_count, claimed_by>>
      PROVE  /\ s \in published => s \in published'
             /\ s \in dead => s \in dead'
             /\ attempt_count'[s] = attempt_count[s]
             /\ claimed_by'[s] = NULL
  BY <1>a, <1>b
<1>1. CASE \E r \in Sequence : InsertOutbox(r)
  BY <1>1, <1>b DEF InsertOutbox
<1>2. CASE Tick
  BY <1>2, <1>b DEF Tick
<1>3. ASSUME NEW w \in Worker, WorkerStep(w)
      PROVE  /\ s \in published => s \in published'
             /\ s \in dead => s \in dead'
             /\ attempt_count'[s] = attempt_count[s]
             /\ claimed_by'[s] = NULL
  <2>1. CASE ClaimCommit(w) \/ ClaimCommitUnacknowledged(w)
    BY <2>1, <1>a DEF ClaimCommit, ClaimCommitUnacknowledged, WriteClaim
  <2>2. CASE MarkPublished(w)
    <3>1. s # item[w].sequence
      BY <2>2, <1>a, ConstantsAssumption DEF MarkPublished, StillOwned
    <3> QED  BY <3>1, <2>2, <1>a DEF MarkPublished, ReleaseClaim, RelayInv, TypeOK
  <2>3. CASE Fail(w)
    <3>1. s # item[w].sequence
      BY <2>3, <1>a, ConstantsAssumption DEF Fail, StillOwned
    <3> QED  BY <3>1, <2>3, <1>a DEF Fail, ReleaseClaim, RelayInv, TypeOK
  <2>4. CASE ClaimBegin(w) \/ ClaimRollback(w) \/ Crash(w) \/ Restart(w)
    BY <2>4, <1>b DEF ClaimBegin, ClaimRollback, Crash, Restart, dbVars
  <2>5. CASE DecodeFails(w) \/ PublishAcknowledged(w) \/ PublishFails(w)
    BY <2>5, <1>b DEF DecodeFails, PublishAcknowledged, PublishFails, TakeItem, dbVars
  <2>6. CASE MarkWithoutEffect(w) \/ FailWithoutEffect(w)
    BY <2>6, <1>b DEF MarkWithoutEffect, FailWithoutEffect, dbVars
  <2> QED  BY <1>3, <2>1, <2>2, <2>3, <2>4, <2>5, <2>6 DEF WorkerStep
<1> QED  BY <1>1, <1>2, <1>3 DEF Next

\* A published or dead row is never claimed again, never counts another
\* attempt and never leaves its state, however late a relay comes back.
THEOREM SettledStaysSettled == Spec => SettledRowsFrozen
<1>1. RelayInv /\ [Next]_vars =>
        [\A s \in published \cup dead :
           /\ s \in published => s \in published'
           /\ s \in dead => s \in dead'
           /\ attempt_count'[s] = attempt_count[s]
           /\ claimed_by'[s] = NULL]_vars
  BY StepFreezes
<1> QED  BY <1>1, RelayInvariant, PTL DEF Spec, SettledRowsFrozen
-----------------------------------------------------------------------------
(* The relays implement the abstract feed                                  *)

LEMMA InitFeed == Init => Feed!Init
BY DEF Init, Feed!Init, status

\* Where the rows' fates and the topic stay, the feed stutters.
LEMMA SameFeed ==
  ASSUME UNCHANGED <<rows, published, dead, log>>
  PROVE  UNCHANGED Feed!vars
BY DEF Feed!vars, status

LEMMA InsertOutboxFeed ==
  ASSUME RelayInv, NEW s \in Sequence, InsertOutbox(s)
  PROVE  Feed!Next
<1>1. s \notin published /\ s \notin dead
  BY DEF InsertOutbox, RelayInv, TypeOK
<1>2. Feed!Insert(s)
  BY <1>1 DEF InsertOutbox, Feed!Insert, status
<1> QED  BY <1>2 DEF Feed!Next

\* A record appended for a claimed event is one of a committed, decodable row.
LEMMA AppendFeed ==
  ASSUME RelayInv, NEW w \in Worker, NEW i \in batch[w], i.sequence \notin Poison,
         AppendRecord(i.sequence), UNCHANGED <<rows, published, dead>>
  PROVE  Feed!Next
<1>1. i \in Work(w)
  BY DEF Work
<1>2. i.sequence \in rows /\ i.sequence \in Sequence
  BY <1>1 DEF RelayInv, ClaimShape, TypeOK
<1>3. Feed!Append1(i.sequence)
  BY <1>2 DEF Feed!Append1, AppendRecord, status
<1> QED  BY <1>2, <1>3 DEF Feed!Next

LEMMA MarkPublishedFeed ==
  ASSUME RelayInv, NEW w \in Worker, MarkPublished(w)
  PROVE  Feed!Next
<1> DEFINE s == item[w].sequence
<1>1. s \in rows /\ s \in Sequence
  BY FinishItem DEF MarkPublished
<1>2. s \notin published /\ s \notin dead
  BY <1>1, ConstantsAssumption DEF MarkPublished, StillOwned, RelayInv, RowShape
<1>3. InTopic(s)
  BY DEF MarkPublished, RelayInv, WorkerShape
<1>4. published' = published \cup {s} /\ UNCHANGED <<rows, dead, log>>
  BY DEF MarkPublished
<1> HIDE DEF s
<1>5. Feed!Settle(s)
  BY <1>1, <1>2, <1>3, <1>4 DEF Feed!Settle, Feed!InLog, InTopic, status
<1> QED  BY <1>1, <1>5 DEF Feed!Next

LEMMA FailFeed ==
  ASSUME RelayInv, NEW w \in Worker, Fail(w)
  PROVE  [Feed!Next]_(Feed!vars)
<1> DEFINE s == item[w].sequence
<1>1. s \in rows /\ s \in Sequence
  BY FinishItem DEF Fail
<1>2. s \notin published /\ s \notin dead
  BY <1>1, ConstantsAssumption DEF Fail, StillOwned, RelayInv, RowShape
<1>3. (dead' = dead \cup {s} \/ dead' = dead) /\ UNCHANGED <<rows, published, log>>
  BY DEF Fail
<1> HIDE DEF s
<1>4. CASE dead' = dead \cup {s}
  <2>1. Feed!Bury(s)
    BY <1>1, <1>2, <1>3, <1>4 DEF Feed!Bury, status
  <2> QED  BY <1>1, <2>1 DEF Feed!Next
<1>5. CASE dead' = dead
  BY <1>3, <1>5, SameFeed
<1> QED  BY <1>3, <1>4, <1>5

LEMMA StepFeed ==
  ASSUME RelayInv, [Next]_vars
  PROVE  [Feed!Next]_(Feed!vars)
<1>1. CASE UNCHANGED vars
  BY <1>1, SameFeed DEF vars, dbVars
<1>2. CASE \E s \in Sequence : InsertOutbox(s)
  BY <1>2, InsertOutboxFeed
<1>3. CASE Tick
  BY <1>3, SameFeed DEF Tick
<1>4. ASSUME NEW w \in Worker, WorkerStep(w)  PROVE [Feed!Next]_(Feed!vars)
  <2>1. CASE ClaimBegin(w) \/ ClaimCommit(w) \/ ClaimCommitUnacknowledged(w)
                           \/ ClaimRollback(w) \/ Crash(w) \/ Restart(w)
    BY <2>1, SameFeed DEF ClaimBegin, ClaimCommit, ClaimCommitUnacknowledged,
       WriteClaim, ClaimRollback, Crash, Restart, dbVars
  <2>2. CASE DecodeFails(w)
    BY <2>2, SameFeed DEF DecodeFails, TakeItem, dbVars
  <2>3. CASE PublishAcknowledged(w) \/ PublishFails(w)
    <3>1. PICK i \in batch[w] : /\ i.sequence \notin Poison
                                /\ UNCHANGED <<rows, published, dead>>
                                /\ UNCHANGED log \/ AppendRecord(i.sequence)
      BY <2>3 DEF PublishAcknowledged, PublishFails, TakeItem, dbVars
    <3> QED  BY <3>1, AppendFeed, SameFeed
  <2>4. CASE MarkPublished(w)
    BY <2>4, MarkPublishedFeed
  <2>5. CASE Fail(w)
    BY <2>5, FailFeed
  <2>6. CASE MarkWithoutEffect(w) \/ FailWithoutEffect(w)
    BY <2>6, SameFeed DEF MarkWithoutEffect, FailWithoutEffect, dbVars
  <2> QED  BY <1>4, <2>1, <2>2, <2>3, <2>4, <2>5, <2>6 DEF WorkerStep
<1> QED  BY <1>1, <1>2, <1>3, <1>4 DEF Next

\* Relays with their claims, leases, retries and crashes implement the feed
\* the readers of the topic rely on.
THEOREM RelayImplementsFeed == Spec => ImplementsFeed
BY InitFeed, StepFeed, RelayInvariant, PTL DEF Spec, ImplementsFeed, Feed!Spec
=============================================================================
