-------------------------- MODULE TaskStoreProofs --------------------------
(***************************************************************************)
(* Proofs about TaskStore, for any number of concurrent requests, tasks    *)
(* and events: open transactions fit what others commit meanwhile, and so  *)
(* the outbox is an exact, ordered change log of the tasks table.          *)
(***************************************************************************)
EXTENDS TaskStore, TLAPS

\* The inductive invariant: together these survive every statement of every
\* handler's transaction, its commit and its rollback.
StoreInv ==
  /\ OpenTransactionsFit
  /\ EventPerVersion
  /\ SequenceFollowsVersion
  /\ ReplayGivesTable
  /\ AcknowledgedIsDurable

LEMMA InitInv == Init => StoreInv
<1> SUFFICES ASSUME Init PROVE StoreInv
  OBVIOUS
<1> USE ConstantsAssumption
<1>1. PICK seed \in [1..Seeded -> [project_id : Project,
                                   status : {"todo", "in_progress", "done"}]] :
        /\ projects = {seed[t].project_id : t \in 1..Seeded}
        /\ tasks = [t \in TaskId |->
                      IF t <= Seeded
                      THEN [id |-> t, project_id |-> seed[t].project_id,
                            status |-> seed[t].status, version |-> 1]
                      ELSE NULL]
  BY DEF Init
<1>2. /\ \A t \in 1..Seeded : tasks[t] \in Task /\ tasks[t] # NULL
                              /\ tasks[t].id = t /\ tasks[t].version = 1
      /\ \A t \in TaskId : t > Seeded => tasks[t] = NULL
      /\ 1..Seeded \subseteq TaskId
  BY <1>1 DEF Task, TaskId
<1>3. TypeOK
  <2>1. tasks \in [TaskId -> Task \cup {NULL}]
    <3>1. \A t \in TaskId : tasks[t] \in Task \cup {NULL}
      <4>1. \A t \in TaskId : t \in 1..Seeded \/ t > Seeded
        BY DEF TaskId
      <4> QED  BY <4>1, <1>2
    <3>2. tasks = [t \in TaskId |-> tasks[t]]
      BY <1>1
    <3> QED  BY <3>1, <3>2
  <2>2. projects \subseteq Project
    BY <1>1
  <2> QED  BY <2>1, <2>2 DEF Init, TypeOK
<1>4. DrawnShape
  <2>1. next_id = Seeded + 1 /\ Seeded \in Nat
    BY DEF Init
  <2>2. \A t \in TaskId : tasks[t] # NULL => t \in 1..Seeded
    BY <1>2 DEF TaskId
  <2>3. \A q \in Sequence : outbox[q] = NULL
    BY DEF Init
  <2> QED  BY <1>2, <2>1, <2>2, <2>3 DEF DrawnShape
<1>5. TxShape
  BY DEF Init, TxShape
<1>6. \A t \in TaskId : OutboxOf(t) = {}
  BY DEF Init, OutboxOf
<1>7. EventPerVersion
  BY <1>2, <1>6 DEF EventPerVersion, FirstVersion, TaskId
<1>8. SequenceFollowsVersion /\ ReplayGivesTable /\ AcknowledgedIsDurable
  BY <1>6 DEF Init, SequenceFollowsVersion, ReplayGivesTable, AcknowledgedIsDurable
<1> QED  BY <1>3, <1>4, <1>5, <1>7, <1>8 DEF StoreInv, OpenTransactionsFit

\* Steps that leave the rows and the transactions alone: they may draw an id
\* and answer without a task.
LEMMA QuietInv ==
  ASSUME StoreInv, TypeOK',
         UNCHANGED <<tasks, outbox, next_sequence, tx, drawn>>,
         next_id' >= next_id,
         \A h \in Handler : reply'[h] = reply[h] \/ reply'[h].task = NULL
  PROVE  StoreInv'
<1>a. \A t : OutboxOf(t)' = OutboxOf(t)
  BY DEF OutboxOf
<1>1. DrawnShape'
  BY DEF StoreInv, OpenTransactionsFit, DrawnShape, TypeOK, TaskId
<1>2. TxShape'
  BY <1>a DEF StoreInv, OpenTransactionsFit, TxShape, TypeOK, Envelope, Task, TaskId
<1>3. EventPerVersion'
  BY <1>a DEF StoreInv, EventPerVersion
<1>4. SequenceFollowsVersion' /\ ReplayGivesTable'
  BY <1>a DEF StoreInv, SequenceFollowsVersion, ReplayGivesTable
<1>5. AcknowledgedIsDurable'
  BY <1>a DEF StoreInv, AcknowledgedIsDurable
<1> QED  BY <1>1, <1>2, <1>3, <1>4, <1>5 DEF StoreInv, OpenTransactionsFit

LEMMA RequestInv ==
  ASSUME StoreInv, NEW h \in Handler,
         \/ Deny(h)
         \/ Refuse(h)
         \/ \E p \in Project : CreateProject(h, p)
         \/ \E u \in User : CreateUser(h, u)
         \/ \E p \in Project, a \in User \cup {NULL}, s \in InputStatus :
              CreateTaskDangling(h, p, a, s)
         \/ \E t \in TaskId : UpdateTaskNotFound(h, t)
  PROVE  StoreInv'
<1>1. /\ UNCHANGED <<tasks, outbox, next_sequence, tx, drawn>>
      /\ next_id' = next_id \/ (next_id' = next_id + 1 /\ next_id <= MaxTask)
      /\ projects' \subseteq projects \cup Project
      /\ users' \subseteq users \cup User
      /\ \E code \in {201, 400, 401, 403, 404, 409, 500} : Respond(h, code, NULL)
  BY DEF Deny, Refuse, CreateProject, CreateUser, CreateTaskDangling, UpdateTaskNotFound
<1>2. PICK code \in {201, 400, 401, 403, 404, 409, 500} :
        reply' = [reply EXCEPT ![h] = [code |-> code, task |-> NULL]]
  BY <1>1 DEF Respond
<1>3. TypeOK'
  BY <1>1, <1>2, ConstantsAssumption DEF StoreInv, OpenTransactionsFit, TypeOK, Response
<1>4. next_id' >= next_id
  BY <1>1 DEF StoreInv, OpenTransactionsFit, TypeOK
<1>5. \A g \in Handler : reply'[g] = reply[g] \/ reply'[g].task = NULL
  BY <1>2 DEF StoreInv, OpenTransactionsFit, TypeOK
<1> QED  BY <1>1, <1>3, <1>4, <1>5, QuietInv

\* Opening a transaction on a task nobody else has open.
LEMMA OpenInv ==
  ASSUME StoreInv, TypeOK', NEW h \in Handler, NEW e \in Envelope,
         tx[h] = NULL, tx' = [tx EXCEPT ![h] = e],
         UNCHANGED <<tasks, outbox, next_sequence, drawn, reply>>,
         next_id' >= next_id,
         e.task.id < next_id',
         tasks[e.task.id] = NULL => e.task.version = 1,
         tasks[e.task.id] # NULL =>
           /\ e.task.version = tasks[e.task.id].version + 1
           /\ e.task.project_id = tasks[e.task.id].project_id,
         \A g \in Handler \ {h} : tx[g] # NULL => tx[g].task.id # e.task.id
  PROVE  StoreInv'
<1>a. \A t : OutboxOf(t)' = OutboxOf(t)
  BY DEF OutboxOf
<1>b. /\ tx'[h] = e /\ e # NULL /\ drawn[h] = NULL
      /\ \A g \in Handler \ {h} : tx'[g] = tx[g]
  BY ConstantsAssumption DEF StoreInv, OpenTransactionsFit, TypeOK, TxShape
<1>1. DrawnShape'
  BY DEF StoreInv, OpenTransactionsFit, DrawnShape, TypeOK, TaskId
<1>2. TxShape'
  <2>1. \A g \in Handler \ {h} : tx[g] # NULL => tx[g].task.id < next_id'
    BY DEF StoreInv, OpenTransactionsFit, TxShape, TypeOK, Envelope, Task, TaskId
  <2> QED  BY <1>a, <1>b, <2>1 DEF StoreInv, OpenTransactionsFit, TxShape
<1>3. EventPerVersion' /\ SequenceFollowsVersion' /\ ReplayGivesTable'
  BY <1>a DEF StoreInv, EventPerVersion, SequenceFollowsVersion, ReplayGivesTable
<1>4. AcknowledgedIsDurable'
  BY <1>a DEF StoreInv, AcknowledgedIsDurable
<1> QED  BY <1>1, <1>2, <1>3, <1>4 DEF StoreInv, OpenTransactionsFit

LEMMA CreateTaskInv ==
  ASSUME StoreInv, NEW h \in Handler, NEW p \in Project, NEW a, NEW s,
         CreateTask(h, p, a, s)
  PROVE  StoreInv'
<1> DEFINE task == [id |-> next_id, project_id |-> p,
                    status |-> OrDefault(s), version |-> 1]
           e    == NewTaskEvent("task.created", task)
<1>1. /\ next_id \in TaskId
      /\ next_id' \in 1..(MaxTask + 1) /\ next_id' >= next_id /\ next_id < next_id'
  BY ConstantsAssumption DEF CreateTask, StoreInv, OpenTransactionsFit, TypeOK, TaskId
<1>2. e \in Envelope /\ e.task = task /\ task.id = next_id /\ task.version = 1
  BY <1>1 DEF CreateTask, NewTaskEvent, Envelope, EventType, Task, validStatus
<1>3. /\ tx[h] = NULL
      /\ tx' = [tx EXCEPT ![h] = e]
      /\ UNCHANGED <<projects, users, tasks, outbox, next_sequence, drawn, reply>>
  BY DEF CreateTask, Idle
<1>4. tasks[next_id] = NULL
  BY <1>1 DEF StoreInv, OpenTransactionsFit, DrawnShape, TypeOK
<1>5. \A g \in Handler : tx[g] # NULL => tx[g].task.id # next_id
  BY <1>1 DEF StoreInv, OpenTransactionsFit, TxShape, TypeOK, Envelope, Task, TaskId
<1> HIDE DEF e, task
<1>6. TypeOK'
  BY <1>1, <1>2, <1>3 DEF StoreInv, OpenTransactionsFit, TypeOK
<1> QED  BY <1>1, <1>2, <1>3, <1>4, <1>5, <1>6, OpenInv

LEMMA UpdateTaskInv ==
  ASSUME StoreInv, NEW h \in Handler, NEW t \in TaskId, NEW s, UpdateTask(h, t, s)
  PROVE  StoreInv'
<1> DEFINE task == [tasks[t] EXCEPT !.status = s, !.version = @ + 1]
           e    == NewTaskEvent("task.status_changed", task)
<1>1. tasks[t] \in Task /\ tasks[t] # NULL /\ tasks[t].id = t /\ t < next_id
  BY DEF UpdateTask, StoreInv, OpenTransactionsFit, TypeOK, DrawnShape
<1>2. /\ task \in Task /\ task.id = t /\ task.version = tasks[t].version + 1
      /\ task.project_id = tasks[t].project_id
  <2>1. task = [id |-> t, project_id |-> tasks[t].project_id, status |-> s,
                version |-> tasks[t].version + 1]
    <3> DEFINE moved == [tasks[t] EXCEPT !.status = s]
    <3>1. moved = [id |-> t, project_id |-> tasks[t].project_id, status |-> s,
                   version |-> tasks[t].version]
      BY <1>1 DEF Task
    <3>2. task = [moved EXCEPT !.version = @ + 1]
      BY <1>1 DEF Task
    <3> HIDE DEF moved
    <3> QED  BY <3>1, <3>2
  <2>2. s \in {"todo", "in_progress", "done"}
    BY DEF UpdateTask, validStatus
  <2>3. tasks[t].project_id \in Project /\ tasks[t].version + 1 \in Nat \ {0}
    BY <1>1 DEF Task
  <2> QED  BY <2>1, <2>2, <2>3 DEF Task
<1>3. e \in Envelope /\ e.task = task
  BY <1>2 DEF NewTaskEvent, Envelope, EventType
<1>4. /\ tx[h] = NULL
      /\ tx' = [tx EXCEPT ![h] = e]
      /\ UNCHANGED <<projects, users, tasks, outbox, next_id, next_sequence, drawn, reply>>
  BY DEF UpdateTask, Idle
<1>5. \A g \in Handler \ {h} : tx[g] # NULL => tx[g].task.id # t
  BY DEF UpdateTask, LockedByOther
<1> HIDE DEF e, task
<1>6. TypeOK'
  BY <1>3, <1>4 DEF StoreInv, OpenTransactionsFit, TypeOK
<1>7. next_id' >= next_id
  BY <1>4 DEF StoreInv, OpenTransactionsFit, TypeOK
<1> QED  BY <1>1, <1>2, <1>3, <1>4, <1>5, <1>6, <1>7, OpenInv
LEMMA InsertOutboxInv ==
  ASSUME StoreInv, NEW h \in Handler, InsertOutbox(h)
  PROVE  StoreInv'
<1>a. \A t : OutboxOf(t)' = OutboxOf(t)
  BY DEF InsertOutbox, OutboxOf
<1>b. /\ tx[h] # NULL /\ drawn[h] = NULL /\ next_sequence \in Sequence
      /\ drawn'[h] = next_sequence /\ next_sequence' = next_sequence + 1
      /\ \A g \in Handler \ {h} : drawn'[g] = drawn[g]
      /\ UNCHANGED <<projects, users, tasks, outbox, next_id, tx, reply>>
  BY ConstantsAssumption DEF InsertOutbox, StoreInv, OpenTransactionsFit, TypeOK, Sequence
<1>c. next_sequence # NULL
  BY ConstantsAssumption DEF StoreInv, OpenTransactionsFit, TypeOK
<1>1. TypeOK'
  BY ConstantsAssumption DEF InsertOutbox, StoreInv, OpenTransactionsFit, TypeOK, Sequence
<1>2. DrawnShape'
  BY <1>b DEF StoreInv, OpenTransactionsFit, DrawnShape, Sequence
<1>3. TxShape'
  <2>1. /\ next_sequence < next_sequence'
        /\ outbox[next_sequence] = NULL
        /\ \A q \in Sequence : outbox[q] # NULL => q < next_sequence
    BY <1>b DEF StoreInv, OpenTransactionsFit, DrawnShape, Sequence
  <2>2. \A g \in Handler \ {h} : drawn[g] # NULL =>
          drawn[g] # next_sequence /\ drawn[g] < next_sequence'
    <3> TAKE g \in Handler \ {h}
    <3> HAVE drawn[g] # NULL
    <3>1. drawn[g] < next_sequence /\ drawn[g] \in Sequence
      BY DEF StoreInv, OpenTransactionsFit, TxShape, TypeOK
    <3> QED  BY <3>1, <1>b DEF Sequence
  <2>3. \A q \in OutboxOf(tx[h].task.id) : q < next_sequence
    BY <2>1 DEF OutboxOf
  <2> QED  BY <1>a, <1>b, <1>c, <2>1, <2>2, <2>3 DEF StoreInv, OpenTransactionsFit, TxShape
<1>4. EventPerVersion' /\ SequenceFollowsVersion' /\ ReplayGivesTable'
  BY <1>a, <1>b DEF StoreInv, EventPerVersion, SequenceFollowsVersion, ReplayGivesTable
<1>5. AcknowledgedIsDurable'
  BY <1>a, <1>b DEF StoreInv, AcknowledgedIsDurable
<1> QED  BY <1>1, <1>2, <1>3, <1>4, <1>5 DEF StoreInv, OpenTransactionsFit

LEMMA RollbackInv ==
  ASSUME StoreInv, NEW h \in Handler, Rollback(h)
  PROVE  StoreInv'
<1>a. /\ \A t : OutboxOf(t)' = OutboxOf(t)
      /\ UNCHANGED <<projects, users, tasks, outbox, next_id, next_sequence>>
      /\ tx' = [tx EXCEPT ![h] = NULL]
      /\ drawn' = [drawn EXCEPT ![h] = NULL]
      /\ reply' = [reply EXCEPT ![h] = [code |-> 500, task |-> NULL]]
  BY DEF Rollback, EndTx, Respond, OutboxOf
<1>b. /\ tx'[h] = NULL /\ drawn'[h] = NULL /\ reply'[h].task = NULL
      /\ \A g \in Handler \ {h} :
           tx'[g] = tx[g] /\ drawn'[g] = drawn[g] /\ reply'[g] = reply[g]
  BY <1>a DEF StoreInv, OpenTransactionsFit, TypeOK
<1>1. TypeOK'
  BY <1>a DEF StoreInv, OpenTransactionsFit, TypeOK, Response
<1>2. DrawnShape'
  BY <1>a DEF StoreInv, OpenTransactionsFit, DrawnShape
<1>3. TxShape'
  BY <1>a, <1>b DEF StoreInv, OpenTransactionsFit, TxShape
<1>4. EventPerVersion' /\ SequenceFollowsVersion' /\ ReplayGivesTable'
  BY <1>a DEF StoreInv, EventPerVersion, SequenceFollowsVersion, ReplayGivesTable
<1>5. AcknowledgedIsDurable'
  BY <1>a, <1>b DEF StoreInv, AcknowledgedIsDurable
<1> QED  BY <1>1, <1>2, <1>3, <1>4, <1>5 DEF StoreInv, OpenTransactionsFit

\* A commit adds the next version of one task, and its event last of that
\* task's events.
LEMMA ApplyInv ==
  ASSUME StoreInv, NEW h \in Handler, Apply(h), EndTx(h),
         NEW c \in {200, 201, 500},
         Respond(h, c, IF c = 500 THEN NULL ELSE tx[h].task)
  PROVE  StoreInv'
<1>0. PICK e \in Envelope, k \in TaskId, n \in Sequence :
        e = tx[h] /\ k = tx[h].task.id /\ n = drawn[h]
  <2>1. tx[h] \in Envelope /\ drawn[h] \in Sequence
    BY DEF Apply, StoreInv, OpenTransactionsFit, TypeOK, TxShape
  <2>2. tx[h].task.id \in TaskId
    BY <2>1 DEF Envelope, Task
  <2> QED  BY <2>1, <2>2
<1>a. /\ e # NULL /\ e.task \in Task /\ e.task # NULL /\ e.task.id = k
      /\ n # NULL
      /\ tasks' = [tasks EXCEPT ![k] = e.task]
      /\ outbox' = [outbox EXCEPT ![n] = e]
      /\ tx' = [tx EXCEPT ![h] = NULL]
      /\ drawn' = [drawn EXCEPT ![h] = NULL]
      /\ UNCHANGED <<projects, users, next_id, next_sequence>>
      /\ reply' = [reply EXCEPT ![h] =
                     [code |-> c, task |-> IF c = 500 THEN NULL ELSE e.task]]
  <2>1. e.task \in Task
    BY DEF Envelope
  <2> QED  BY <1>0, <2>1, ConstantsAssumption DEF Apply, EndTx, Respond, Sequence
<1>b. /\ tasks[k] = NULL => e.task.version = 1
      /\ tasks[k] # NULL => e.task.version = tasks[k].version + 1
      /\ outbox[n] = NULL /\ n < next_sequence /\ k < next_id
      /\ \A q \in OutboxOf(k) : q < n
      /\ \A g \in Handler \ {h} : tx[g] # NULL =>
           tx[g].task.id # k /\ (drawn[g] # NULL => drawn[g] # n)
  BY <1>0, <1>a DEF StoreInv, OpenTransactionsFit, TxShape
<1>c. /\ tasks'[k] = e.task /\ \A t \in TaskId \ {k} : tasks'[t] = tasks[t]
      /\ outbox'[n] = e /\ \A q \in Sequence \ {n} : outbox'[q] = outbox[q]
      /\ tx'[h] = NULL /\ drawn'[h] = NULL
      /\ \A g \in Handler \ {h} :
           tx'[g] = tx[g] /\ drawn'[g] = drawn[g] /\ reply'[g] = reply[g]
      /\ reply'[h] = [code |-> c, task |-> IF c = 500 THEN NULL ELSE e.task]
  BY <1>a DEF StoreInv, OpenTransactionsFit, TypeOK
<1>d. /\ OutboxOf(k)' = OutboxOf(k) \cup {n}
      /\ \A t \in TaskId \ {k} : OutboxOf(t)' = OutboxOf(t)
      /\ n \notin OutboxOf(k)
  BY <1>a, <1>b, <1>c DEF OutboxOf
<1>e. \A t \in TaskId : \A q \in OutboxOf(t) :
        /\ q \in Sequence /\ q # n /\ outbox[q] # NULL /\ outbox[q].task.id = t
        /\ outbox[q].task \in Task
        /\ outbox'[q] = outbox[q]
  BY <1>b, <1>c DEF OutboxOf, StoreInv, OpenTransactionsFit, TypeOK, Envelope
<1>1. TypeOK'
  BY <1>a DEF StoreInv, OpenTransactionsFit, TypeOK, Response
<1>2. DrawnShape'
  BY <1>a, <1>b, <1>c, <1>d DEF StoreInv, OpenTransactionsFit, DrawnShape
<1>3. TxShape'
  <2>1. ASSUME NEW g \in Handler, tx'[g] # NULL
        PROVE  g # h /\ tx[g] # NULL /\ tx[g].task.id \in TaskId \ {k}
    BY <2>1, <1>b, <1>c DEF StoreInv, OpenTransactionsFit, TypeOK, Envelope, Task
  <2>2. \A g \in Handler : drawn'[g] # NULL => tx'[g] # NULL
    BY <1>c DEF StoreInv, OpenTransactionsFit, TxShape
  <2>3. ASSUME NEW g \in Handler, tx'[g] # NULL, drawn'[g] # NULL
        PROVE  drawn[g] \in Sequence \ {n}
    BY <2>1, <2>3, <1>b, <1>c DEF StoreInv, OpenTransactionsFit, TypeOK
  <2> QED  BY <1>a, <1>c, <1>d, <2>1, <2>2, <2>3 DEF StoreInv, OpenTransactionsFit, TxShape
<1>4. EventPerVersion'
  <2> SUFFICES ASSUME NEW t \in TaskId
               PROVE  /\ tasks'[t] = NULL => OutboxOf(t)' = {}
                      /\ tasks'[t] # NULL =>
                           \A v \in FirstVersion(t)..tasks'[t].version :
                             \E q \in OutboxOf(t)' : outbox'[q].task.version = v
                      /\ \A q \in OutboxOf(t)' :
                           outbox'[q].task.version \in FirstVersion(t)..tasks'[t].version
                      /\ \A q, r \in OutboxOf(t)' :
                           outbox'[q].task.version = outbox'[r].task.version => q = r
    BY DEF EventPerVersion, FirstVersion
  <2>1. CASE t # k
    BY <2>1, <1>c, <1>d, <1>e DEF StoreInv, EventPerVersion
  <2>2. CASE t = k /\ tasks[k] = NULL
    <3>1. OutboxOf(k) = {} /\ OutboxOf(k)' = {n}
      BY <2>2, <1>a, <1>d DEF StoreInv, EventPerVersion
    <3>2. FirstVersion(k) = 1
      BY <2>2, <1>a, ConstantsAssumption
         DEF StoreInv, OpenTransactionsFit, DrawnShape, FirstVersion, TaskId
    <3> QED  BY <2>2, <3>1, <3>2, <1>a, <1>b, <1>c
  <2>3. CASE t = k /\ tasks[k] # NULL
    <3>0. PICK m \in Nat : m = tasks[k].version
      BY <2>3 DEF StoreInv, OpenTransactionsFit, TypeOK, Task
    <3>1. /\ tasks'[k].version = m + 1 /\ outbox'[n].task.version = m + 1
          /\ FirstVersion(k) \in {1, 2} /\ m >= 1
      BY <2>3, <3>0, <1>b, <1>c DEF StoreInv, OpenTransactionsFit, TypeOK, Task, FirstVersion
    <3>2. /\ \A v \in FirstVersion(k)..m : \E q \in OutboxOf(k) : outbox[q].task.version = v
          /\ \A q \in OutboxOf(k) : outbox[q].task.version \in FirstVersion(k)..m
          /\ \A q, r \in OutboxOf(k) : outbox[q].task.version = outbox[r].task.version => q = r
      BY <2>3, <3>0 DEF StoreInv, EventPerVersion
    <3>3. \A v \in FirstVersion(k)..(m + 1) :
            \E q \in OutboxOf(k)' : outbox'[q].task.version = v
      <4> TAKE v \in FirstVersion(k)..(m + 1)
      <4>1. CASE v = m + 1
        BY <4>1, <3>1, <1>d
      <4>2. CASE v # m + 1
        <5>1. v \in FirstVersion(k)..m
          BY <4>2, <3>1
        <5>2. PICK q \in OutboxOf(k) : outbox[q].task.version = v
          BY <5>1, <3>2
        <5> QED  BY <5>2, <1>a, <1>d, <1>e
      <4> QED  BY <4>1, <4>2
    <3>4. \A q \in OutboxOf(k)' : outbox'[q].task.version \in FirstVersion(k)..(m + 1)
      BY <3>1, <3>2, <1>a, <1>d, <1>e
    <3>5. \A q, r \in OutboxOf(k)' :
            outbox'[q].task.version = outbox'[r].task.version => q = r
      <4>1. \A q \in OutboxOf(k) : outbox[q].task.version # m + 1
        BY <3>1, <3>2
      <4> QED  BY <4>1, <3>1, <3>2, <1>a, <1>d, <1>e
    <3>6. tasks'[k] # NULL
      BY <1>a, <1>c
    <3> QED  BY <2>3, <3>1, <3>3, <3>4, <3>5, <3>6
  <2> QED  BY <2>1, <2>2, <2>3
<1>5. SequenceFollowsVersion'
  <2> SUFFICES ASSUME NEW q \in Sequence, NEW r \in Sequence,
                      outbox'[q] # NULL, outbox'[r] # NULL,
                      outbox'[q].task.id = outbox'[r].task.id, q < r
               PROVE  outbox'[q].task.version < outbox'[r].task.version
    BY DEF SequenceFollowsVersion
  <2>1. CASE q # n /\ r # n
    BY <2>1, <1>c DEF StoreInv, SequenceFollowsVersion
  <2>2. CASE r = n
    <3>1. q \in OutboxOf(k) /\ outbox'[q] = outbox[q]
      BY <2>2, <1>a, <1>c, <1>d DEF OutboxOf, Sequence
    <3>2. /\ outbox[q].task.version \in FirstVersion(k)..tasks[k].version
          /\ tasks[k] # NULL
      BY <3>1, <1>a DEF StoreInv, EventPerVersion
    <3>3. /\ tasks[k].version \in Nat /\ FirstVersion(k) \in Nat
          /\ outbox'[n].task.version = tasks[k].version + 1
      BY <3>2, <1>a, <1>b, <1>c DEF StoreInv, OpenTransactionsFit, TypeOK, Task, FirstVersion
    <3> QED  BY <2>2, <3>1, <3>2, <3>3
  <2>3. CASE q = n
    <3>1. r \in OutboxOf(k)
      BY <2>3, <1>a, <1>c, <1>d DEF OutboxOf, Sequence
    <3> QED  BY <2>3, <3>1, <1>b DEF Sequence
  <2> QED  BY <2>1, <2>2, <2>3
<1>6. ReplayGivesTable'
  <2> SUFFICES ASSUME NEW t \in TaskId, NEW q \in OutboxOf(t)',
                      \A r \in OutboxOf(t)' : r <= q
               PROVE  outbox'[q].task = tasks'[t]
    BY DEF ReplayGivesTable
  <2>1. CASE t # k
    BY <2>1, <1>c, <1>d, <1>e DEF StoreInv, ReplayGivesTable
  <2>2. CASE t = k
    <3>1. q = n
      <4>1. n <= q
        BY <2>2, <1>d
      <4>2. q \in OutboxOf(k) => q < n /\ q \in Sequence
        BY <1>a, <1>b, <1>e
      <4> QED  BY <4>1, <4>2, <2>2, <1>a, <1>d DEF Sequence
    <3> QED  BY <3>1, <2>2, <1>c
  <2> QED  BY <2>1, <2>2
<1>7. AcknowledgedIsDurable'
  <2> SUFFICES ASSUME NEW g \in Handler, NEW task, task = reply'[g].task,
                      reply'[g] # NULL, reply'[g].code \in {200, 201}, task # NULL
               PROVE  /\ tasks'[task.id] # NULL
                      /\ tasks'[task.id].version >= task.version
                      /\ \E q \in OutboxOf(task.id)' : outbox'[q].task = task
    BY DEF AcknowledgedIsDurable
  <2>1. CASE g = h
    <3>1. task = e.task
      BY <2>1, <1>c
    <3>2. e.task.version \in Nat
      BY <1>a DEF Task
    <3> QED  BY <3>1, <3>2, <1>a, <1>c, <1>d
  <2>2. CASE g # h
    <3>1. reply'[g] = reply[g] /\ task = reply[g].task /\ task \in Task
      BY <2>2, <1>c DEF StoreInv, OpenTransactionsFit, TypeOK, Response
    <3>2. task.id \in TaskId /\ task.version \in Nat
      BY <3>1 DEF Task
    <3>3. /\ tasks[task.id] # NULL
          /\ tasks[task.id].version >= task.version
          /\ \E q \in OutboxOf(task.id) : outbox[q].task = task
      BY <3>1 DEF StoreInv, AcknowledgedIsDurable
    <3>4. \E q \in OutboxOf(task.id)' : outbox'[q].task = task
      BY <3>2, <3>3, <1>d, <1>e
    <3>5. tasks'[task.id] # NULL /\ tasks'[task.id].version >= task.version
      <4>1. tasks[task.id].version \in Nat
        BY <3>2, <3>3 DEF StoreInv, OpenTransactionsFit, TypeOK, Task
      <4> QED  BY <4>1, <3>2, <3>3, <1>a, <1>b, <1>c
    <3> QED  BY <3>4, <3>5
  <2> QED  BY <2>1, <2>2
<1> QED  BY <1>1, <1>2, <1>3, <1>4, <1>5, <1>6, <1>7 DEF StoreInv, OpenTransactionsFit
LEMMA CommitInv ==
  ASSUME StoreInv, NEW h \in Handler, Commit(h) \/ CommitUnacknowledged(h)
  PROVE  StoreInv'
<1>1. CASE Commit(h)
  <2>1. PICK c \in {200, 201} : Respond(h, c, tx[h].task)
    BY <1>1 DEF Commit
  <2>2. Respond(h, c, IF c = 500 THEN NULL ELSE tx[h].task)
    BY <2>1
  <2> QED  BY <1>1, <2>2, ApplyInv DEF Commit
<1>2. CASE CommitUnacknowledged(h)
  <2>1. Respond(h, 500, IF 500 = 500 THEN NULL ELSE tx[h].task)
    BY <1>2 DEF CommitUnacknowledged
  <2> QED  BY <1>2, <2>1, ApplyInv DEF CommitUnacknowledged
<1> QED  BY <1>1, <1>2

LEMMA StutterInv ==
  ASSUME StoreInv, UNCHANGED vars
  PROVE  StoreInv'
<1>1. TypeOK'
  BY DEF StoreInv, OpenTransactionsFit, TypeOK, vars
<1>2. next_id' >= next_id
  BY DEF StoreInv, OpenTransactionsFit, TypeOK, vars
<1> QED  BY <1>1, <1>2, QuietInv DEF vars

LEMMA NextInv ==
  ASSUME StoreInv, [Next]_vars
  PROVE  StoreInv'
<1>1. ASSUME NEW h \in Handler, HandlerStep(h)  PROVE StoreInv'
  BY <1>1, RequestInv, CreateTaskInv, UpdateTaskInv, InsertOutboxInv, CommitInv,
     RollbackInv
     DEF HandlerStep
<1> QED  BY <1>1, StutterInv DEF Next

\* StoreInv holds in every state the API can leave the database in.
THEOREM StoreInvariant == Spec => []StoreInv
BY InitInv, NextInv, PTL DEF Spec

-----------------------------------------------------------------------------
(* What follows from it                                                    *)

\* The statements of an open transaction of createTask or updateTaskStatus stay
\* right until its commit: the row lock keeps other writers from its task, and
\* the BIGSERIAL keeps its place in the outbox for it.
THEOREM WritesFitUntilCommit == Spec => []OpenTransactionsFit
BY StoreInvariant, PTL DEF StoreInv

\* The transactions of createTask and updateTaskStatus leave one event for
\* every version of a task, without gap or duplicate.
THEOREM EveryVersionHasItsEvent == Spec => []EventPerVersion
BY StoreInvariant, PTL DEF StoreInv

\* The row lock that an UPDATE holds until its COMMIT orders the sequence
\* numbers of a task's events as its versions.
THEOREM SequencesFollowVersions == Spec => []SequenceFollowsVersion
BY StoreInvariant, PTL DEF StoreInv

\* The outbox, replayed in sequence order, gives the tasks table.
THEOREM ReplayIsExact == Spec => []ReplayGivesTable
BY StoreInvariant, PTL DEF StoreInv

\* What a client was told with 200 or 201 is committed with its event.
THEOREM RepliesAreDurable == Spec => []AcknowledgedIsDurable
BY StoreInvariant, PTL DEF StoreInv

\* A step changes a committed task only by the commit of its next version.
LEMMA StepCounts ==
  ASSUME StoreInv, Next, NEW t \in TaskId, tasks[t] # NULL
  PROVE  /\ tasks'[t] # NULL
         /\ tasks'[t].project_id = tasks[t].project_id
         /\ tasks'[t] # tasks[t] => tasks'[t].version = tasks[t].version + 1
<1>1. PICK h \in Handler : HandlerStep(h)
  BY DEF Next
<1>2. CASE Apply(h)
  <2>1. tx[h] \in Envelope
    BY <1>2 DEF Apply, StoreInv, OpenTransactionsFit, TypeOK, TxShape
  <2>2. tx[h].task \in Task /\ tx[h] # NULL /\ tx[h].task # NULL
    BY <2>1, ConstantsAssumption DEF Envelope
  <2>3. tasks' = [tasks EXCEPT ![tx[h].task.id] = tx[h].task]
    BY <1>2 DEF Apply
  <2>4. CASE tx[h].task.id = t
    BY <2>2, <2>3, <2>4 DEF StoreInv, OpenTransactionsFit, TxShape, TypeOK
  <2>5. CASE tx[h].task.id # t
    BY <2>3, <2>5 DEF StoreInv, OpenTransactionsFit, TypeOK
  <2> QED  BY <2>4, <2>5
<1>3. CASE ~Apply(h)
  <2>1. UNCHANGED tasks
    BY <1>1, <1>3 DEF HandlerStep, Deny, Refuse, CreateProject, CreateUser, CreateTask,
       CreateTaskDangling, UpdateTask, UpdateTaskNotFound, InsertOutbox, Commit,
       CommitUnacknowledged, Rollback
  <2> QED  BY <2>1
<1> QED  BY <1>2, <1>3

\* No write of a task is lost, undone or counted twice by its version.
THEOREM WritesAreCounted == Spec => VersionsCountWrites
<1>1. StoreInv /\ [Next]_vars =>
        [\A t \in TaskId :
           tasks[t] # NULL =>
             /\ tasks'[t] # NULL
             /\ tasks'[t].project_id = tasks[t].project_id
             /\ tasks'[t] # tasks[t] => tasks'[t].version = tasks[t].version + 1]_vars
  BY StepCounts
<1> QED  BY <1>1, StoreInvariant, PTL DEF Spec, VersionsCountWrites
=============================================================================
