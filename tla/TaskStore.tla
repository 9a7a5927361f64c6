----------------------------- MODULE TaskStore -----------------------------
(***************************************************************************)
(* The write path of the API (internal/app/server.go, internal/events,     *)
(* db/init.sql): request handlers of all API replicas share one PostgreSQL *)
(* database and interleave statement by statement.  A task write is a      *)
(* transaction: the INSERT or UPDATE of the task, the INSERT of its outbox *)
(* row, and the COMMIT are three steps.  Until it commits nobody sees its  *)
(* rows, and the row lock of an UPDATE makes other UPDATEs of that task    *)
(* wait.  Numbers drawn from a BIGSERIAL are not returned by a rollback.   *)
(*                                                                         *)
(* A task is what its row and its JSON share; title, description, dates    *)
(* and the assignee take no part in any decision once the references are   *)
(* checked, and are left out.                                              *)
(***************************************************************************)
EXTENDS Integers, FiniteSets

CONSTANTS
  Handler,      \* concurrent requests, over all API replicas
  Project,      \* projects.id values
  User,         \* users, by email
  InputStatus,  \* status values that requests carry
  Seeded,       \* tasks 1..Seeded exist before the first request
  MaxTask,      \* bound: tasks.id values 1..MaxTask
  MaxSequence,  \* bound: outbox_events.sequence values 1..MaxSequence
  NULL

TaskId   == 1..MaxTask
Sequence == 1..MaxSequence

validStatus(status) == status \in {"todo", "in_progress", "done"}

Task == [id : TaskId, project_id : Project,
         status : {"todo", "in_progress", "done"}, version : Nat \ {0}]

EventType == {"task.created", "task.status_changed"}

Envelope == [event_type : EventType, task : Task]

Response == [code : {200, 201, 400, 401, 403, 404, 409, 500}, task : Task \cup {NULL}]

ASSUME ConstantsAssumption ==
  /\ MaxTask \in Nat
  /\ MaxSequence \in Nat
  /\ Seeded \in 0..MaxTask
  /\ Seeded > 0 => Project # {}
  /\ NULL \notin Task \cup Envelope \cup Response \cup Int

VARIABLES
  projects,       \* committed projects
  users,          \* committed users
  tasks,          \* committed task of each id, or NULL
  outbox,         \* committed envelope of each sequence, or NULL
  next_id,        \* next value of tasks_id_seq
  next_sequence,  \* next value of outbox_events_sequence_seq
  tx,             \* each handler's open transaction: its envelope, or NULL
  drawn,          \* the sequence its outbox row took, or NULL before that
  reply           \* the last response of each handler, or NULL

vars == <<projects, users, tasks, outbox, next_id, next_sequence, tx, drawn, reply>>

\* The tables, the serials and each request's transaction have their types.
TypeOK ==
  /\ projects \subseteq Project
  /\ users \subseteq User
  /\ tasks \in [TaskId -> Task \cup {NULL}]
  /\ outbox \in [Sequence -> Envelope \cup {NULL}]
  /\ next_id \in 1..(MaxTask + 1)
  /\ next_sequence \in 1..(MaxSequence + 1)
  /\ tx \in [Handler -> Envelope \cup {NULL}]
  /\ drawn \in [Handler -> Sequence \cup {NULL}]
  /\ reply \in [Handler -> Response \cup {NULL}]

\* init.sql, or a volume from before 002_realtime.sql: tasks at version 1 that
\* never had an event.
Init ==
  /\ \E seed \in [1..Seeded -> [project_id : Project,
                                status : {"todo", "in_progress", "done"}]] :
       /\ projects = {seed[t].project_id : t \in 1..Seeded}
       /\ tasks = [t \in TaskId |->
                     IF t <= Seeded
                     THEN [id |-> t, project_id |-> seed[t].project_id,
                           status |-> seed[t].status, version |-> 1]
                     ELSE NULL]
  /\ users = {}
  /\ outbox = [q \in Sequence |-> NULL]
  /\ next_id = Seeded + 1
  /\ next_sequence = 1
  /\ tx = [h \in Handler |-> NULL]
  /\ drawn = [h \in Handler |-> NULL]
  /\ reply = [h \in Handler |-> NULL]

-----------------------------------------------------------------------------
(* Requests without a transaction                                          *)

Idle(h) == tx[h] = NULL

Respond(h, code, task) ==
  reply' = [reply EXCEPT ![h] = [code |-> code, task |-> task]]

\* authorize: the token is not valid, or lacks the role the method requires.
Deny(h) ==
  /\ Idle(h)
  /\ Respond(h, 401, NULL) \/ Respond(h, 403, NULL)
  /\ UNCHANGED <<projects, users, tasks, outbox, next_id, next_sequence, tx, drawn>>

\* pathID, decodeJSON or a validation refuses the request, or Begin or the
\* first statement fails: nothing is written.
Refuse(h) ==
  /\ Idle(h)
  /\ Respond(h, 400, NULL) \/ Respond(h, 500, NULL)
  /\ UNCHANGED <<projects, users, tasks, outbox, next_id, next_sequence, tx, drawn>>

\* One INSERT, committed by itself; the acknowledgement may be lost.
CreateProject(h, p) ==
  /\ Idle(h)
  /\ p \notin projects
  /\ projects' = projects \cup {p}
  /\ Respond(h, 201, NULL) \/ Respond(h, 500, NULL)
  /\ UNCHANGED <<users, tasks, outbox, next_id, next_sequence, tx, drawn>>

\* users_email_key turns a second user of that email into a conflict.
CreateUser(h, u) ==
  /\ Idle(h)
  /\ users' = users \cup {u}
  /\ Respond(h, IF u \in users THEN 409 ELSE 201, NULL) \/ Respond(h, 500, NULL)
  /\ UNCHANGED <<projects, tasks, outbox, next_id, next_sequence, tx, drawn>>

-----------------------------------------------------------------------------
(* createTask and updateTaskStatus                                         *)

NewTaskEvent(type, task) == [event_type |-> type, task |-> task]

OrDefault(status) == IF status = "" THEN "todo" ELSE status

\* Begin and INSERT INTO tasks, version 1 by default.
CreateTask(h, p, assignee, status) ==
  /\ Idle(h)
  /\ validStatus(OrDefault(status))
  /\ next_id <= MaxTask
  /\ p \in projects
  /\ assignee \in users \cup {NULL}
  /\ next_id' = next_id + 1
  /\ tx' = [tx EXCEPT ![h] =
              NewTaskEvent("task.created",
                           [id |-> next_id, project_id |-> p,
                            status |-> OrDefault(status), version |-> 1])]
  /\ UNCHANGED <<projects, users, tasks, outbox, next_sequence, drawn, reply>>

\* The INSERT fails on a foreign key, having drawn an id.
CreateTaskDangling(h, p, assignee, status) ==
  /\ Idle(h)
  /\ validStatus(OrDefault(status))
  /\ next_id <= MaxTask
  /\ p \notin projects \/ assignee \notin users \cup {NULL}
  /\ next_id' = next_id + 1
  /\ Respond(h, 400, NULL)
  /\ UNCHANGED <<projects, users, tasks, outbox, next_sequence, tx, drawn>>

\* Mutant: the task is read and written back without a row lock.
NeverLocked(h, t) == FALSE

\* Mutant: the row lock is held until the outbox row is inserted, and not to the
\* end of the transaction.
LockedUntilOutbox(h, t) ==
  \E g \in Handler \ {h} : tx[g] # NULL /\ tx[g].task.id = t /\ drawn[g] = NULL

\* Another transaction has the row lock of task t.
LockedByOther(h, t) ==
  \E g \in Handler \ {h} : tx[g] # NULL /\ tx[g].task.id = t

\* Begin and UPDATE tasks ... RETURNING, once the row lock is free: READ
\* COMMITTED re-reads the row it waited for.
UpdateTask(h, t, status) ==
  /\ Idle(h)
  /\ validStatus(status)
  /\ tasks[t] # NULL
  /\ ~LockedByOther(h, t)
  /\ tx' = [tx EXCEPT ![h] =
              NewTaskEvent("task.status_changed",
                           [tasks[t] EXCEPT !.status = status, !.version = @ + 1])]
  /\ UNCHANGED <<projects, users, tasks, outbox, next_id, next_sequence, drawn, reply>>

UpdateTaskNotFound(h, t) ==
  /\ Idle(h)
  /\ tasks[t] = NULL
  /\ Respond(h, 404, NULL)
  /\ UNCHANGED <<projects, users, tasks, outbox, next_id, next_sequence, tx, drawn>>

\* Mutant: the outbox row takes the number after the last committed one, where
\* the table has a BIGSERIAL.
InsertOutboxAfterLast(h) ==
  /\ tx[h] # NULL
  /\ drawn[h] = NULL
  /\ \E q \in Sequence : /\ outbox[q] = NULL
                         /\ q > 1 => outbox[q - 1] # NULL
                         /\ drawn' = [drawn EXCEPT ![h] = q]
                         /\ next_sequence' = q + 1
  /\ UNCHANGED <<projects, users, tasks, outbox, next_id, tx, reply>>

\* events.InsertOutbox
InsertOutbox(h) ==
  /\ tx[h] # NULL
  /\ drawn[h] = NULL
  /\ next_sequence <= MaxSequence
  /\ drawn' = [drawn EXCEPT ![h] = next_sequence]
  /\ next_sequence' = next_sequence + 1
  /\ UNCHANGED <<projects, users, tasks, outbox, next_id, tx, reply>>

EndTx(h) ==
  /\ tx' = [tx EXCEPT ![h] = NULL]
  /\ drawn' = [drawn EXCEPT ![h] = NULL]
  /\ UNCHANGED <<projects, users, next_id, next_sequence>>

\* Mutant: the event of an update carries the task as it was read before it.
ApplyOldSnapshot(h) ==
  LET old == tasks[tx[h].task.id]
  IN  /\ drawn[h] # NULL
      /\ tasks' = [tasks EXCEPT ![tx[h].task.id] = tx[h].task]
      /\ outbox' = [outbox EXCEPT ![drawn[h]] =
                      IF old = NULL THEN tx[h] ELSE [tx[h] EXCEPT !.task = old]]

\* Both rows of the transaction become visible at once.
Apply(h) ==
  /\ drawn[h] # NULL
  /\ tasks' = [tasks EXCEPT ![tx[h].task.id] = tx[h].task]
  /\ outbox' = [outbox EXCEPT ![drawn[h]] = tx[h]]

Commit(h) ==
  /\ Apply(h)
  /\ EndTx(h)
  /\ Respond(h, IF tx[h].event_type = "task.created" THEN 201 ELSE 200, tx[h].task)

\* The commit is applied, its acknowledgement is lost.
CommitUnacknowledged(h) ==
  /\ Apply(h)
  /\ EndTx(h)
  /\ Respond(h, 500, NULL)

\* Mutant: the error of Commit is not looked at.
RollbackUnnoticed(h) ==
  /\ tx[h] # NULL
  /\ EndTx(h)
  /\ Respond(h, 200, tx[h].task)
  /\ UNCHANGED <<tasks, outbox>>

\* A statement or the commit fails, the client goes away (the transaction runs
\* under the request's context) or the replica crashes: the deferred Rollback,
\* or PostgreSQL, discards the transaction.
Rollback(h) ==
  /\ tx[h] # NULL
  /\ EndTx(h)
  /\ Respond(h, 500, NULL)
  /\ UNCHANGED <<tasks, outbox>>

HandlerStep(h) ==
  \/ Deny(h)
  \/ Refuse(h)
  \/ \E p \in Project : CreateProject(h, p)
  \/ \E u \in User : CreateUser(h, u)
  \/ \E p \in Project, a \in User \cup {NULL}, s \in InputStatus :
       CreateTask(h, p, a, s) \/ CreateTaskDangling(h, p, a, s)
  \/ \E t \in TaskId, s \in InputStatus : UpdateTask(h, t, s)
  \/ \E t \in TaskId : UpdateTaskNotFound(h, t)
  \/ InsertOutbox(h)
  \/ Commit(h)
  \/ CommitUnacknowledged(h)
  \/ Rollback(h)

Next == \E h \in Handler : HandlerStep(h)

Spec == Init /\ [][Next]_vars

-----------------------------------------------------------------------------
(* Properties                                                              *)

OutboxOf(t) == {q \in Sequence : outbox[q] # NULL /\ outbox[q].task.id = t}

FirstVersion(t) == IF t <= Seeded THEN 2 ELSE 1

\* The outbox holds every version of every committed task since its creation
\* through the API, none twice, none of a write that rolled back: concurrent
\* status changes, rollbacks and lost acknowledgements leave no gap and no
\* duplicate in the versions that consumers deduplicate by.
EventPerVersion ==
  \A t \in TaskId :
    /\ tasks[t] = NULL => OutboxOf(t) = {}
    /\ tasks[t] # NULL =>
         \A v \in FirstVersion(t)..tasks[t].version :
           \E q \in OutboxOf(t) : outbox[q].task.version = v
    /\ \A q \in OutboxOf(t) :
         outbox[q].task.version \in FirstVersion(t)..tasks[t].version
    /\ \A q, r \in OutboxOf(t) :
         outbox[q].task.version = outbox[r].task.version => q = r

\* The outbox rows of one task are numbered in the order of its versions,
\* although the sequence number is drawn by another statement than the one
\* that raises the version, and rows of different tasks commit in any order.
SequenceFollowsVersion ==
  \A q, r \in Sequence :
    /\ outbox[q] # NULL
    /\ outbox[r] # NULL
    /\ outbox[q].task.id = outbox[r].task.id
    /\ q < r
    => outbox[q].task.version < outbox[r].task.version

\* Replaying the outbox in sequence order gives the tasks table: the last
\* event of a task carries exactly its committed row.
ReplayGivesTable ==
  \A t \in TaskId : \A q \in OutboxOf(t) :
    (\A r \in OutboxOf(t) : r <= q) => outbox[q].task = tasks[t]

\* A task a client received with 200 or 201 is committed with its event:
\* the outbox has that very snapshot and the table is at or past its version.
AcknowledgedIsDurable ==
  \A h \in Handler :
    reply[h] # NULL /\ reply[h].code \in {200, 201} /\ reply[h].task # NULL =>
      LET task == reply[h].task
      IN  /\ tasks[task.id] # NULL
          /\ tasks[task.id].version >= task.version
          /\ \E q \in OutboxOf(task.id) : outbox[q].task = task

\* No write is lost or undone: a task never disappears and never changes its
\* project, and each change of it raises its version by exactly one.
VersionsCountWrites ==
  [][\A t \in TaskId :
       tasks[t] # NULL =>
         /\ tasks'[t] # NULL
         /\ tasks'[t].project_id = tasks[t].project_id
         /\ tasks'[t] # tasks[t] => tasks'[t].version = tasks[t].version + 1]_vars

\* An id or a sequence in use was drawn, and a row carries its own id.
DrawnShape ==
  /\ \A t \in TaskId : tasks[t] # NULL => t < next_id /\ tasks[t].id = t
  /\ \A q \in Sequence : outbox[q] # NULL => q < next_sequence
  /\ \A t \in 1..Seeded : tasks[t] # NULL

\* An open transaction is the only one on its task and the next version of
\* it; the sequence it drew is its own, unused and past the task's others.
TxShape ==
  /\ \A h \in Handler : drawn[h] # NULL => tx[h] # NULL
  /\ \A h \in Handler : tx[h] # NULL =>
       LET task == tx[h].task
       IN  /\ task.id < next_id
           /\ tasks[task.id] = NULL => task.version = 1
           /\ tasks[task.id] # NULL =>
                /\ task.version = tasks[task.id].version + 1
                /\ task.project_id = tasks[task.id].project_id
           /\ drawn[h] # NULL =>
                /\ drawn[h] < next_sequence
                /\ outbox[drawn[h]] = NULL
                /\ \A q \in OutboxOf(task.id) : q < drawn[h]
  /\ \A g, h \in Handler : g # h /\ tx[g] # NULL /\ tx[h] # NULL =>
       /\ tx[g].task.id # tx[h].task.id
       /\ drawn[g] # NULL => drawn[g] # drawn[h]

\* What a request is about to commit still fits whatever the others have
\* committed since its statements ran: its task has no other writer, its version
\* is the next one and its place in the outbox is free and behind the task's
\* events, although ids and sequences are drawn outside any transaction.
OpenTransactionsFit == TypeOK /\ DrawnShape /\ TxShape
=============================================================================
