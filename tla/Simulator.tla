----------------------------- MODULE Simulator -----------------------------
(***************************************************************************)
(* The traffic simulator (internal/simulator): an engine that the control  *)
(* API starts and stops, a goroutine per run that creates workers,         *)
(* projects and tasks through the REST API, and what the API makes of its  *)
(* requests.  A request may be answered, fail, be answered although the    *)
(* answer is lost, or be carried out after the client has given up.        *)
(* Other editors may move the run's tasks, which have no owner for the API.*)
(*                                                                         *)
(* Names, texts and the log of recent actions are left out, and the pause  *)
(* between two actions may take any time, whatever the speed.              *)
(***************************************************************************)
EXTENDS Integers, FiniteSets

CONSTANTS
  TeamCount,      \* teamCount (5)
  WorkforceSize,  \* workforceSize (50)
  MaxProjects,    \* maxProjects (10)
  InputSpeed,     \* speeds asked for, in quarters
  InputStatus,    \* status that other editors give to tasks
  MaxSession,     \* bound: runs that are started
  MaxTask,        \* bound: tasks.id values
  MaxMade,        \* bound: projects that one run has the API make
  MaxLate,        \* bound: abandoned requests still under way
  NULL

Team    == 1..TeamCount
Session == 1..MaxSession
TaskId  == 1..MaxTask
Status  == {"todo", "in_progress", "done"}

VARIABLES
  running,    \* e.running
  phase,      \* e.phase
  speed,      \* e.speed, in quarters
  session,    \* e.session: the run started last, 0 before the first
  cancelled,  \* the runs whose context is cancelled
  workers,    \* size of e.teams[t].WorkerIDs
  projects,   \* size of e.teams[t].ProjectIDs, which e.projects gathers
  tasks,      \* status in the engine's picture of each task it owns, or NULL
  errors,     \* e.stats.Errors > 0
  run,        \* each run's goroutine: where it is, and its request
  apiTasks,   \* committed tasks: the run that created them, their status,
              \* and whether a run or someone else wrote it last
  apiMade,    \* projects that the API has committed for each run
  late        \* requests the client has given up and the API may still get

ownVars  == <<workers, projects, tasks, errors>>
ctlVars  == <<running, phase, speed, session, cancelled>>
apiVars  == <<apiTasks, apiMade>>
vars     == <<ctlVars, ownVars, run, apiVars, late>>

Request ==
  [op : {"createUser", "createProject"}, session : Session, team : Team]
    \cup [op : {"createTask", "listProjectTasks"}, session : Session]
    \cup [op : {"updateTaskStatus"}, session : Session, task : TaskId, to : Status]

ApiTask == [session : Session, status : Status, by : {"run", "others"}]

\* answer: the id the API answered with, 0 for an answer without one, or NULL.
Call == [request : Request, answer : (0..MaxTask) \cup {NULL}]

\* team, n: the counters of bootstrap; call: the request under way, or NULL.
Run == [at : {"none", "users", "projects", "backlog", "check", "enter", "loop", "ended"},
        n : 0..WorkforceSize, team : Team, call : Call \cup {NULL}]

\* The run at a place of its own, with no request under way.
At(place, n, team) == [at |-> place, n |-> n, team |-> team, call |-> NULL]

NoRun == At("none", 0, 1)

\* A team has room for its first project; NULL is nothing of the others.
ASSUME ConstantsAssumption ==
  /\ {TeamCount, WorkforceSize, MaxProjects} \subseteq Nat \ {0}
  /\ TeamCount <= MaxProjects
  /\ InputSpeed \subseteq Nat
  /\ InputStatus \subseteq Status
  /\ {MaxSession, MaxTask, MaxMade, MaxLate} \subseteq Nat
  /\ NULL \notin 0..MaxTask /\ NULL \notin Status
  /\ NULL \notin ApiTask /\ NULL \notin Call

Alive(s) == run[s].at \notin {"none", "ended"}

\* The engine's fields, the runs' counters and the requests have their types: the
\* speed, by which run divides, is never 0, and a run that has ended has no
\* request.
TypeOK ==
  /\ running \in BOOLEAN
  /\ phase \in {"stopped", "initializing", "running", "stopping"}
  /\ speed \in 1..40
  /\ session \in 0..MaxSession
  /\ cancelled \in SUBSET Session
  /\ workers \in [Team -> 0..WorkforceSize]
  /\ projects \in [Team -> 0..MaxMade]
  /\ tasks \in [TaskId -> Status \cup {NULL}]
  /\ errors \in BOOLEAN
  /\ run \in [Session -> Run]
  /\ \A s \in Session : ~Alive(s) => run[s].call = NULL
  /\ apiTasks \in [TaskId -> ApiTask \cup {NULL}]
  /\ apiMade \in [Session -> 0..MaxMade]
  /\ late \in SUBSET Request

NoTasks == [t \in TaskId |-> NULL]

\* NewEngine.
Init ==
  /\ running = FALSE
  /\ phase = "stopped"
  /\ speed = 4
  /\ session = 0
  /\ cancelled = {}
  /\ workers = [t \in Team |-> 0]
  /\ projects = [t \in Team |-> 0]
  /\ tasks = NoTasks
  /\ errors = FALSE
  /\ run = [s \in Session |-> NoRun]
  /\ apiTasks = NoTasks
  /\ apiMade = [s \in Session |-> 0]
  /\ late = {}

-----------------------------------------------------------------------------
(* The control API                                                         *)

\* Mutant: the projects of the run before are kept, and their tasks.
ForgetTeams ==
  /\ workers' = [t \in Team |-> 0]
  /\ projects' = [t \in Team |-> 0]
  /\ errors' = FALSE
  /\ UNCHANGED tasks

\* What Start resets.
ForgetRun ==
  /\ workers' = [t \in Team |-> 0]
  /\ projects' = [t \in Team |-> 0]
  /\ tasks' = NoTasks
  /\ errors' = FALSE

\* The target is healthy and nothing runs: a new run, under a new name.
Start ==
  /\ ~running
  /\ session < MaxSession
  /\ running' = TRUE
  /\ phase' = "initializing"
  /\ session' = session + 1
  /\ ForgetRun
  /\ run' = [run EXCEPT ![session + 1] = At("users", 0, 1)]
  /\ UNCHANGED <<speed, cancelled, apiVars, late>>

\* Mutant: Stop declares the run over at once.
StopAtOnce ==
  /\ running
  /\ phase' = "stopped"
  /\ running' = FALSE
  /\ cancelled' = cancelled \cup {session}
  /\ UNCHANGED <<speed, session, ownVars, run, apiVars, late>>

Stop ==
  /\ running
  /\ phase' = "stopping"
  /\ cancelled' = cancelled \cup {session}
  /\ UNCHANGED <<running, speed, session, ownVars, run, apiVars, late>>

SetSpeed(s) ==
  /\ 1 <= s /\ s <= 40
  /\ speed' = s
  /\ UNCHANGED <<running, phase, session, cancelled, ownVars, run, apiVars, late>>

\* The process ends and comes back; what is on the way stays on the way.
Restart ==
  /\ running' = FALSE
  /\ phase' = "stopped"
  /\ speed' = 4
  /\ ForgetRun
  /\ run' = [s \in Session |-> IF Alive(s) THEN At("ended", 0, 1) ELSE run[s]]
  /\ late' \in {late \cup {run[s].call.request : s \in {r \in Session :
                  run[r].call # NULL /\ run[r].call.answer = NULL}}, late}
  /\ Cardinality(late') <= MaxLate
  /\ UNCHANGED <<session, cancelled, apiVars>>

-----------------------------------------------------------------------------
(* The REST API                                                            *)

\* updateTaskStatus for the task t, which looks neither at its creator nor at the
\* status it has.
updateTaskStatus(t, status, by) ==
  apiTasks' = [apiTasks EXCEPT ![t] = [session |-> @.session, status |-> status, by |-> by]]

\* What carrying out a request does, with the id it answers.
Execute(request, id) ==
  \/ /\ request.op \in {"createUser", "listProjectTasks"}
     /\ id = 0
     /\ UNCHANGED apiVars
  \/ /\ request.op = "createProject"
     /\ id = 0
     /\ apiMade[request.session] < MaxMade
     /\ apiMade' = [apiMade EXCEPT ![request.session] = @ + 1]
     /\ UNCHANGED apiTasks
  \/ /\ request.op = "createTask"
     /\ id \in TaskId
     /\ \A t \in TaskId : apiTasks[t] = NULL <=> t >= id
     /\ apiTasks' = [apiTasks EXCEPT ![id] = [session |-> request.session,
                                              status |-> "todo", by |-> "run"]]
     /\ UNCHANGED apiMade
  \/ /\ request.op = "updateTaskStatus"
     /\ id = request.task
     /\ updateTaskStatus(id, request.to, "run")
     /\ UNCHANGED apiMade

Serve(s) ==
  /\ run[s].call # NULL
  /\ run[s].call.answer = NULL
  /\ \E id \in 0..MaxTask :
       /\ Execute(run[s].call.request, id)
       /\ run' = [run EXCEPT ![s].call.answer = id]
  /\ UNCHANGED <<ctlVars, ownVars, late>>

\* A request is carried out for a client that no longer waits for it.
ServeLate(request) ==
  /\ request \in late
  /\ late' = late \ {request}
  /\ \E id \in 0..MaxTask : Execute(request, id)
  /\ UNCHANGED <<ctlVars, ownVars, run>>

\* Another editor, in a browser or as a client of the API, moves a task of the
\* run that is under way; nothing reads the status of a task of a former run.
OthersMove(t, status) ==
  /\ running
  /\ apiTasks[t] # NULL /\ apiTasks[t].session = session
  /\ updateTaskStatus(t, status, "others")
  /\ UNCHANGED <<ctlVars, ownVars, run, apiMade, late>>

-----------------------------------------------------------------------------
(* run and bootstrap                                                       *)

Send(s, request) ==
  run' = [run EXCEPT ![s].call = [request |-> request, answer |-> NULL]]

NextTeam(r) ==
  IF r.team = TeamCount THEN At("check", 0, r.team) ELSE At("projects", 0, r.team + 1)

\* Where the goroutine goes on when its request has ended well or not.
Advance(s, ok) ==
  LET r == run[s]
  IN CASE r.at = "users" ->
            IF r.n + 1 = WorkforceSize THEN At("projects", 0, r.team)
            ELSE At("users", r.n + 1, r.team)
       [] r.at = "projects" -> IF ok THEN At("backlog", r.n, r.team) ELSE NextTeam(r)
       [] r.at = "backlog" -> IF r.n = 0 THEN At("backlog", 1, r.team) ELSE NextTeam(r)
       [] OTHER -> At(r.at, r.n, r.team)

\* Mutant: the run does not look at its context between two actions.
NeverCancelled(s) == s \in cancelled /\ run[s].at # "loop"

Cancelled(s) == s \in cancelled

\* The deferred function of run.
Ended(s) ==
  /\ run' = [run EXCEPT ![s] = At("ended", 0, 1)]
  /\ running' = IF session = s THEN FALSE ELSE running
  /\ phase' = IF session = s THEN "stopped" ELSE phase
  /\ UNCHANGED <<speed, session, cancelled, ownVars, apiVars, late>>

\* The context is done at one of the places where it is looked at.
RunEnds(s) ==
  /\ run[s].at \in {"users", "projects", "check", "loop"}
  /\ run[s].call = NULL
  /\ Cancelled(s)
  /\ Ended(s)

\* A step of bootstrap that sends the next request.
Bootstrap(s) ==
  /\ run[s].call = NULL
  /\ \/ /\ run[s].at = "users"
        /\ ~Cancelled(s)
        /\ Send(s, [op |-> "createUser", session |-> s,
                    team |-> (run[s].n % TeamCount) + 1])
     \/ /\ run[s].at = "projects"
        /\ ~Cancelled(s)
        /\ Send(s, [op |-> "createProject", session |-> s, team |-> run[s].team])
     \/ /\ run[s].at = "backlog"
        /\ ~Cancelled(s) /\ workers[run[s].team] > 0
        /\ Send(s, [op |-> "createTask", session |-> s])
  /\ UNCHANGED <<ctlVars, ownVars, apiVars, late>>

\* The backlog of a team without workers, or of a cancelled run: nothing is
\* sent, and the second is recorded as an error.
SkipTask(s) ==
  /\ run[s].call = NULL
  /\ run[s].at = "backlog"
  /\ workers[run[s].team] = 0 \/ Cancelled(s)
  /\ run' = [run EXCEPT ![s] = Advance(s, FALSE)]
  /\ errors' = (errors \/ workers[run[s].team] > 0)
  /\ UNCHANGED <<ctlVars, workers, projects, tasks, apiVars, late>>

\* bootstrap returns true.
BootstrapDone(s) ==
  /\ run[s].at = "check"
  /\ ~Cancelled(s)
  /\ run' = [run EXCEPT ![s].at = "enter"]
  /\ UNCHANGED <<ctlVars, ownVars, apiVars, late>>

\* run sets the phase without looking at the context again.
EnterLoop(s) ==
  /\ run[s].at = "enter"
  /\ run' = [run EXCEPT ![s].at = "loop"]
  /\ phase' = IF session = s THEN "running" ELSE phase
  /\ UNCHANGED <<running, speed, session, cancelled, ownVars, apiVars, late>>

-----------------------------------------------------------------------------
(* runAction                                                               *)

\* len(e.projects).
Owned == Cardinality({p \in Team \X (1..MaxMade) : p[2] <= projects[p[1]]})

With(status) == {t \in TaskId : tasks[t] = status}

ViewBoard(s) ==
  /\ Owned > 0
  /\ Send(s, [op |-> "listProjectTasks", session |-> s])

\* createTask(ctx, 0), for a project of a team that has workers.
CreateTask(s) ==
  /\ \E t \in Team : projects[t] > 0 /\ workers[t] > 0
  /\ Send(s, [op |-> "createTask", session |-> s])

\* Without a task to move, one is created.
ProgressTask(s, from, to) ==
  \/ \E t \in With(from) :
       Send(s, [op |-> "updateTaskStatus", session |-> s, task |-> t, to |-> to])
  \/ With(from) = {} /\ CreateTask(s)

\* Mutant: a full team, and a full run, get one project more.
EligibleWhenFull ==
  {t \in Team : Owned <= MaxProjects /\ projects[t] <= 2 /\ workers[t] > 0}

Eligible == {t \in Team : Owned < MaxProjects /\ projects[t] < 2 /\ workers[t] > 0}

CreateAnotherProject(s) ==
  \/ \E t \in Eligible : Send(s, [op |-> "createProject", session |-> s, team |-> t])
  \/ Eligible = {} /\ ViewBoard(s)

RunAction(s) ==
  /\ run[s].at = "loop"
  /\ run[s].call = NULL
  /\ ~Cancelled(s)
  /\ \/ ViewBoard(s)
     \/ CreateTask(s)
     \/ ProgressTask(s, "todo", "in_progress")
     \/ ProgressTask(s, "in_progress", "done")
     \/ CreateAnotherProject(s)
  /\ UNCHANGED <<ctlVars, ownVars, apiVars, late>>

\* The answer arrives and the engine takes note of it.
CallReturns(s) ==
  /\ run[s].call # NULL
  /\ run[s].call.answer # NULL
  /\ LET request == run[s].call.request
         id == run[s].call.answer
     IN /\ workers' = IF request.op = "createUser"
                      THEN [workers EXCEPT ![request.team] = @ + 1] ELSE workers
        /\ projects' = IF request.op = "createProject"
                       THEN [projects EXCEPT ![request.team] = @ + 1] ELSE projects
        /\ tasks' = CASE request.op = "createTask" -> [tasks EXCEPT ![id] = "todo"]
                      [] request.op = "updateTaskStatus" -> [tasks EXCEPT ![id] = request.to]
                      [] OTHER -> tasks
  /\ run' = [run EXCEPT ![s] = Advance(s, TRUE)]
  /\ UNCHANGED <<ctlVars, errors, apiVars, late>>

\* Mutant: the outcome of a change of status is not looked at.
CallFailsUnnoticed(s) ==
  /\ run[s].call # NULL
  /\ errors' = (errors \/ run[s].call.request.op # "updateTaskStatus")
  /\ late' \in {late, IF run[s].call.answer = NULL
                     THEN late \cup {run[s].call.request} ELSE late}
  /\ Cardinality(late') <= MaxLate
  /\ run' = [run EXCEPT ![s] = Advance(s, FALSE)]
  /\ UNCHANGED <<ctlVars, workers, projects, tasks, apiVars>>

\* No token, no connection, an error status, the timeout or a cancelled
\* context; the API may have carried the request out, or may do so later.
CallFails(s) ==
  /\ run[s].call # NULL
  /\ errors' = TRUE
  /\ late' \in {late, IF run[s].call.answer = NULL
                     THEN late \cup {run[s].call.request} ELSE late}
  /\ Cardinality(late') <= MaxLate
  /\ run' = [run EXCEPT ![s] = Advance(s, FALSE)]
  /\ UNCHANGED <<ctlVars, workers, projects, tasks, apiVars>>

Next ==
  \/ Start
  \/ Stop
  \/ \E s \in InputSpeed : SetSpeed(s)
  \/ Restart
  \/ \E request \in late : ServeLate(request)
  \/ \E t \in TaskId, status \in InputStatus : OthersMove(t, status)
  \/ \E s \in Session :
       \/ Serve(s)
       \/ RunEnds(s)
       \/ Bootstrap(s)
       \/ SkipTask(s)
       \/ BootstrapDone(s)
       \/ EnterLoop(s)
       \/ RunAction(s)
       \/ CallReturns(s)
       \/ CallFails(s)

Spec == Init /\ [][Next]_vars

\* Scheduling: the goroutine of a run gets its turn, and a request ends because
\* the client's timeout ends it.
Fairness ==
  \A s \in Session :
    WF_vars(\/ RunEnds(s) \/ Bootstrap(s) \/ SkipTask(s) \/ BootstrapDone(s)
            \/ EnterLoop(s) \/ CallReturns(s) \/ CallFails(s))

FairSpec == Spec /\ Fairness

-----------------------------------------------------------------------------
(* Properties                                                              *)

\* The state machine of Start, Stop and the deferred end of run: the engine
\* says it runs exactly while a goroutine runs, and that is the one of the
\* current session.
OneRunAtATime ==
  /\ running <=> \E s \in Session : Alive(s)
  /\ \A s \in Session : Alive(s) => s = session
  /\ phase = "stopped" <=> ~running

\* What holds of every state of the engine: its fields have their types, the
\* speed is never 0, and Start, Stop and the end of a run exclude each other.
EngineInv == TypeOK /\ OneRunAtATime

\* Without an error on record and with nothing under way, the engine knows just
\* the tasks and projects that the API has of this run, and the status of every
\* task that nobody else has moved since: every answer was taken note of, every
\* way to lose one is counted as an error, and what others do to a task is undone
\* by the run's next change of it.
DriftIsCounted ==
  running /\ ~errors /\ run[session].call = NULL =>
    /\ \A t \in TaskId :
         IF apiTasks[t] # NULL /\ apiTasks[t].session = session
         THEN /\ tasks[t] # NULL
              /\ apiTasks[t].by = "run" => tasks[t] = apiTasks[t].status
         ELSE tasks[t] = NULL
    /\ apiMade[session] = Owned

\* "it never changes tasks in pre-existing projects or projects left by an
\* earlier run": every task the engine holds or asks the API to change is of the
\* run that asks, late requests included.
OwnTasksOnly ==
  /\ \A t \in TaskId : running /\ tasks[t] # NULL => apiTasks[t].session = session
  /\ \A request \in late \cup {run[s].call.request : s \in {r \in Session :
                                                         run[r].call # NULL}} :
       request.op = "updateTaskStatus" =>
         apiTasks[request.task].session = request.session

\* The limits of createAnotherProject hold for what the engine owns, although
\* they are looked at before the request and counted after it.
ProjectLimits ==
  /\ Owned <= MaxProjects
  /\ \A t \in Team : projects[t] <= 2

\* A run that was told to stop does: bootstrap and the loop look at the context
\* often enough, whatever the requests do.
StopsWhenTold == (running /\ session \in cancelled) ~> ~running
=============================================================================
