-------------------------- MODULE SimulatorProofs --------------------------
(***************************************************************************)
(* Proofs about Simulator, for any number of teams, workers, runs, tasks   *)
(* and abandoned requests: Start, Stop and the end of a run exclude each   *)
(* other, the engine changes tasks of its own run only, keeps to its       *)
(* limits, and until it has counted an error knows its tasks and projects, *)
(* with the status of all tasks but those that other editors moved last.   *)
(***************************************************************************)
EXTENDS Simulator, FiniteSetTheorems, TLAPS

\* A request of run s that has been answered, the answer not yet noted.
Answered(s, op) ==
  /\ run[s].call # NULL
  /\ run[s].call.answer # NULL
  /\ run[s].call.request.op = op

\* Runs that were not started have done nothing.
FutureIsBlank ==
  /\ \A s \in Session : s > session => run[s] = NoRun /\ apiMade[s] = 0
  /\ \A t \in TaskId : apiTasks[t] # NULL => apiTasks[t].session <= session
  /\ \A request \in late : request.session <= session

\* A run sends, in its own name, the requests of the place it is at.
CallFits(s) ==
  run[s].call # NULL =>
    /\ run[s].call.request.session = s
    /\ run[s].at \in {"users", "projects", "backlog", "loop"}
    /\ run[s].at = "users" <=> run[s].call.request.op = "createUser"
    /\ run[s].at = "projects" => /\ run[s].call.request.op = "createProject"
                                 /\ run[s].call.request.team = run[s].team
    /\ run[s].at = "backlog" => run[s].call.request.op = "createTask"

\* What the API answered is so.
AnswerHolds(s) ==
  /\ Answered(s, "createTask") =>
       LET id == run[s].call.answer
       IN id \in TaskId /\ apiTasks[id] # NULL /\ apiTasks[id].session = s
  /\ Answered(s, "updateTaskStatus") => run[s].call.answer = run[s].call.request.task

\* A request to change a task: the task exists, and the run that asks made it.
OwnTask(request) ==
  request.op = "updateTaskStatus" =>
    apiTasks[request.task] # NULL /\ apiTasks[request.task].session = request.session

OwnTasks ==
  /\ \A t \in TaskId : running /\ tasks[t] # NULL =>
       apiTasks[t] # NULL /\ apiTasks[t].session = session
  /\ \A request \in late : OwnTask(request)
  /\ \A s \in Session : run[s].call # NULL => OwnTask(run[s].call.request)

\* While workers are created, no team has more of them than were asked for.
WorkersCounted(s) ==
  run[s].at = "users" => /\ run[s].n < WorkforceSize
                         /\ \A t \in Team : workers[t] <= run[s].n

\* The teams of the stages of bootstrap, and what createAnotherProject looked at.
StageKeepsLimits(s) ==
  /\ run[s].at = "users" => \A t \in Team : projects[t] = 0
  /\ run[s].at = "projects" => \A t \in Team : t >= run[s].team => projects[t] = 0
  /\ run[s].at = "backlog" => \A t \in Team : t > run[s].team => projects[t] = 0
  /\ run[s].at \in {"projects", "backlog", "check", "enter"} =>
       \A t \in Team : projects[t] <= 1
  /\ run[s].at = "loop" /\ run[s].call # NULL /\ run[s].call.request.op = "createProject" =>
       Owned < MaxProjects /\ projects[run[s].call.request.team] < 2

RunsFit ==
  \A s \in Session : CallFits(s) /\ AnswerHolds(s) /\ WorkersCounted(s) /\ StageKeepsLimits(s)

\* A project that the API has made and the engine has still to note.
NotNoted == IF Answered(session, "createProject") THEN 1 ELSE 0

\* The engine holds no project that the API has not made for this run.
ProjectsExist == running => Owned + NotNoted <= apiMade[session]

\* The picture of a task once an answer that has come is noted.
Noted(t) ==
  IF Answered(session, "createTask") /\ run[session].call.answer = t THEN "todo"
  ELSE IF Answered(session, "updateTaskStatus") /\ run[session].call.request.task = t
       THEN run[session].call.request.to
       ELSE tasks[t]

\* What is noted of a task is what the API has of the current run's tasks, the
\* status of one that somebody else moved last excepted.
Known(t) ==
  IF apiTasks[t] # NULL /\ apiTasks[t].session = session
  THEN /\ Noted(t) # NULL
       /\ apiTasks[t].by = "run" => Noted(t) = apiTasks[t].status
  ELSE Noted(t) = NULL

\* Without an error, what the engine has noted and is about to note is known so,
\* and no request of this run was given up.
InStep ==
  running /\ ~errors =>
    /\ Owned + NotNoted = apiMade[session]
    /\ \A t \in TaskId : Known(t)
    /\ \A request \in late : request.session # session

\* The inductive invariant of the simulator.
SimInv ==
  /\ TypeOK
  /\ OneRunAtATime
  /\ FutureIsBlank
  /\ RunsFit
  /\ OwnTasks
  /\ ProjectLimits
  /\ ProjectsExist
  /\ InStep

-----------------------------------------------------------------------------
(* len(e.projects)                                                         *)

\* One place for each project of each team.
Places == {p \in Team \X (1..MaxMade) : p[2] <= projects[p[1]]}

LEMMA Bounds ==
  /\ TeamCount \in Nat \ {0} /\ WorkforceSize \in Nat \ {0} /\ MaxProjects \in Nat \ {0}
  /\ MaxSession \in Nat /\ MaxTask \in Nat /\ MaxMade \in Nat /\ MaxLate \in Nat
  /\ TeamCount <= MaxProjects
BY ConstantsAssumption

LEMMA PlacesFinite ==
  IsFiniteSet(Places) /\ Owned = Cardinality(Places) /\ Owned \in Nat
<1>1. IsFiniteSet(Team) /\ IsFiniteSet(1..MaxMade)
  BY Bounds, FS_Interval DEF Team
<1>2. IsFiniteSet(Team \X (1..MaxMade))
  BY <1>1, FS_Product
<1>3. IsFiniteSet(Places)
  <2>1. Places \in SUBSET (Team \X (1..MaxMade))
    BY DEF Places
  <2> QED  BY <1>2, <2>1, FS_Subset
<1> QED  BY <1>3, FS_CardinalityType DEF Owned, Places

\* A project more for one team is one more in all.
LEMMA OneMore ==
  ASSUME projects \in [Team -> 0..MaxMade], NEW t \in Team, projects[t] < MaxMade,
         projects' = [projects EXCEPT ![t] = @ + 1]
  PROVE  Owned' = Owned + 1
<1> DEFINE new == <<t, projects[t] + 1>>
<1>1. projects[t] \in Nat /\ projects[t] + 1 \in 1..MaxMade
  BY Bounds
<1>2. new \in Team \X (1..MaxMade) /\ new \notin Places
  BY <1>1 DEF Places
<1>3. ASSUME NEW p \in Team \X (1..MaxMade)
      PROVE  p[2] <= projects'[p[1]] <=> p = new \/ p[2] <= projects[p[1]]
  <2>1. p[1] \in Team /\ p[2] \in 1..MaxMade /\ p = <<p[1], p[2]>>
    OBVIOUS
  <2>2. CASE p[1] = t
    BY <1>1, <2>1, <2>2, Bounds
  <2>3. CASE p[1] # t
    BY <2>1, <2>3
  <2> QED  BY <2>2, <2>3
<1>4. Places' = Places \cup {new}
  <2>1. Places' = {p \in Team \X (1..MaxMade) : p[2] <= projects'[p[1]]}
    BY DEF Places
  <2> HIDE DEF new
  <2> QED  BY <1>2, <1>3, <2>1 DEF Places
<1>5. Cardinality(Places \cup {new}) = Cardinality(Places) + 1
  BY <1>2, PlacesFinite, FS_AddElement
<1>6. Owned' = Cardinality(Places')
  BY DEF Owned, Places
<1> QED  BY <1>4, <1>5, <1>6, PlacesFinite

\* No team has more projects than there are.
LEMMA PartOfAll ==
  ASSUME projects \in [Team -> 0..MaxMade], NEW t \in Team
  PROVE  projects[t] <= Owned
<1>1. projects[t] \in 0..MaxMade /\ projects[t] \in Nat
  BY Bounds
<1> DEFINE Mine == {t} \X (1..projects[t])
<1>2. IsFiniteSet({t}) /\ Cardinality({t}) = 1
  BY FS_Singleton
<1>3. IsFiniteSet(1..projects[t]) /\ Cardinality(1..projects[t]) = projects[t]
  BY <1>1, FS_Interval
<1>4. Cardinality(Mine) = projects[t]
  <2>1. Cardinality(Mine) = Cardinality({t}) * Cardinality(1..projects[t])
    BY <1>2, <1>3, FS_Product
  <2> HIDE DEF Mine
  <2>2. Cardinality(Mine) = 1 * projects[t]
    BY <1>2, <1>3, <2>1
  <2> QED  BY <1>1, <2>2
<1>5. Mine \in SUBSET Places
  <2> SUFFICES ASSUME NEW p \in Mine PROVE p \in Places
    OBVIOUS
  <2>1. p = <<t, p[2]>> /\ p[1] = t /\ p[2] \in 1..projects[t]
    OBVIOUS
  <2>2. p[2] \in 1..MaxMade /\ p[2] <= projects[t]
    BY <1>1, <2>1, Bounds
  <2>3. p \in Team \X (1..MaxMade)
    BY <2>1, <2>2
  <2> QED  BY <2>1, <2>2, <2>3 DEF Places
<1>6. Cardinality(Mine) <= Cardinality(Places)
  BY <1>5, PlacesFinite, FS_Subset
<1> HIDE DEF Mine
<1> QED  BY <1>1, <1>4, <1>6, PlacesFinite

\* Teams with a project each at most have as many as there are teams at most.
LEMMA OneEach ==
  ASSUME NEW own \in [Team -> 0..MaxMade], \A t \in Team : own[t] <= 1
  PROVE  Cardinality({p \in Team \X (1..MaxMade) : p[2] <= own[p[1]]}) <= TeamCount
<1> DEFINE Held == {p \in Team \X (1..MaxMade) : p[2] <= own[p[1]]}
<1>1. IsFiniteSet(Team) /\ Cardinality(Team) = TeamCount
  BY Bounds, FS_Interval DEF Team
<1>2. IsFiniteSet({1}) /\ Cardinality({1}) = 1
  BY FS_Singleton
<1>3. IsFiniteSet(Team \X {1}) /\ Cardinality(Team \X {1}) = TeamCount * 1
  BY <1>1, <1>2, FS_Product
<1>4. Held \in SUBSET (Team \X {1})
  <2> SUFFICES ASSUME NEW p \in Held PROVE p \in Team \X {1}
    OBVIOUS
  <2>1. p[1] \in Team /\ p[2] \in 1..MaxMade /\ p[2] <= own[p[1]] /\ p = <<p[1], p[2]>>
    OBVIOUS
  <2>2. p[2] = 1
    BY <2>1, Bounds
  <2> QED  BY <2>1, <2>2
<1> HIDE DEF Held
<1>5. Cardinality(Held) <= Cardinality(Team \X {1}) /\ Cardinality(Held) \in Nat
  BY <1>3, <1>4, FS_Subset, FS_CardinalityType
<1> QED  BY <1>3, <1>5, Bounds DEF Held

LEMMA NoneAtAll ==
  ASSUME NEW own, \A t \in Team : own[t] = 0
  PROVE  Cardinality({p \in Team \X (1..MaxMade) : p[2] <= own[p[1]]}) = 0
<1>1. {p \in Team \X (1..MaxMade) : p[2] <= own[p[1]]} = {}
  BY Bounds
<1> QED  BY <1>1, FS_EmptySet

-----------------------------------------------------------------------------
(* Runs and requests                                                       *)

LEMMA RequestFacts ==
  ASSUME NEW q \in Request
  PROVE  /\ q.session \in Session
         /\ q.op \in {"createUser", "createProject", "createTask", "listProjectTasks", "updateTaskStatus"}
         /\ q.op \in {"createUser", "createProject"} => q.team \in Team
         /\ q.op = "updateTaskStatus" => q.task \in TaskId /\ q.to \in Status
BY DEF Request

LEMMA RunFacts ==
  ASSUME TypeOK, NEW s \in Session
  PROVE  /\ run[s] \in Run /\ run[s].n \in Nat /\ run[s].n <= WorkforceSize /\ run[s].team \in Team
         /\ run[s].call # NULL =>
              /\ run[s].call \in Call /\ run[s].call.request \in Request /\ Alive(s)
              /\ run[s].call.answer \in (0..MaxTask) \cup {NULL}
BY Bounds DEF TypeOK, Run, Call

LEMMA AtFacts ==
  ASSUME NEW place \in {"none", "users", "projects", "backlog", "check", "enter", "loop", "ended"},
         NEW n \in 0..WorkforceSize, NEW team \in Team
  PROVE  /\ At(place, n, team) \in Run
         /\ At(place, n, team).at = place /\ At(place, n, team).n = n
         /\ At(place, n, team).team = team /\ At(place, n, team).call = NULL
BY DEF At, Run

\* The run of the current session is the only one that does anything.
LEMMA OnlyCurrent ==
  ASSUME TypeOK, OneRunAtATime, NEW s \in Session, Alive(s) \/ run[s].call # NULL
  PROVE  Alive(s) /\ s = session /\ running
BY DEF TypeOK, OneRunAtATime

LEMMA AdvanceFacts ==
  ASSUME TypeOK, NEW s \in Session, NEW ok \in BOOLEAN, WorkersCounted(s),
         run[s].at \in {"users", "projects", "backlog", "loop"}
  PROVE  /\ Advance(s, ok) \in Run /\ Advance(s, ok).call = NULL
         /\ Advance(s, ok).at \in {"users", "projects", "backlog", "check", "loop"}
         /\ run[s].at = "users" =>
              \/ Advance(s, ok) = At("projects", 0, run[s].team) /\ run[s].n + 1 = WorkforceSize
              \/ Advance(s, ok) = At("users", run[s].n + 1, run[s].team) /\ run[s].n + 1 < WorkforceSize
         /\ run[s].at = "projects" =>
              \/ ok = TRUE /\ Advance(s, ok) = At("backlog", run[s].n, run[s].team)
              \/ ok = FALSE /\ Advance(s, ok) = NextTeam(run[s])
         /\ run[s].at = "backlog" =>
              Advance(s, ok) \in {At("backlog", 1, run[s].team), NextTeam(run[s])}
         /\ run[s].at = "loop" => Advance(s, ok) = At("loop", run[s].n, run[s].team)
         /\ \/ NextTeam(run[s]) = At("check", 0, run[s].team)
            \/ NextTeam(run[s]) = At("projects", 0, run[s].team + 1) /\ run[s].team + 1 \in Team
<1> DEFINE r == run[s]
           a == Advance(s, ok)
           next == NextTeam(r)
<1>1. /\ r.n \in 0..WorkforceSize /\ r.team \in Team /\ 0 \in 0..WorkforceSize /\ 1 \in 0..WorkforceSize
      /\ r.team # TeamCount => r.team + 1 \in Team
      /\ r.at = "users" => r.n < WorkforceSize
  BY RunFacts, Bounds DEF WorkersCounted, Team
<1>2. \/ next = At("check", 0, r.team)
      \/ next = At("projects", 0, r.team + 1) /\ r.team + 1 \in Team
  BY <1>1 DEF NextTeam
<1>3. /\ next \in Run /\ next.call = NULL /\ next.at \in {"projects", "check"}
  BY <1>1, <1>2, AtFacts
<1> DEFINE Goal ==
         /\ a \in Run /\ a.call = NULL /\ a.at \in {"users", "projects", "backlog", "check", "loop"}
         /\ r.at = "users" =>
              \/ a = At("projects", 0, r.team) /\ r.n + 1 = WorkforceSize
              \/ a = At("users", r.n + 1, r.team) /\ r.n + 1 < WorkforceSize
         /\ r.at = "projects" => \/ ok = TRUE /\ a = At("backlog", r.n, r.team)
                                 \/ ok = FALSE /\ a = next
         /\ r.at = "backlog" => a \in {At("backlog", 1, r.team), next}
         /\ r.at = "loop" => a = At("loop", r.n, r.team)
         /\ \/ next = At("check", 0, r.team)
            \/ next = At("projects", 0, r.team + 1) /\ r.team + 1 \in Team
<1> HIDE DEF a, next
<1>4. ASSUME r.at = "users" PROVE Goal
  <2>1. a = IF r.n + 1 = WorkforceSize THEN At("projects", 0, r.team)
                         ELSE At("users", r.n + 1, r.team)
    BY <1>4 DEF a, Advance
  <2>2. r.n + 1 \in 0..WorkforceSize /\ (r.n + 1 # WorkforceSize => r.n + 1 < WorkforceSize)
    BY <1>1, <1>4, Bounds
  <2>3. /\ a \in Run /\ a.call = NULL
        /\ a.at \in {"users", "projects", "backlog", "check", "loop"}
    <3>1. CASE r.n + 1 = WorkforceSize
      BY <1>1, <2>1, <3>1, AtFacts
    <3>2. CASE r.n + 1 # WorkforceSize
      BY <1>1, <2>1, <2>2, <3>2, AtFacts
    <3> QED  BY <3>1, <3>2
  <2> QED  BY <1>2, <1>4, <2>1, <2>2, <2>3
<1>5. ASSUME r.at = "projects" PROVE Goal
  <2>1. /\ ok = TRUE => a = At("backlog", r.n, r.team)
        /\ ok = FALSE => a = next
    BY <1>5 DEF a, next, Advance
  <2>2. /\ a \in Run /\ a.call = NULL
        /\ a.at \in {"users", "projects", "backlog", "check", "loop"}
    <3>1. CASE ok = TRUE
      BY <1>1, <2>1, <3>1, AtFacts
    <3>2. CASE ok = FALSE
      BY <1>3, <2>1, <3>2
    <3> QED  BY <3>1, <3>2
  <2> QED  BY <1>2, <1>5, <2>1, <2>2
<1>6. ASSUME r.at = "backlog" PROVE Goal
  <2>1. a = IF r.n = 0 THEN At("backlog", 1, r.team) ELSE next
    BY <1>6 DEF a, next, Advance
  <2>2. /\ a \in Run /\ a.call = NULL
        /\ a.at \in {"users", "projects", "backlog", "check", "loop"}
    <3>1. CASE r.n = 0
      BY <1>1, <2>1, <3>1, AtFacts
    <3>2. CASE r.n # 0
      BY <1>3, <2>1, <3>2
    <3> QED  BY <3>1, <3>2
  <2> QED  BY <1>2, <1>6, <2>1, <2>2
<1>7. ASSUME r.at = "loop" PROVE Goal
  <2>1. a = At("loop", r.n, r.team)
    BY <1>7 DEF a, Advance
  <2>2. /\ a \in Run /\ a.call = NULL
        /\ a.at \in {"users", "projects", "backlog", "check", "loop"}
    BY <1>1, <2>1, AtFacts
  <2> QED  BY <1>2, <1>7, <2>1, <2>2
<1> QED  BY <1>4, <1>5, <1>6, <1>7 DEF a, next

LEMMA InitSim == Init => SimInv
<1> SUFFICES ASSUME Init PROVE SimInv
  OBVIOUS
<1>1. /\ NoRun \in Run /\ NoRun.at = "none" /\ NoRun.call = NULL
  BY AtFacts, Bounds DEF NoRun, Team
<1>2. /\ run \in [Session -> Run]
      /\ \A s \in Session : run[s] = NoRun /\ run[s].call = NULL /\ ~Alive(s) /\ run[s].at = "none"
  BY <1>1 DEF Init, Alive
<1>3. TypeOK
  <2>1. /\ tasks \in [TaskId -> Status \cup {NULL}]
        /\ apiTasks \in [TaskId -> ApiTask \cup {NULL}]
    BY DEF Init, NoTasks
  <2>2. /\ workers \in [Team -> 0..WorkforceSize] /\ projects \in [Team -> 0..MaxMade]
        /\ apiMade \in [Session -> 0..MaxMade]
    BY Bounds DEF Init
  <2>3. speed \in 1..40 /\ session \in 0..MaxSession
    BY Bounds DEF Init
  <2> QED  BY <1>2, <2>1, <2>2, <2>3 DEF Init, TypeOK
<1>4. OneRunAtATime
  BY <1>2 DEF Init, OneRunAtATime
<1>5. FutureIsBlank /\ OwnTasks
  BY <1>2 DEF Init, FutureIsBlank, OwnTasks, NoTasks
<1>6. RunsFit
  BY <1>2 DEF RunsFit, CallFits, AnswerHolds, Answered, WorkersCounted, StageKeepsLimits
<1>7. ProjectLimits
  <2>1. Owned = 0
    BY NoneAtAll DEF Init, Owned
  <2> QED  BY <2>1, Bounds DEF Init, ProjectLimits
<1>8. ProjectsExist /\ InStep
  BY DEF Init, ProjectsExist, InStep
<1> QED  BY <1>3, <1>4, <1>5, <1>6, <1>7, <1>8 DEF SimInv

-----------------------------------------------------------------------------
(* Steps of the run by itself                                              *)

\* A step of a run that has no request under way, and that neither the API nor
\* what the engine owns takes part in.
LocalStep(s) ==
  /\ Alive(s)
  /\ run[s].call = NULL
  /\ run'[s] \in Run
  /\ run'[s].at \notin {"none", "ended"}
  /\ run'[s].call # NULL => run'[s].call.answer = NULL /\ OwnTask(run'[s].call.request)
  /\ run' = [run EXCEPT ![s] = run'[s]]
  /\ UNCHANGED <<running, session, cancelled, speed, workers, projects, tasks, apiVars, late>>
  /\ phase' = phase \/ phase' = "running"
  /\ errors' = errors \/ errors' = TRUE

LEMMA LocalKeepsInv ==
  ASSUME SimInv, NEW s \in Session, LocalStep(s),
         CallFits(s)', WorkersCounted(s)', StageKeepsLimits(s)'
  PROVE  SimInv'
<1> USE DEF SimInv
<1>0. /\ s = session /\ running /\ run \in [Session -> Run]
      /\ \A r \in Session : r # s => ~Alive(r) /\ run[r].call = NULL
      /\ UNCHANGED <<workers, projects, tasks, apiTasks, apiMade, late, session, running>>
  BY OnlyCurrent DEF LocalStep, TypeOK, apiVars
<1>1. /\ run' \in [Session -> Run]
      /\ \A r \in Session : r # s => run'[r] = run[r]
      /\ Alive(s)' /\ \A r \in Session : r # s => ~Alive(r)' /\ run'[r].call = NULL
  BY <1>0 DEF LocalStep, Alive
<1>2. \A r \in Session : \A op : ~Answered(r, op)'
  BY <1>0, <1>1 DEF LocalStep, Answered
<1>3. TypeOK'
  BY <1>0, <1>1 DEF LocalStep, TypeOK, apiVars
<1>4. OneRunAtATime'
  BY <1>0, <1>1 DEF LocalStep, OneRunAtATime
<1>5. FutureIsBlank'
  <2>1. \A r \in Session : r > session => r # s
    BY <1>0 DEF TypeOK
  <2> QED  BY <1>0, <1>1, <2>1 DEF FutureIsBlank
<1>6. RunsFit'
  <2>1. \A r \in Session : AnswerHolds(r)'
    BY <1>2 DEF AnswerHolds
  <2>2. ASSUME NEW r \in Session, r # s
        PROVE  CallFits(r)' /\ WorkersCounted(r)' /\ StageKeepsLimits(r)'
    BY <1>1, <2>2 DEF CallFits, WorkersCounted, StageKeepsLimits, Alive
  <2> QED  BY <2>1, <2>2 DEF RunsFit
<1>7. OwnTasks'
  <2>1. \A r \in Session : run'[r].call # NULL => r = s /\ OwnTask(run'[r].call.request)
    BY <1>1 DEF LocalStep
  <2> QED  BY <1>0, <2>1 DEF OwnTasks, OwnTask
<1>8. ProjectLimits'
  BY <1>0 DEF ProjectLimits, Owned
<1>9. NotNoted = 0 /\ NotNoted' = 0 /\ Owned' = Owned /\ session \in Session
  BY <1>0, <1>2 DEF NotNoted, Answered, LocalStep, Owned
<1>10. ProjectsExist'
  BY <1>0, <1>9 DEF ProjectsExist
<1>11. InStep'
  <2>1. \A t \in TaskId : Noted(t)' = Noted(t)
    BY <1>0, <1>2 DEF Noted, Answered, LocalStep
  <2>2. ~errors' => ~errors
    BY DEF LocalStep
  <2>3. \A t \in TaskId : Known(t) => Known(t)'
    BY <1>0, <2>1 DEF Known
  <2> QED  BY <1>0, <1>9, <2>2, <2>3 DEF InStep
<1> QED  BY <1>3, <1>4, <1>5, <1>6, <1>7, <1>8, <1>10, <1>11

\* The run sends a request that fits the place it is at.
LEMMA SendKeepsInv ==
  ASSUME SimInv, NEW s \in Session, run[s].call = NULL, NEW q \in Request, Send(s, q),
         q.session = s, OwnTask(q),
         run[s].at \in {"users", "projects", "backlog", "loop"},
         run[s].at = "users" <=> q.op = "createUser",
         run[s].at = "projects" => q.op = "createProject" /\ q.team = run[s].team,
         run[s].at = "backlog" => q.op = "createTask",
         run[s].at = "loop" /\ q.op = "createProject" => Owned < MaxProjects /\ projects[q.team] < 2,
         UNCHANGED <<ctlVars, ownVars, apiVars, late>>
  PROVE  SimInv'
<1> DEFINE c == [request |-> q, answer |-> NULL]
<1>1. /\ TypeOK /\ run \in [Session -> Run] /\ RunsFit
      /\ UNCHANGED <<running, session, cancelled, speed, phase, errors, workers, projects, tasks, apiVars, late>>
  BY DEF SimInv, TypeOK, ctlVars, ownVars
<1>2. c \in Call /\ c.request = q /\ c.answer = NULL
  BY DEF Call
<1>3. run' = [run EXCEPT ![s].call = c]
  BY DEF Send
<1> HIDE DEF c
<1>4. /\ run'[s].call = c /\ run'[s].at = run[s].at /\ run'[s].n = run[s].n
      /\ run'[s].team = run[s].team /\ run'[s] \in Run
      /\ run' = [run EXCEPT ![s] = run'[s]]
  BY <1>1, <1>2, <1>3 DEF Run
<1>5. LocalStep(s)
  BY <1>1, <1>2, <1>4 DEF LocalStep, Alive
<1>6. CallFits(s)'
  BY <1>2, <1>4 DEF CallFits
<1>7. WorkersCounted(s)'
  BY <1>1, <1>4 DEF RunsFit, WorkersCounted
<1>8. StageKeepsLimits(s)'
  <2>1. Owned' = Owned
    BY <1>1 DEF Owned
  <2> QED  BY <1>1, <1>2, <1>4, <2>1 DEF RunsFit, StageKeepsLimits
<1> QED  BY <1>5, <1>6, <1>7, <1>8, LocalKeepsInv

LEMMA BootstrapKeepsInv ==
  ASSUME SimInv, NEW s \in Session, Bootstrap(s)
  PROVE  SimInv'
<1>1. run[s].call = NULL /\ UNCHANGED <<ctlVars, ownVars, apiVars, late>> /\ TypeOK
  BY DEF Bootstrap, SimInv
<1>2. CASE run[s].at = "users"
  <2> DEFINE q == [op |-> "createUser", session |-> s, team |-> (run[s].n % TeamCount) + 1]
  <2>1. (run[s].n % TeamCount) + 1 \in Team
    BY <1>1, RunFacts, Bounds DEF Team
  <2>2. q \in Request /\ q.session = s /\ q.op = "createUser"
    BY <2>1 DEF Request
  <2>3. Send(s, q)
    BY <1>2 DEF Bootstrap
  <2> HIDE DEF q
  <2> QED  BY <1>1, <1>2, <2>2, <2>3, SendKeepsInv DEF OwnTask
<1>3. CASE run[s].at = "projects"
  <2> DEFINE q == [op |-> "createProject", session |-> s, team |-> run[s].team]
  <2>1. q \in Request /\ q.session = s /\ q.op = "createProject" /\ q.team = run[s].team
    BY <1>1, RunFacts DEF Request
  <2>2. Send(s, q)
    BY <1>3 DEF Bootstrap
  <2> HIDE DEF q
  <2> QED  BY <1>1, <1>3, <2>1, <2>2, SendKeepsInv DEF OwnTask
<1>4. CASE run[s].at = "backlog"
  <2> DEFINE q == [op |-> "createTask", session |-> s]
  <2>1. q \in Request /\ q.session = s /\ q.op = "createTask"
    BY DEF Request
  <2>2. Send(s, q)
    BY <1>4 DEF Bootstrap
  <2> HIDE DEF q
  <2> QED  BY <1>1, <1>4, <2>1, <2>2, SendKeepsInv DEF OwnTask
<1> QED  BY <1>2, <1>3, <1>4 DEF Bootstrap

LEMMA ActionKeepsInv ==
  ASSUME SimInv, NEW s \in Session, RunAction(s)
  PROVE  SimInv'
<1>1. run[s].call = NULL /\ run[s].at = "loop" /\ UNCHANGED <<ctlVars, ownVars, apiVars, late>>
  BY DEF RunAction
<1>2. ASSUME NEW op \in {"createTask", "listProjectTasks"}, Send(s, [op |-> op, session |-> s])
      PROVE  SimInv'
  <2> DEFINE q == [op |-> op, session |-> s]
  <2>1. q \in Request /\ q.session = s /\ q.op = op
    BY DEF Request
  <2>2. Send(s, q)
    BY <1>2
  <2> HIDE DEF q
  <2> QED  BY <1>1, <2>1, <2>2, SendKeepsInv DEF OwnTask
<1>3. ASSUME NEW t \in Eligible, Send(s, [op |-> "createProject", session |-> s, team |-> t])
      PROVE  SimInv'
  <2> DEFINE q == [op |-> "createProject", session |-> s, team |-> t]
  <2>1. t \in Team /\ Owned < MaxProjects /\ projects[t] < 2
    BY DEF Eligible
  <2>2. q \in Request /\ q.session = s /\ q.op = "createProject" /\ q.team = t
    BY <2>1 DEF Request
  <2>3. Send(s, q)
    BY <1>3
  <2> HIDE DEF q
  <2> QED  BY <1>1, <2>1, <2>2, <2>3, SendKeepsInv DEF OwnTask
<1>4. ASSUME NEW from \in Status, NEW to \in Status, NEW t \in With(from),
             Send(s, [op |-> "updateTaskStatus", session |-> s, task |-> t, to |-> to])
      PROVE  SimInv'
  <2> DEFINE q == [op |-> "updateTaskStatus", session |-> s, task |-> t, to |-> to]
  <2>1. t \in TaskId /\ tasks[t] # NULL
    BY ConstantsAssumption DEF With
  <2>2. q \in Request /\ q.session = s /\ q.op = "updateTaskStatus" /\ q.task = t
    BY <2>1 DEF Request
  <2>3. Send(s, q)
    BY <1>4
  <2>4. s = session /\ running
    BY <1>1, OnlyCurrent DEF SimInv, Alive
  <2> HIDE DEF q
  <2>5. OwnTask(q)
    BY <2>1, <2>2, <2>4 DEF SimInv, OwnTasks, OwnTask
  <2> QED  BY <1>1, <2>2, <2>3, <2>5, SendKeepsInv
<1>5. ViewBoard(s) \/ CreateTask(s) => SimInv'
  BY <1>2 DEF ViewBoard, CreateTask
<1>6. ASSUME NEW from \in Status, NEW to \in Status, ProgressTask(s, from, to)
      PROVE  SimInv'
  BY <1>4, <1>5, <1>6 DEF ProgressTask
<1>7. "todo" \in Status /\ "in_progress" \in Status /\ "done" \in Status
  BY DEF Status
<1> QED  BY <1>3, <1>5, <1>6, <1>7 DEF RunAction, CreateAnotherProject

LEMMA SkipKeepsInv ==
  ASSUME SimInv, NEW s \in Session, SkipTask(s)
  PROVE  SimInv'
<1> DEFINE r == Advance(s, FALSE)
<1>1. /\ run[s].call = NULL /\ run[s].at = "backlog" /\ TypeOK /\ run \in [Session -> Run]
      /\ WorkersCounted(s) /\ StageKeepsLimits(s) /\ run[s].team \in Team
      /\ run' = [run EXCEPT ![s] = r]
      /\ UNCHANGED <<ctlVars, workers, projects, tasks, apiVars, late>>
  BY RunFacts DEF SkipTask, SimInv, TypeOK, RunsFit
<1>2. /\ r \in Run /\ r.call = NULL
      /\ \/ r = At("backlog", 1, run[s].team)
         \/ r = At("check", 0, run[s].team)
         \/ r = At("projects", 0, run[s].team + 1) /\ run[s].team + 1 \in Team
  BY <1>1, AdvanceFacts
<1> HIDE DEF r
<1>3. \/ r.at = "backlog" /\ r.team = run[s].team
      \/ r.at = "check"
      \/ r.at = "projects" /\ r.team = run[s].team + 1
  <2>1. 0 \in 0..WorkforceSize /\ 1 \in 0..WorkforceSize
    BY Bounds
  <2>2. CASE r = At("backlog", 1, run[s].team)
    BY <1>1, <2>1, <2>2, AtFacts
  <2>3. CASE r = At("check", 0, run[s].team)
    BY <1>1, <2>1, <2>3, AtFacts
  <2>4. CASE r = At("projects", 0, run[s].team + 1) /\ run[s].team + 1 \in Team
    BY <2>1, <2>4, AtFacts
  <2> QED  BY <1>2, <2>2, <2>3, <2>4
<1>4. errors' = errors \/ errors' = TRUE
  <2>1. errors \in BOOLEAN /\ errors' = (errors \/ workers[run[s].team] > 0)
    BY DEF SkipTask, SimInv, TypeOK
  <2>2. CASE workers[run[s].team] > 0
    BY <2>1, <2>2, Zenon
  <2>3. CASE ~(workers[run[s].team] > 0)
    BY <2>1, <2>3, Zenon
  <2> QED  BY <2>2, <2>3
<1>5. run'[s] = r /\ run' = [run EXCEPT ![s] = run'[s]]
  BY <1>1
<1>6. LocalStep(s)
  BY <1>1, <1>2, <1>3, <1>4, <1>5 DEF LocalStep, Alive, ctlVars
<1>7. CallFits(s)' /\ WorkersCounted(s)'
  BY <1>2, <1>3, <1>5 DEF CallFits, WorkersCounted
<1>8. StageKeepsLimits(s)'
  <2>1. \A t \in Team : t >= run[s].team + 1 => t > run[s].team
    BY <1>1 DEF Team
  <2> QED  BY <1>1, <1>2, <1>3, <1>5, <2>1 DEF StageKeepsLimits
<1> QED  BY <1>6, <1>7, <1>8, LocalKeepsInv

LEMMA EnterKeepsInv ==
  ASSUME SimInv, NEW s \in Session, BootstrapDone(s) \/ EnterLoop(s)
  PROVE  SimInv'
<1>1. PICK place \in {"enter", "loop"} :
        /\ run[s].at \in {"check", "enter"} /\ run' = [run EXCEPT ![s].at = place]
        /\ phase' = phase \/ phase' = "running"
        /\ place = "enter" => run[s].at = "check"
        /\ UNCHANGED <<running, session, cancelled, speed, workers, projects, tasks, errors, apiVars, late>>
  BY DEF BootstrapDone, EnterLoop, ctlVars, ownVars
<1>2. TypeOK /\ run \in [Session -> Run] /\ CallFits(s) /\ StageKeepsLimits(s)
  BY DEF SimInv, TypeOK, RunsFit
<1>3. run[s].call = NULL
  BY <1>1, <1>2 DEF CallFits
<1>4. /\ run'[s] \in Run /\ run'[s].at = place /\ run'[s].call = NULL
      /\ run' = [run EXCEPT ![s] = run'[s]]
  BY <1>1, <1>2, <1>3 DEF Run
<1>5. LocalStep(s)
  BY <1>1, <1>3, <1>4 DEF LocalStep, Alive
<1>6. CallFits(s)' /\ WorkersCounted(s)' /\ StageKeepsLimits(s)'
  BY <1>1, <1>2, <1>4 DEF CallFits, WorkersCounted, StageKeepsLimits
<1> QED  BY <1>5, <1>6, LocalKeepsInv

-----------------------------------------------------------------------------
(* The REST API                                                            *)

\* What a request changes at the API: it makes a task, or the task it names has
\* another status, or its run has a project more.
LEMMA ExecuteFacts ==
  ASSUME TypeOK, NEW q \in Request, OwnTask(q), NEW id \in 0..MaxTask, Execute(q, id)
  PROVE  /\ apiTasks' \in [TaskId -> ApiTask \cup {NULL}]
         /\ apiMade' \in [Session -> 0..MaxMade]
         /\ \A t \in TaskId :
              \/ apiTasks'[t] = apiTasks[t] /\ ~(q.op = "createTask" /\ t = id)
                 /\ ~(q.op = "updateTaskStatus" /\ t = q.task)
              \/ /\ q.op = "createTask" /\ t = id
                 /\ apiTasks[t] = NULL /\ apiTasks'[t] # NULL
                 /\ apiTasks'[t].session = q.session /\ apiTasks'[t].status = "todo"
              \/ /\ q.op = "updateTaskStatus" /\ t = q.task
                 /\ apiTasks[t] # NULL /\ apiTasks[t].session = q.session
                 /\ apiTasks'[t] # NULL /\ apiTasks'[t].session = q.session
                 /\ apiTasks'[t].status = q.to
         /\ q.op = "createTask" => id \in TaskId
         /\ q.op = "updateTaskStatus" => id = q.task
         /\ \A s \in Session :
              apiMade'[s] = apiMade[s] + (IF q.op = "createProject" /\ s = q.session THEN 1 ELSE 0)
<1>1. /\ apiTasks \in [TaskId -> ApiTask \cup {NULL}] /\ apiMade \in [Session -> 0..MaxMade]
      /\ \A s \in Session : apiMade[s] \in Nat
      /\ NULL \notin ApiTask
  BY ConstantsAssumption, Bounds DEF TypeOK
<1>2. CASE q.op \in {"createUser", "listProjectTasks"} /\ UNCHANGED apiVars
  BY <1>1, <1>2 DEF apiVars
<1>3. CASE /\ q.op = "createProject" /\ apiMade[q.session] < MaxMade
           /\ apiMade' = [apiMade EXCEPT ![q.session] = @ + 1] /\ UNCHANGED apiTasks
  <2>1. q.session \in Session
    BY RequestFacts
  <2>2. apiMade[q.session] + 1 \in 0..MaxMade
    BY <1>1, <1>3, <2>1, Bounds
  <2> QED  BY <1>1, <1>3, <2>1, <2>2
<1>4. CASE /\ q.op = "createTask" /\ id \in TaskId /\ apiTasks[id] = NULL
           /\ apiTasks' = [apiTasks EXCEPT ![id] = [session |-> q.session,
                                                    status |-> "todo", by |-> "run"]]
           /\ UNCHANGED apiMade
  <2> DEFINE made == [session |-> q.session, status |-> "todo", by |-> "run"]
  <2>1. made \in ApiTask /\ made.session = q.session /\ made.status = "todo"
    BY RequestFacts DEF ApiTask, Status
  <2>2. apiTasks' = [apiTasks EXCEPT ![id] = made]
    BY <1>4
  <2> HIDE DEF made
  <2> QED  BY <1>1, <1>4, <2>1, <2>2
<1>5. CASE /\ q.op = "updateTaskStatus" /\ id = q.task
           /\ updateTaskStatus(id, q.to, "run") /\ UNCHANGED apiMade
  <2>1. id \in TaskId /\ q.to \in Status /\ apiTasks[id] # NULL /\ apiTasks[id].session = q.session
    BY <1>5, RequestFacts DEF OwnTask
  <2>2. apiTasks[id] \in ApiTask
    BY <1>1, <2>1
  <2> DEFINE changed == [session |-> apiTasks[id].session, status |-> q.to, by |-> "run"]
  <2>3. changed \in ApiTask /\ changed.session = q.session /\ changed.status = q.to
    BY <2>1, <2>2 DEF ApiTask
  <2>4. apiTasks' = [apiTasks EXCEPT ![id] = changed]
    BY <1>5 DEF updateTaskStatus
  <2> HIDE DEF changed
  <2> QED  BY <1>1, <1>5, <2>1, <2>3, <2>4
<1>6. q.op = "createTask" => (apiTasks[id] = NULL <=> id >= id)
  BY DEF Execute
<1> QED  BY <1>2, <1>3, <1>4, <1>5, <1>6 DEF Execute, TaskId

\* What stays true of the engine's tasks whatever the API is asked to do.
LEMMA ApiKeepsTasks ==
  ASSUME SimInv, NEW q \in Request, OwnTask(q), q.session <= session,
         NEW id \in 0..MaxTask, Execute(q, id),
         UNCHANGED <<running, session, tasks>>
  PROVE  /\ \A t \in TaskId : running /\ tasks[t] # NULL =>
              apiTasks'[t] # NULL /\ apiTasks'[t].session = session
         /\ \A other \in Request : OwnTask(other) => OwnTask(other)'
         /\ \A t \in TaskId : apiTasks'[t] # NULL => apiTasks'[t].session <= session
         /\ \A s \in Session : s > session => apiMade'[s] = 0
<1>1. TypeOK /\ FutureIsBlank /\ OwnTasks
  BY DEF SimInv
<1>2. \A t \in TaskId : apiTasks[t] # NULL =>
        apiTasks'[t] # NULL /\ apiTasks'[t].session = apiTasks[t].session
  BY <1>1, ExecuteFacts
<1>3. \A t \in TaskId : running /\ tasks[t] # NULL =>
        apiTasks'[t] # NULL /\ apiTasks'[t].session = session
  BY <1>1, <1>2 DEF OwnTasks
<1>4. \A other \in Request : OwnTask(other) => OwnTask(other)'
  BY <1>2, RequestFacts DEF OwnTask
<1>5. \A t \in TaskId : apiTasks'[t] # NULL => apiTasks'[t].session <= session
  BY <1>1, ExecuteFacts DEF FutureIsBlank
<1>6. \A s \in Session : s > session => apiMade'[s] = 0
  <2>1. \A s \in Session : s > session => s # q.session
    BY <1>1, RequestFacts DEF TypeOK, Session
  <2> QED  BY <1>1, <2>1, ExecuteFacts DEF FutureIsBlank
<1> QED  BY <1>3, <1>4, <1>5, <1>6

LEMMA ServeKeepsInv ==
  ASSUME SimInv, NEW s \in Session, Serve(s)
  PROVE  SimInv'
<1>0. PICK q : q = run[s].call.request
  OBVIOUS
<1>1. PICK id \in 0..MaxTask :
        /\ Execute(q, id) /\ run' = [run EXCEPT ![s].call.answer = id]
        /\ run[s].call # NULL /\ run[s].call.answer = NULL
        /\ UNCHANGED <<ctlVars, ownVars, late>>
  BY <1>0 DEF Serve
<1>2. /\ TypeOK /\ OneRunAtATime /\ FutureIsBlank /\ RunsFit /\ OwnTasks /\ ProjectLimits
      /\ ProjectsExist /\ InStep
      /\ UNCHANGED <<running, phase, speed, session, cancelled, workers, projects, tasks, errors, late>>
  BY <1>1 DEF SimInv, ctlVars, ownVars
<1>3. /\ s = session /\ running /\ Alive(s) /\ q \in Request /\ q.session = s /\ OwnTask(q)
      /\ run[s].call \in Call /\ run[s] \in Run
      /\ \A r \in Session : r # s => ~Alive(r) /\ run[r].call = NULL
  BY <1>0, <1>1, <1>2, OnlyCurrent, RunFacts DEF RunsFit, CallFits, OwnTasks
<1>4. /\ run'[s] \in Run /\ run'[s].at = run[s].at /\ run'[s].n = run[s].n /\ run'[s].team = run[s].team
      /\ run'[s].call # NULL /\ run'[s].call.request = q /\ run'[s].call.answer = id
      /\ run' = [run EXCEPT ![s] = run'[s]] /\ run' \in [Session -> Run]
  <2> DEFINE c == [run[s].call EXCEPT !.answer = id]
  <2>1. run[s].call \in [request : Request, answer : (0..MaxTask) \cup {NULL}]
    BY <1>3 DEF Call
  <2>2. c \in Call /\ c.request = q /\ c.answer = id
    BY <1>0, <2>1 DEF Call
  <2>3. c # NULL
    BY <2>2, ConstantsAssumption
  <2>4. run' = [run EXCEPT ![s].call = c] /\ run \in [Session -> Run]
    BY <1>1, <1>2 DEF TypeOK
  <2> HIDE DEF c
  <2> QED  BY <1>3, <2>2, <2>3, <2>4 DEF Run
<1>5. /\ \A r \in Session : r # s => run'[r] = run[r]
      /\ Alive(s)' /\ \A r \in Session : r # s => ~Alive(r)' /\ run'[r].call = NULL
  BY <1>2, <1>3, <1>4 DEF TypeOK, Alive
<1>6. q.session <= session
  BY <1>3, Bounds DEF Session
<1>7. TypeOK'
  BY <1>1, <1>2, <1>3, <1>4, <1>5, ExecuteFacts DEF TypeOK
<1>8. OneRunAtATime'
  BY <1>2, <1>3, <1>5 DEF OneRunAtATime
<1>9. FutureIsBlank'
  <2>1. \A r \in Session : r > session => r # s
    BY <1>3, Bounds DEF Session
  <2> QED  BY <1>1, <1>2, <1>3, <1>5, <1>6, <2>1, ApiKeepsTasks DEF FutureIsBlank
<1>10. RunsFit'
  <2>1. CallFits(s)' /\ WorkersCounted(s)'
    BY <1>0, <1>1, <1>2, <1>3, <1>4 DEF RunsFit, CallFits, WorkersCounted
  <2>2. StageKeepsLimits(s)'
    <3>1. Owned' = Owned
      BY <1>2 DEF Owned
    <3> QED  BY <1>0, <1>1, <1>2, <1>4, <3>1 DEF RunsFit, StageKeepsLimits
  <2>3. AnswerHolds(s)'
    BY <1>1, <1>2, <1>3, <1>4, ExecuteFacts DEF AnswerHolds, Answered
  <2>4. ASSUME NEW r \in Session, r # s
        PROVE  CallFits(r)' /\ AnswerHolds(r)' /\ WorkersCounted(r)' /\ StageKeepsLimits(r)'
    BY <1>5, <2>4 DEF CallFits, AnswerHolds, Answered, WorkersCounted, StageKeepsLimits, Alive
  <2> QED  BY <2>1, <2>2, <2>3, <2>4 DEF RunsFit
<1>11. OwnTasks'
  <2>1. \A r \in Session : run'[r].call # NULL => r = s
    BY <1>5
  <2>2. OwnTask(q)' /\ \A other \in late : OwnTask(other)'
    <3>1. \A other \in Request : OwnTask(other) => OwnTask(other)'
      BY <1>1, <1>2, <1>3, <1>6, ApiKeepsTasks
    <3>2. late \subseteq Request /\ \A other \in late : OwnTask(other)
      BY <1>2 DEF OwnTasks, TypeOK
    <3> QED  BY <1>3, <3>1, <3>2
  <2>3. \A t \in TaskId : running' /\ tasks'[t] # NULL =>
          apiTasks'[t] # NULL /\ apiTasks'[t].session = session'
    BY <1>1, <1>2, <1>3, <1>6, ApiKeepsTasks
  <2> QED  BY <1>2, <1>4, <2>1, <2>2, <2>3 DEF OwnTasks, OwnTask
<1>12. ProjectLimits' /\ Owned' = Owned
  BY <1>2 DEF ProjectLimits, Owned
<1>13. /\ NotNoted = 0
       /\ NotNoted' = IF q.op = "createProject" THEN 1 ELSE 0
       /\ apiMade'[session] = apiMade[session] + NotNoted'
  <2>1. ~Answered(session, "createProject")
    BY <1>1, <1>3 DEF Answered
  <2>2. Answered(session, "createProject")' <=> q.op = "createProject"
    BY <1>2, <1>3, <1>4, ConstantsAssumption DEF Answered
  <2>3. apiMade'[session] = apiMade[session] + (IF q.op = "createProject" THEN 1 ELSE 0)
    BY <1>1, <1>2, <1>3, ExecuteFacts
  <2> QED  BY <2>1, <2>2, <2>3 DEF NotNoted
<1>14. apiMade[session] \in Nat /\ apiMade'[session] \in Nat /\ Owned \in Nat
  BY <1>2, <1>3, <1>7, Bounds, PlacesFinite DEF TypeOK
<1>15. ProjectsExist'
  <2>1. Owned <= apiMade[session]
    BY <1>2, <1>3, <1>13, <1>14 DEF ProjectsExist
  <2> QED  BY <1>2, <1>12, <1>13, <1>14, <2>1 DEF ProjectsExist, NotNoted
<1>16. InStep'
  <2> SUFFICES ASSUME ~errors
               PROVE  /\ Owned' + NotNoted' = apiMade'[session]
                      /\ \A t \in TaskId : Known(t)'
                      /\ \A request \in late : request.session # session
    BY <1>2 DEF InStep
  <2>1. /\ Owned + NotNoted = apiMade[session]
        /\ \A t \in TaskId : Known(t)
        /\ \A request \in late : request.session # session
    BY <1>2, <1>3 DEF InStep
  <2>2. Owned' + NotNoted' = apiMade'[session]
    BY <1>12, <1>13, <1>14, <2>1
  <2>3. ASSUME NEW t \in TaskId PROVE Known(t)'
    <3>1. Noted(t) = tasks[t] /\ Known(t)
      BY <1>1, <1>3, <2>1 DEF Noted, Answered
    <3>2. /\ Answered(session, "createTask")' <=> q.op = "createTask"
          /\ Answered(session, "updateTaskStatus")' <=> q.op = "updateTaskStatus"
      BY <1>2, <1>3, <1>4, ConstantsAssumption DEF Answered
    <3>3. Noted(t)' = IF q.op = "createTask" /\ id = t THEN "todo"
                      ELSE IF q.op = "updateTaskStatus" /\ q.task = t THEN q.to ELSE tasks[t]
      BY <1>2, <1>3, <1>4, <3>2 DEF Noted
    <3>4. \A status \in Status : status # NULL
      BY ConstantsAssumption
    <3>5. CASE /\ q.op = "createTask" /\ t = id /\ apiTasks'[t] # NULL
               /\ apiTasks'[t].session = q.session /\ apiTasks'[t].status = "todo"
      BY <1>2, <1>3, <3>3, <3>4, <3>5 DEF Known, Status
    <3>6. CASE /\ q.op = "updateTaskStatus" /\ t = q.task /\ apiTasks'[t] # NULL
               /\ apiTasks'[t].session = q.session /\ apiTasks'[t].status = q.to
      <4>1. q.to \in Status
        BY <1>3, <3>6, RequestFacts
      <4> QED  BY <1>2, <1>3, <3>3, <3>4, <3>6, <4>1 DEF Known
    <3>7. CASE /\ apiTasks'[t] = apiTasks[t] /\ ~(q.op = "createTask" /\ t = id)
               /\ ~(q.op = "updateTaskStatus" /\ t = q.task)
      BY <1>2, <3>1, <3>3, <3>7 DEF Known
    <3> QED  BY <1>1, <1>2, <1>3, <3>5, <3>6, <3>7, ExecuteFacts
  <2> QED  BY <2>1, <2>2, <2>3
<1> QED  BY <1>7, <1>8, <1>9, <1>10, <1>11, <1>12, <1>15, <1>16 DEF SimInv

\* Whatever another editor does to a task, it stays the run's.
LEMMA OthersKeepInv ==
  ASSUME SimInv, NEW t \in TaskId, NEW status \in Status, OthersMove(t, status)
  PROVE  SimInv'
<1>1. /\ TypeOK /\ OneRunAtATime /\ FutureIsBlank /\ RunsFit /\ OwnTasks /\ ProjectLimits
      /\ ProjectsExist /\ InStep
      /\ apiTasks \in [TaskId -> ApiTask \cup {NULL}] /\ apiTasks[t] # NULL
      /\ UNCHANGED <<running, phase, speed, session, cancelled, workers, projects, tasks, errors,
                     run, apiMade, late>>
  BY DEF OthersMove, SimInv, TypeOK, ctlVars, ownVars
<1>2. PICK moved : moved = [session |-> apiTasks[t].session, status |-> status, by |-> "others"]
  OBVIOUS
<1>3. /\ moved \in ApiTask /\ moved # NULL
      /\ moved.session = apiTasks[t].session /\ moved.by # "run"
  BY <1>1, <1>2, ConstantsAssumption DEF ApiTask
<1>4. apiTasks' = [apiTasks EXCEPT ![t] = moved]
  BY <1>2 DEF OthersMove, updateTaskStatus
<1>5. \A u \in TaskId :
        /\ apiTasks'[u] # NULL <=> apiTasks[u] # NULL
        /\ apiTasks[u] # NULL => apiTasks'[u].session = apiTasks[u].session
        /\ apiTasks'[u] = apiTasks[u] \/ apiTasks'[u].by # "run"
  BY <1>1, <1>3, <1>4
<1>6. TypeOK'
  BY <1>1, <1>3, <1>4 DEF TypeOK, Alive
<1>7. OneRunAtATime'
  BY <1>1 DEF OneRunAtATime, Alive
<1>8. FutureIsBlank'
  BY <1>1, <1>5 DEF FutureIsBlank
<1>9. ProjectLimits' /\ Owned' = Owned /\ NotNoted' = NotNoted
  BY <1>1 DEF ProjectLimits, Owned, NotNoted, Answered
<1>10. ASSUME NEW r \in Session PROVE AnswerHolds(r)'
  <2>1. AnswerHolds(r)
    BY <1>1 DEF RunsFit
  <2> QED  BY <1>1, <1>5, <2>1 DEF AnswerHolds, Answered
<1>11. RunsFit'
  BY <1>1, <1>9, <1>10 DEF RunsFit, CallFits, WorkersCounted, StageKeepsLimits
<1>12. OwnTasks'
  <2>1. \A q \in Request : OwnTask(q) => OwnTask(q)'
    BY <1>5, RequestFacts DEF OwnTask
  <2>2. /\ late \subseteq Request
        /\ \A r \in Session : run[r].call # NULL => run[r].call.request \in Request
    BY <1>1, RunFacts DEF TypeOK
  <2>3. \A r \in Session : run[r].call # NULL => OwnTask(run[r].call.request)'
    BY <1>1, <2>1, <2>2 DEF OwnTasks
  <2>4. \A q \in late : OwnTask(q)'
    BY <1>1, <2>1, <2>2 DEF OwnTasks
  <2> QED  BY <1>1, <1>5, <2>3, <2>4 DEF OwnTasks, OwnTask
<1>13. ProjectsExist' /\ InStep'
  <2>1. \A u \in TaskId : Noted(u)' = Noted(u)
    BY <1>1 DEF Noted, Answered
  <2>2. \A u \in TaskId : Known(u) => Known(u)'
    BY <1>1, <1>5, <2>1 DEF Known
  <2> QED  BY <1>1, <1>9, <2>2 DEF ProjectsExist, InStep
<1> QED  BY <1>6, <1>7, <1>8, <1>9, <1>11, <1>12, <1>13 DEF SimInv

LEMMA LateKeepsInv ==
  ASSUME SimInv, NEW q \in late, ServeLate(q)
  PROVE  SimInv'
<1>1. PICK id \in 0..MaxTask :
        /\ Execute(q, id) /\ late' = late \ {q}
        /\ UNCHANGED <<ctlVars, ownVars, run>>
  BY DEF ServeLate
<1>2. /\ TypeOK /\ OneRunAtATime /\ FutureIsBlank /\ RunsFit /\ OwnTasks /\ ProjectLimits
      /\ ProjectsExist /\ InStep
      /\ UNCHANGED <<running, phase, speed, session, cancelled, workers, projects, tasks, errors, run>>
  BY <1>1 DEF SimInv, ctlVars, ownVars
<1>3. q \in Request /\ OwnTask(q) /\ q.session <= session /\ q.session \in Session
  BY <1>2, RequestFacts DEF TypeOK, OwnTasks, FutureIsBlank
<1>4. TypeOK'
  BY <1>1, <1>2, <1>3, ExecuteFacts DEF TypeOK, Alive
<1>5. OneRunAtATime'
  BY <1>2 DEF OneRunAtATime, Alive
<1>6. FutureIsBlank'
  BY <1>1, <1>2, <1>3, ApiKeepsTasks DEF FutureIsBlank
<1>7. OwnTasks'
  <2>1. /\ \A other \in late : OwnTask(other)'
        /\ \A r \in Session : run[r].call # NULL => OwnTask(run[r].call.request)'
    BY <1>1, <1>2, <1>3, ApiKeepsTasks, RunFacts DEF OwnTasks, TypeOK
  <2>2. \A t \in TaskId : running' /\ tasks'[t] # NULL =>
          apiTasks'[t] # NULL /\ apiTasks'[t].session = session'
    BY <1>1, <1>2, <1>3, ApiKeepsTasks
  <2> QED  BY <1>1, <1>2, <2>1, <2>2 DEF OwnTasks, OwnTask
<1>8. ProjectLimits' /\ Owned' = Owned /\ NotNoted' = NotNoted
  BY <1>2 DEF ProjectLimits, Owned, NotNoted, Answered
<1>9. RunsFit'
  <2>1. ASSUME NEW r \in Session
        PROVE  CallFits(r)' /\ WorkersCounted(r)' /\ StageKeepsLimits(r)'
    BY <1>2, <1>8 DEF RunsFit, CallFits, WorkersCounted, StageKeepsLimits
  <2>2. ASSUME NEW r \in Session
        PROVE  AnswerHolds(r)'
    <3>1. AnswerHolds(r)
      BY <1>2 DEF RunsFit
    <3>2. \A t \in TaskId : apiTasks[t] # NULL =>
            apiTasks'[t] # NULL /\ apiTasks'[t].session = apiTasks[t].session
      BY <1>1, <1>2, <1>3, ExecuteFacts
    <3> QED  BY <1>2, <3>1, <3>2 DEF AnswerHolds, Answered
  <2> QED  BY <2>1, <2>2 DEF RunsFit
<1>10. running => session \in Session
  BY <1>2 DEF OneRunAtATime
<1>11. ProjectsExist'
  <2> SUFFICES ASSUME running PROVE Owned + NotNoted <= apiMade'[session]
    BY <1>2, <1>8 DEF ProjectsExist
  <2>1. apiMade[session] \in Nat /\ Owned \in Nat /\ NotNoted \in Nat
    BY <1>2, <1>10, Bounds, PlacesFinite DEF TypeOK, NotNoted
  <2>2. apiMade'[session] >= apiMade[session] /\ apiMade'[session] \in Nat
    BY <1>1, <1>2, <1>3, <1>10, <2>1, ExecuteFacts
  <2> QED  BY <1>2, <2>1, <2>2 DEF ProjectsExist
<1>12. InStep'
  <2> SUFFICES ASSUME running, ~errors
               PROVE  /\ Owned + NotNoted = apiMade'[session]
                      /\ \A t \in TaskId : Known(t)'
                      /\ \A request \in late' : request.session # session
    BY <1>2, <1>8 DEF InStep
  <2>1. /\ Owned + NotNoted = apiMade[session] /\ q.session # session
        /\ \A t \in TaskId : Known(t)
        /\ \A request \in late' : request.session # session
    BY <1>1, <1>2 DEF InStep
  <2>2. apiMade'[session] = apiMade[session]
    <3>1. apiMade[session] \in Nat
      BY <1>2, <1>10, Bounds DEF TypeOK
    <3> QED  BY <1>1, <1>2, <1>3, <1>10, <2>1, <3>1, ExecuteFacts
  <2>3. ASSUME NEW t \in TaskId PROVE Known(t)'
    <3>1. Noted(t)' = Noted(t)
      BY <1>2 DEF Noted, Answered
    <3>2. \/ apiTasks'[t] = apiTasks[t]
          \/ /\ apiTasks[t] = NULL \/ apiTasks[t].session # session
             /\ apiTasks'[t] # NULL => apiTasks'[t].session # session
      BY <1>1, <1>2, <1>3, <2>1, ExecuteFacts
    <3> QED  BY <1>2, <2>1, <3>1, <3>2 DEF Known
  <2> QED  BY <2>1, <2>2, <2>3
<1> QED  BY <1>4, <1>5, <1>6, <1>7, <1>8, <1>9, <1>11, <1>12 DEF SimInv

-----------------------------------------------------------------------------
(* The end of a request                                                    *)

\* The run goes on to its next place, its request done.
GoesOn(s, ok) ==
  /\ run[s].call # NULL
  /\ run' = [run EXCEPT ![s] = Advance(s, ok)]
  /\ UNCHANGED <<ctlVars, apiVars>>

LEMMA GoesOnFacts ==
  ASSUME SimInv, NEW s \in Session, NEW ok \in BOOLEAN, GoesOn(s, ok)
  PROVE  /\ s = session /\ running /\ run[s].call.request \in Request
         /\ run' \in [Session -> Run] /\ run'[s].call = NULL /\ Alive(s)'
         /\ \A r \in Session : r # s => run'[r] = run[r] /\ ~Alive(r) /\ run'[r].call = NULL
         /\ run[s].at \in {"users", "projects", "backlog", "loop"}
         /\ run[s].at = "users" =>
              \/ run'[s].at = "projects"
              \/ run'[s].at = "users" /\ run'[s].n = run[s].n + 1 /\ run[s].n + 1 < WorkforceSize
         /\ run[s].at = "projects" /\ ok = TRUE => run'[s].at = "backlog" /\ run'[s].team = run[s].team
         /\ (run[s].at = "projects" /\ ok = FALSE) \/ run[s].at = "backlog" =>
              \/ run'[s].at = "backlog" /\ run[s].at = "backlog" /\ run'[s].team = run[s].team
              \/ run'[s].at = "check"
              \/ run'[s].at = "projects" /\ run'[s].team = run[s].team + 1
         /\ run[s].at = "loop" => run'[s].at = "loop"
<1> DEFINE a == Advance(s, ok)
<1>1. /\ TypeOK /\ OneRunAtATime /\ CallFits(s) /\ WorkersCounted(s) /\ run[s].call # NULL
      /\ run' = [run EXCEPT ![s] = a]
  BY DEF SimInv, RunsFit, GoesOn
<1>2. run[s].at \in {"users", "projects", "backlog", "loop"}
  BY <1>1 DEF CallFits
<1>3. /\ a \in Run /\ a.call = NULL /\ a.at \in {"users", "projects", "backlog", "check", "loop"}
      /\ run[s].at = "users" =>
           \/ a = At("projects", 0, run[s].team)
           \/ a = At("users", run[s].n + 1, run[s].team) /\ run[s].n + 1 < WorkforceSize
      /\ run[s].at = "projects" => \/ ok = TRUE /\ a = At("backlog", run[s].n, run[s].team)
                                   \/ ok = FALSE /\ a = NextTeam(run[s])
      /\ run[s].at = "backlog" => a \in {At("backlog", 1, run[s].team), NextTeam(run[s])}
      /\ run[s].at = "loop" => a = At("loop", run[s].n, run[s].team)
      /\ \/ NextTeam(run[s]) = At("check", 0, run[s].team)
         \/ NextTeam(run[s]) = At("projects", 0, run[s].team + 1) /\ run[s].team + 1 \in Team
  BY <1>1, <1>2, AdvanceFacts
<1> HIDE DEF a
<1>4. \A place, n, team : At(place, n, team).at = place /\ At(place, n, team).n = n
                         /\ At(place, n, team).team = team
  BY DEF At
<1>5. /\ s = session /\ running /\ run[s].call.request \in Request
      /\ \A r \in Session : r # s => ~Alive(r) /\ run[r].call = NULL
  BY <1>1, OnlyCurrent, RunFacts
<1>6. /\ run' \in [Session -> Run] /\ run'[s] = a
      /\ \A r \in Session : r # s => run'[r] = run[r]
  BY <1>1, <1>3 DEF TypeOK
<1>7. Alive(s)'
  BY <1>3, <1>6 DEF Alive
<1> QED  BY <1>2, <1>3, <1>4, <1>5, <1>6, <1>7

LEMMA FailsKeepsInv ==
  ASSUME SimInv, NEW s \in Session, CallFails(s)
  PROVE  SimInv'
<1>1. PICK q : q = run[s].call.request
  OBVIOUS
<1>2. /\ TypeOK /\ OneRunAtATime /\ FutureIsBlank /\ RunsFit /\ OwnTasks /\ ProjectLimits
      /\ ProjectsExist /\ GoesOn(s, FALSE) /\ errors' = TRUE
      /\ late' \subseteq late \cup {q}
      /\ UNCHANGED <<running, phase, speed, session, cancelled, workers, projects, tasks, apiTasks, apiMade>>
  BY <1>1 DEF SimInv, CallFails, GoesOn, ctlVars, apiVars
<1>3. /\ s = session /\ running /\ q \in Request
      /\ run' \in [Session -> Run] /\ run'[s].call = NULL /\ Alive(s)'
      /\ \A r \in Session : r # s => run'[r] = run[r] /\ ~Alive(r) /\ run'[r].call = NULL
  BY <1>1, <1>2, GoesOnFacts
<1>4. q.session = s /\ OwnTask(q) /\ s \in 1..MaxSession
  BY <1>1, <1>2 DEF RunsFit, CallFits, OwnTasks, GoesOn, Session
<1>5. \A r \in Session : r # s => ~Alive(r)'
  BY <1>3 DEF Alive
<1>6. \A r \in Session : run'[r].call = NULL
  BY <1>3
<1>7. TypeOK'
  BY <1>2, <1>3, <1>5, <1>6 DEF TypeOK
<1>8. OneRunAtATime'
  BY <1>2, <1>3, <1>5 DEF OneRunAtATime
<1>9. FutureIsBlank'
  <2>1. \A r \in Session : r > session => r # s
    BY <1>3, Bounds DEF Session
  <2>2. q.session <= session
    BY <1>3, <1>4, Bounds
  <2> QED  BY <1>2, <1>3, <2>1, <2>2 DEF FutureIsBlank
<1>10. RunsFit'
  <2>1. ASSUME NEW r \in Session PROVE CallFits(r)' /\ AnswerHolds(r)'
    BY <1>6 DEF CallFits, AnswerHolds, Answered
  <2>2. ASSUME NEW r \in Session, r # s PROVE WorkersCounted(r)' /\ StageKeepsLimits(r)'
    BY <1>5, <1>6, <2>2 DEF WorkersCounted, StageKeepsLimits, Alive
  <2>3. /\ run[s].at \in {"users", "projects", "backlog", "loop"} /\ run[s].n \in Nat
        /\ run[s].team \in Nat /\ WorkersCounted(s) /\ StageKeepsLimits(s)
        /\ \A t \in Team : t \in Nat /\ workers[t] \in Nat
    <3>1. run[s].at \in {"users", "projects", "backlog", "loop"}
      BY <1>2, GoesOnFacts
    <3>2. run[s].n \in Nat /\ run[s].team \in Team /\ WorkersCounted(s) /\ StageKeepsLimits(s)
      BY <1>2, RunFacts DEF RunsFit
    <3>3. \A t \in Team : t \in Nat /\ workers[t] \in Nat
      BY <1>2, Bounds DEF Team, TypeOK
    <3> QED  BY <3>1, <3>2, <3>3
  <2>4. WorkersCounted(s)'
    <3>1. run'[s].at = "users" =>
            run[s].at = "users" /\ run'[s].n = run[s].n + 1 /\ run[s].n + 1 < WorkforceSize
      BY <1>2, GoesOnFacts
    <3> QED  BY <1>2, <2>3, <3>1 DEF WorkersCounted
  <2>5. StageKeepsLimits(s)'
    <3>1. CASE run[s].at = "users"
      BY <1>2, <1>3, <2>3, <3>1, GoesOnFacts DEF StageKeepsLimits
    <3>2. CASE run[s].at \in {"projects", "backlog"}
      <4>1. \/ run'[s].at = "backlog" /\ run[s].at = "backlog" /\ run'[s].team = run[s].team
            \/ run'[s].at = "check"
            \/ run'[s].at = "projects" /\ run'[s].team = run[s].team + 1
        BY <1>2, <3>2, GoesOnFacts
      <4>2. \A t \in Team : t >= run[s].team + 1 => t >= run[s].team /\ t > run[s].team
        BY <2>3
      <4> QED  BY <1>2, <1>3, <2>3, <3>2, <4>1, <4>2 DEF StageKeepsLimits
    <3>3. CASE run[s].at = "loop"
      BY <1>2, <1>3, <3>3, GoesOnFacts DEF StageKeepsLimits
    <3> QED  BY <2>3, <3>1, <3>2, <3>3
  <2> QED  BY <2>1, <2>2, <2>4, <2>5 DEF RunsFit
<1>11. OwnTasks'
  BY <1>2, <1>4, <1>6 DEF OwnTasks, OwnTask
<1>12. ProjectLimits' /\ Owned' = Owned
  BY <1>2 DEF ProjectLimits, Owned
<1>13. ProjectsExist'
  <2>1. NotNoted' = 0
    BY <1>2, <1>3 DEF NotNoted, Answered
  <2>2. apiMade[session] \in Nat /\ Owned \in Nat /\ NotNoted \in {0, 1}
    BY <1>2, <1>3, Bounds, PlacesFinite DEF TypeOK, NotNoted
  <2> QED  BY <1>2, <1>12, <2>1, <2>2 DEF ProjectsExist
<1>14. InStep'
  BY <1>2 DEF InStep
<1> QED  BY <1>7, <1>8, <1>9, <1>10, <1>11, <1>12, <1>13, <1>14 DEF SimInv

\* What the engine notes of an answer.
LEMMA NoteFacts ==
  ASSUME SimInv, NEW s \in Session, CallReturns(s), NEW q, q = run[s].call.request
  PROVE  /\ GoesOn(s, TRUE) /\ UNCHANGED <<errors, late>>
         /\ q \in Request /\ q.session = s /\ s = session /\ running /\ Answered(s, q.op)
         /\ run[s].at = "users" <=> q.op = "createUser"
         /\ run[s].at = "projects" => q.op = "createProject" /\ q.team = run[s].team
         /\ run[s].at = "backlog" => q.op = "createTask"
         /\ workers' \in [Team -> 0..WorkforceSize]
         /\ q.op = "createUser" => \A t \in Team : workers'[t] <= run[s].n + 1
         /\ q.op # "createUser" => UNCHANGED workers
         /\ projects' \in [Team -> 0..MaxMade]
         /\ q.op = "createProject" =>
              /\ projects' = [projects EXCEPT ![q.team] = @ + 1] /\ Owned' = Owned + 1
         /\ q.op # "createProject" => UNCHANGED projects /\ Owned' = Owned
         /\ tasks' \in [TaskId -> Status \cup {NULL}]
         /\ \A t \in TaskId : tasks'[t] = Noted(t)
<1>1. /\ TypeOK /\ OneRunAtATime /\ RunsFit /\ ProjectsExist /\ run[s].call # NULL
      /\ run[s].call.answer # NULL
  BY DEF SimInv, CallReturns
<1>2. /\ s = session /\ running /\ q \in Request /\ CallFits(s) /\ AnswerHolds(s) /\ WorkersCounted(s)
  BY <1>1, OnlyCurrent, RunFacts DEF RunsFit
<1>3. q.session = s /\ Answered(s, q.op) /\ GoesOn(s, TRUE) /\ UNCHANGED <<errors, late>>
  BY <1>1, <1>2 DEF CallFits, Answered, GoesOn, CallReturns
<1>4. /\ run[s].at = "users" <=> q.op = "createUser"
      /\ run[s].at = "projects" => q.op = "createProject" /\ q.team = run[s].team
      /\ run[s].at = "backlog" => q.op = "createTask"
  BY <1>1, <1>2 DEF CallFits
<1>5. /\ workers' = IF q.op = "createUser" THEN [workers EXCEPT ![q.team] = @ + 1] ELSE workers
      /\ projects' = IF q.op = "createProject" THEN [projects EXCEPT ![q.team] = @ + 1] ELSE projects
      /\ q.op = "createTask" => tasks' = [tasks EXCEPT ![run[s].call.answer] = "todo"]
      /\ q.op = "updateTaskStatus" => tasks' = [tasks EXCEPT ![q.task] = q.to]
      /\ q.op \notin {"createTask", "updateTaskStatus"} => tasks' = tasks
  <2>1. q.op = "updateTaskStatus" => run[s].call.answer = q.task
    BY <1>2, <1>3 DEF AnswerHolds
  <2> QED  BY <2>1 DEF CallReturns
<1>6. /\ workers' \in [Team -> 0..WorkforceSize]
      /\ q.op = "createUser" => \A t \in Team : workers'[t] <= run[s].n + 1
  <2>1. CASE q.op = "createUser"
    <3>1. /\ q.team \in Team /\ run[s].n \in Nat /\ run[s].n < WorkforceSize
          /\ \A t \in Team : workers[t] \in Nat /\ workers[t] <= run[s].n
      BY <1>1, <1>2, <1>4, <2>1, RequestFacts, RunFacts, Bounds DEF WorkersCounted, TypeOK
    <3>2. workers' = [workers EXCEPT ![q.team] = @ + 1] /\ workers \in [Team -> 0..WorkforceSize]
      BY <1>1, <1>5, <2>1 DEF TypeOK
    <3>3. workers[q.team] + 1 \in 0..WorkforceSize
      BY <3>1, Bounds
    <3>4. workers' \in [Team -> 0..WorkforceSize]
      BY <3>2, <3>3
    <3>5. \A t \in Team : workers'[t] <= run[s].n + 1
      BY <3>1, <3>2
    <3> QED  BY <3>4, <3>5
  <2>2. CASE q.op # "createUser"
    BY <1>1, <1>5, <2>2 DEF TypeOK
  <2> QED  BY <2>1, <2>2
<1>7. /\ projects' \in [Team -> 0..MaxMade]
      /\ q.op = "createProject" => Owned' = Owned + 1
  <2>1. CASE q.op = "createProject"
    <3>1. q.team \in Team /\ projects \in [Team -> 0..MaxMade] /\ apiMade[s] \in Nat /\ apiMade[s] <= MaxMade
      BY <1>1, <1>2, <2>1, RequestFacts, Bounds DEF TypeOK
    <3>2. Owned + 1 <= apiMade[s]
      BY <1>1, <1>2, <1>3, <2>1 DEF ProjectsExist, NotNoted
    <3>3. projects[q.team] \in Nat /\ projects[q.team] < MaxMade
      BY <3>1, <3>2, PartOfAll, PlacesFinite, Bounds
    <3>4. projects' = [projects EXCEPT ![q.team] = @ + 1]
      BY <1>5, <2>1
    <3>5. projects[q.team] + 1 \in 0..MaxMade
      BY <3>3, Bounds
    <3> QED  BY <3>1, <3>3, <3>4, <3>5, OneMore
  <2>2. CASE q.op # "createProject"
    BY <1>1, <1>5, <2>2 DEF TypeOK
  <2> QED  BY <2>1, <2>2
<1>8. q.op # "createProject" => UNCHANGED projects /\ Owned' = Owned
  BY <1>5 DEF Owned
<1>9. q.op = "createTask" => run[s].call.answer \in TaskId
  BY <1>2, <1>3 DEF AnswerHolds
<1>10. tasks \in [TaskId -> Status \cup {NULL}] /\ "todo" \in Status
  BY <1>1 DEF TypeOK, Status
<1>11. tasks' \in [TaskId -> Status \cup {NULL}]
  BY <1>2, <1>5, <1>9, <1>10, RequestFacts
<1>12. \A t \in TaskId : tasks'[t] = Noted(t)
  <2>1. \A op : Answered(session, op) <=> q.op = op
    BY <1>1, <1>2 DEF Answered
  <2> QED  BY <1>2, <1>5, <1>10, <2>1 DEF Noted
<1> QED  BY <1>2, <1>3, <1>4, <1>5, <1>6, <1>7, <1>8, <1>11, <1>12

LEMMA ReturnsKeepsInv ==
  ASSUME SimInv, NEW s \in Session, CallReturns(s)
  PROVE  SimInv'
<1>1. PICK q : q = run[s].call.request
  OBVIOUS
<1>2. /\ TypeOK /\ OneRunAtATime /\ FutureIsBlank /\ RunsFit /\ OwnTasks /\ ProjectLimits
      /\ ProjectsExist /\ InStep
  BY DEF SimInv
<1>3. /\ GoesOn(s, TRUE) /\ UNCHANGED <<errors, late>>
      /\ q \in Request /\ q.session = s /\ s = session /\ running /\ Answered(s, q.op)
      /\ run[s].at = "users" <=> q.op = "createUser"
      /\ run[s].at = "projects" => q.op = "createProject" /\ q.team = run[s].team
      /\ run[s].at = "backlog" => q.op = "createTask"
  BY <1>1, NoteFacts
<1>4. /\ run' \in [Session -> Run] /\ run'[s].call = NULL /\ Alive(s)'
      /\ \A r \in Session : r # s => run'[r] = run[r] /\ ~Alive(r) /\ run'[r].call = NULL
      /\ UNCHANGED <<running, phase, speed, session, cancelled, apiTasks, apiMade>>
  BY <1>3, GoesOnFacts DEF GoesOn, ctlVars, apiVars
<1>5. \A r \in Session : r # s => ~Alive(r)'
  BY <1>4 DEF Alive
<1>6. \A r \in Session : run'[r].call = NULL
  BY <1>4
<1>7. TypeOK'
  <2>1. /\ workers' \in [Team -> 0..WorkforceSize] /\ projects' \in [Team -> 0..MaxMade]
        /\ tasks' \in [TaskId -> Status \cup {NULL}]
    BY <1>1, NoteFacts
  <2> QED  BY <1>2, <1>3, <1>4, <1>5, <1>6, <2>1 DEF TypeOK
<1>8. OneRunAtATime'
  BY <1>2, <1>3, <1>4, <1>5 DEF OneRunAtATime
<1>9. FutureIsBlank'
  <2>1. \A r \in Session : r > session => r # s
    BY <1>3, Bounds DEF Session
  <2> QED  BY <1>2, <1>3, <1>4, <2>1 DEF FutureIsBlank
<1>10. /\ run[s].at \in {"users", "projects", "backlog", "loop"} /\ run[s].n \in Nat
       /\ run[s].team \in Nat /\ StageKeepsLimits(s)
       /\ \A t \in Team : t \in Nat /\ projects[t] \in Nat
  <2>1. run[s].at \in {"users", "projects", "backlog", "loop"}
    BY <1>3, GoesOnFacts
  <2>2. run[s].n \in Nat /\ run[s].team \in Team /\ StageKeepsLimits(s)
    BY <1>2, RunFacts DEF RunsFit
  <2>3. \A t \in Team : t \in Nat /\ projects[t] \in Nat
    BY <1>2, Bounds DEF Team, TypeOK
  <2> QED  BY <2>1, <2>2, <2>3
<1>11. WorkersCounted(s)'
  <2>1. run'[s].at = "users" =>
          run[s].at = "users" /\ run'[s].n = run[s].n + 1 /\ run[s].n + 1 < WorkforceSize
    BY <1>3, GoesOnFacts
  <2>2. q.op = "createUser" => \A t \in Team : workers'[t] <= run[s].n + 1
    BY <1>1, NoteFacts
  <2> QED  BY <1>3, <2>1, <2>2 DEF WorkersCounted
<1>12. /\ projects' \in [Team -> 0..MaxMade] /\ Owned \in Nat
       /\ q.op = "createProject" => projects' = [projects EXCEPT ![q.team] = @ + 1] /\ Owned' = Owned + 1
       /\ q.op # "createProject" => UNCHANGED projects /\ Owned' = Owned
       /\ projects \in [Team -> 0..MaxMade] /\ (q.op = "createProject" => q.team \in Team)
  BY <1>1, <1>2, <1>3, NoteFacts, PlacesFinite, RequestFacts DEF TypeOK
<1>13. StageKeepsLimits(s)' /\ ProjectLimits'
  <2>1. CASE run[s].at = "users"
    <3>1. run'[s].at \in {"users", "projects"} /\ UNCHANGED projects /\ Owned' = Owned
      BY <1>3, <1>12, <2>1, GoesOnFacts
    <3> QED  BY <1>2, <1>4, <1>10, <2>1, <3>1 DEF StageKeepsLimits, ProjectLimits
  <2>2. CASE run[s].at = "projects"
    <3>1. /\ run'[s].at = "backlog" /\ run'[s].team = run[s].team
          /\ projects' = [projects EXCEPT ![run[s].team] = @ + 1] /\ run[s].team \in Team
      BY <1>3, <1>12, <2>2, GoesOnFacts
    <3>2. /\ \A t \in Team : projects'[t] <= 1
          /\ \A t \in Team : t > run[s].team => projects'[t] = 0
      BY <1>10, <1>12, <2>2, <3>1 DEF StageKeepsLimits
    <3>3. Owned' <= TeamCount
      BY <1>12, <3>2, OneEach DEF Owned
    <3>4. Owned' \in Nat
      BY <1>12
    <3> QED  BY <1>4, <1>12, <3>1, <3>2, <3>3, <3>4, Bounds DEF StageKeepsLimits, ProjectLimits
  <2>3. CASE run[s].at = "backlog"
    <3>1. /\ UNCHANGED projects /\ Owned' = Owned
          /\ \/ run'[s].at = "backlog" /\ run'[s].team = run[s].team
             \/ run'[s].at = "check"
             \/ run'[s].at = "projects" /\ run'[s].team = run[s].team + 1
      BY <1>3, <1>12, <2>3, GoesOnFacts
    <3>2. \A t \in Team : t >= run[s].team + 1 => t > run[s].team
      BY <1>10
    <3> QED  BY <1>2, <1>4, <1>10, <2>3, <3>1, <3>2 DEF StageKeepsLimits, ProjectLimits
  <2>4. CASE run[s].at = "loop"
    <3>1. run'[s].at = "loop"
      BY <1>3, <2>4, GoesOnFacts
    <3>2. StageKeepsLimits(s)'
      BY <1>4, <3>1 DEF StageKeepsLimits
    <3>3. CASE q.op # "createProject"
      BY <1>2, <1>12, <3>2, <3>3 DEF ProjectLimits
    <3>4. CASE q.op = "createProject"
      <4>1. Owned < MaxProjects /\ projects[q.team] < 2
        BY <1>1, <1>3, <1>10, <2>4, <3>4 DEF StageKeepsLimits, GoesOn
      <4>2. Owned' <= MaxProjects
        BY <1>12, <3>4, <4>1, Bounds
      <4>3. \A t \in Team : projects'[t] <= 2
        BY <1>2, <1>10, <1>12, <3>4, <4>1 DEF ProjectLimits
      <4> QED  BY <3>2, <4>2, <4>3 DEF ProjectLimits
    <3> QED  BY <3>2, <3>3, <3>4
  <2> QED  BY <1>10, <2>1, <2>2, <2>3, <2>4
<1>14. RunsFit'
  <2>1. ASSUME NEW r \in Session PROVE CallFits(r)' /\ AnswerHolds(r)'
    BY <1>6 DEF CallFits, AnswerHolds, Answered
  <2>2. ASSUME NEW r \in Session, r # s PROVE WorkersCounted(r)' /\ StageKeepsLimits(r)'
    BY <1>5, <1>6, <2>2 DEF WorkersCounted, StageKeepsLimits, Alive
  <2> QED  BY <1>11, <1>13, <2>1, <2>2 DEF RunsFit
<1>15. \A t \in TaskId : tasks'[t] = Noted(t)
  BY <1>1, NoteFacts
<1>16. OwnTasks'
  <2>1. AnswerHolds(s) /\ OwnTask(q)
    BY <1>1, <1>2, <1>3 DEF RunsFit, OwnTasks, GoesOn
  <2>2. ASSUME NEW t \in TaskId, Noted(t) # NULL
        PROVE  apiTasks[t] # NULL /\ apiTasks[t].session = session
    <3>1. CASE Answered(session, "createTask") /\ run[session].call.answer = t
      BY <1>3, <2>1, <3>1 DEF AnswerHolds
    <3>2. CASE Answered(session, "updateTaskStatus") /\ run[session].call.request.task = t
      BY <1>1, <1>3, <2>1, <3>2 DEF OwnTask, Answered
    <3>3. CASE Noted(t) = tasks[t]
      BY <1>2, <1>3, <2>2, <3>3 DEF OwnTasks
    <3> QED  BY <3>1, <3>2, <3>3 DEF Noted
  <2> QED  BY <1>2, <1>3, <1>4, <1>6, <1>15, <2>2 DEF OwnTasks, OwnTask
<1>17. NotNoted' = 0 /\ NotNoted = IF q.op = "createProject" THEN 1 ELSE 0
  BY <1>1, <1>3, <1>4 DEF NotNoted, Answered
<1>18. Owned' + NotNoted' = Owned + NotNoted
  BY <1>12, <1>17
<1>19. ProjectsExist'
  BY <1>2, <1>4, <1>18 DEF ProjectsExist
<1>20. InStep'
  <2>1. \A t \in TaskId : Known(t) => Known(t)'
    <3>1. \A op : ~Answered(session, op)'
      BY <1>3, <1>4 DEF Answered
    <3>2. \A t \in TaskId : Noted(t)' = Noted(t)
      BY <1>4, <1>15, <3>1 DEF Noted
    <3> QED  BY <1>4, <3>2 DEF Known
  <2> QED  BY <1>2, <1>3, <1>4, <1>18, <2>1 DEF InStep
<1> QED  BY <1>7, <1>8, <1>9, <1>13, <1>14, <1>16, <1>19, <1>20 DEF SimInv

-----------------------------------------------------------------------------
(* Start, Stop, the end of a run, and the process                          *)

\* Nothing runs: of the parts of SimInv, those about a run under way say nothing.
LEMMA StoppedKeepsInv ==
  ASSUME SimInv, TypeOK', OneRunAtATime', running' = FALSE,
         UNCHANGED <<session, apiTasks, apiMade>>,
         \A s \in Session : run'[s] = run[s] \/ s <= session,
         late' \subseteq late \cup {run[s].call.request : s \in {r \in Session : run[r].call # NULL}},
         ProjectLimits'
  PROVE  SimInv'
<1>1. TypeOK /\ OneRunAtATime /\ FutureIsBlank /\ RunsFit /\ OwnTasks
  BY DEF SimInv
<1>2. \A s \in Session : ~Alive(s)' /\ run'[s].call = NULL
  BY DEF OneRunAtATime, TypeOK
<1>3. \A request \in late' : request.session <= session /\ OwnTask(request)
  <2>1. ASSUME NEW s \in Session, run[s].call # NULL
        PROVE  run[s].call.request.session <= session /\ OwnTask(run[s].call.request)
    <3>1. s = session /\ run[s].call.request.session = s
      BY <1>1, <2>1, OnlyCurrent DEF RunsFit, CallFits
    <3> QED  BY <1>1, <2>1, <3>1, Bounds DEF OwnTasks, Session
  <2>2. \A request \in late : request.session <= session /\ OwnTask(request)
    BY <1>1 DEF FutureIsBlank, OwnTasks
  <2> QED  BY <2>1, <2>2
<1>4. FutureIsBlank'
  <2>1. \A s \in Session : s > session => run'[s] = run[s]
    BY <1>1, Bounds DEF Session, TypeOK
  <2> QED  BY <1>1, <1>3, <2>1 DEF FutureIsBlank
<1>5. RunsFit'
  BY <1>2 DEF RunsFit, CallFits, AnswerHolds, Answered, WorkersCounted, StageKeepsLimits, Alive
<1>6. OwnTasks'
  BY <1>2, <1>3 DEF OwnTasks, OwnTask
<1>7. ProjectsExist' /\ InStep'
  BY DEF ProjectsExist, InStep
<1> QED  BY <1>4, <1>5, <1>6, <1>7 DEF SimInv

LEMMA EndsKeepsInv ==
  ASSUME SimInv, NEW s \in Session, RunEnds(s)
  PROVE  SimInv'
<1>1. TypeOK /\ OneRunAtATime /\ ProjectLimits /\ Alive(s) /\ s = session /\ running
  BY OnlyCurrent DEF SimInv, RunEnds, Alive
<1>2. /\ run' = [run EXCEPT ![s] = At("ended", 0, 1)] /\ running' = FALSE /\ phase' = "stopped"
      /\ UNCHANGED <<speed, session, cancelled, workers, projects, tasks, errors, apiTasks, apiMade, late>>
  BY <1>1 DEF RunEnds, Ended, ownVars, apiVars
<1>3. /\ At("ended", 0, 1) \in Run /\ At("ended", 0, 1).at = "ended" /\ At("ended", 0, 1).call = NULL
  BY AtFacts, Bounds DEF Team
<1>4. /\ run' \in [Session -> Run] /\ \A r \in Session : ~Alive(r)' /\ run'[r].call = NULL
      /\ \A r \in Session : run'[r] = run[r] \/ r <= session
  <2>1. \A r \in Session : r # s => ~Alive(r) /\ run[r].call = NULL
    BY <1>1, OnlyCurrent
  <2>2. run' \in [Session -> Run] /\ run'[s] = At("ended", 0, 1)
        /\ \A r \in Session : r # s => run'[r] = run[r]
    BY <1>1, <1>2, <1>3 DEF TypeOK
  <2>3. s <= session
    BY <1>1, Bounds DEF Session
  <2> QED  BY <1>3, <2>1, <2>2, <2>3 DEF Alive
<1>5. TypeOK'
  BY <1>1, <1>2, <1>4 DEF TypeOK
<1>6. OneRunAtATime'
  BY <1>2, <1>4 DEF OneRunAtATime
<1>7. ProjectLimits'
  BY <1>1, <1>2 DEF ProjectLimits, Owned
<1>8. late' \subseteq late \cup {run[r].call.request : r \in {r \in Session : run[r].call # NULL}}
  BY <1>2
<1> QED  BY <1>2, <1>4, <1>5, <1>6, <1>7, <1>8, StoppedKeepsInv

\* The engine owns nothing.
LEMMA ForgetFacts ==
  ASSUME ForgetRun
  PROVE  /\ workers' \in [Team -> 0..WorkforceSize] /\ projects' \in [Team -> 0..MaxMade]
         /\ tasks' = NoTasks /\ tasks' \in [TaskId -> Status \cup {NULL}] /\ errors' = FALSE
         /\ \A t \in Team : workers'[t] = 0 /\ projects'[t] = 0
         /\ Owned' = 0 /\ ProjectLimits'
<1>1. /\ workers' = [t \in Team |-> 0] /\ projects' = [t \in Team |-> 0]
      /\ tasks' = NoTasks /\ errors' = FALSE
  BY DEF ForgetRun
<1>2. Owned' = 0
  BY <1>1, NoneAtAll DEF Owned
<1> QED  BY <1>1, <1>2, Bounds DEF NoTasks, ProjectLimits

LEMMA RestartKeepsInv ==
  ASSUME SimInv, Restart
  PROVE  SimInv'
<1>1. TypeOK /\ OneRunAtATime
  BY DEF SimInv
<1>2. /\ running' = FALSE /\ phase' = "stopped" /\ speed' = 4 /\ ForgetRun
      /\ run' = [s \in Session |-> IF Alive(s) THEN At("ended", 0, 1) ELSE run[s]]
      /\ late' \subseteq late \cup {run[s].call.request : s \in {r \in Session : run[r].call # NULL}}
      /\ UNCHANGED <<session, cancelled, apiTasks, apiMade>>
  BY DEF Restart, apiVars
<1>3. /\ At("ended", 0, 1) \in Run /\ At("ended", 0, 1).at = "ended" /\ At("ended", 0, 1).call = NULL
  BY AtFacts, Bounds DEF Team
<1>4. run' \in [Session -> Run] /\ \A s \in Session : ~Alive(s)' /\ run'[s].call = NULL
  BY <1>1, <1>2, <1>3 DEF TypeOK, Alive
<1>5. \A s \in Session : run'[s] = run[s] \/ s <= session
  <2>1. \A s \in Session : Alive(s) => s <= session
    BY <1>1, Bounds DEF OneRunAtATime, Session
  <2> QED  BY <1>2, <2>1
<1>6. late' \subseteq Request
  <2>1. late \subseteq Request
    BY <1>1 DEF TypeOK
  <2>2. \A s \in Session : run[s].call # NULL => run[s].call.request \in Request
    BY <1>1, RunFacts
  <2> QED  BY <1>2, <2>1, <2>2
<1>7. TypeOK'
  <2>1. speed' \in 1..40 /\ session' \in 0..MaxSession /\ cancelled' \in SUBSET Session
    BY <1>1, <1>2 DEF TypeOK
  <2>2. /\ workers' \in [Team -> 0..WorkforceSize] /\ projects' \in [Team -> 0..MaxMade]
        /\ tasks' \in [TaskId -> Status \cup {NULL}] /\ errors' \in BOOLEAN
    BY <1>2, ForgetFacts
  <2>3. /\ apiTasks' \in [TaskId -> ApiTask \cup {NULL}]
        /\ apiMade' \in [Session -> 0..MaxMade]
    BY <1>1, <1>2 DEF TypeOK
  <2> QED  BY <1>2, <1>4, <1>6, <2>1, <2>2, <2>3 DEF TypeOK
<1>8. OneRunAtATime'
  BY <1>2, <1>4 DEF OneRunAtATime
<1> QED  BY <1>2, <1>5, <1>7, <1>8, ForgetFacts, StoppedKeepsInv

LEMMA StartKeepsInv ==
  ASSUME SimInv, Start
  PROVE  SimInv'
<1>1. /\ TypeOK /\ OneRunAtATime /\ FutureIsBlank /\ RunsFit /\ OwnTasks
      /\ session + 1 \in Session /\ session \in Nat
  <2>1. /\ TypeOK /\ OneRunAtATime /\ FutureIsBlank /\ RunsFit /\ OwnTasks
    BY DEF SimInv
  <2>2. session \in 0..MaxSession /\ session < MaxSession
    BY <2>1 DEF Start, TypeOK
  <2>3. session + 1 \in Session /\ session \in Nat
    BY <2>2, Bounds DEF Session
  <2> QED  BY <2>1, <2>3
<1>2. PICK s \in Session : s = session + 1
  BY <1>1
<1>3. /\ ~running /\ running' = TRUE /\ phase' = "initializing" /\ session' = s /\ ForgetRun
      /\ run' = [run EXCEPT ![s] = At("users", 0, 1)]
      /\ UNCHANGED <<speed, cancelled, apiTasks, apiMade, late>>
  BY <1>2 DEF Start, apiVars
<1>4. /\ At("users", 0, 1) \in Run /\ At("users", 0, 1).at = "users" /\ At("users", 0, 1).call = NULL
      /\ At("users", 0, 1).n = 0
  BY AtFacts, Bounds DEF Team
<1>5. /\ run' \in [Session -> Run] /\ run'[s].at = "users" /\ run'[s].n = 0 /\ Alive(s)'
      /\ \A r \in Session : r # s => run'[r] = run[r] /\ ~Alive(r)'
      /\ \A r \in Session : run'[r].call = NULL
  <2>1. \A r \in Session : ~Alive(r) /\ run[r].call = NULL
    BY <1>1, <1>3, OnlyCurrent
  <2> QED  BY <1>1, <1>3, <1>4, <2>1 DEF TypeOK, Alive
<1>6. TypeOK'
  <2>1. session' \in 0..MaxSession
    BY <1>3, Bounds DEF Session
  <2> QED  BY <1>1, <1>3, <1>5, <2>1, ForgetFacts DEF TypeOK
<1>7. OneRunAtATime'
  BY <1>3, <1>5 DEF OneRunAtATime
<1>8. \A request \in late : request.session <= session /\ request.session \in Nat
  <2>1. late \subseteq Request /\ Session \subseteq Nat
    BY <1>1 DEF TypeOK, Session
  <2> QED  BY <1>1, <2>1, RequestFacts DEF FutureIsBlank
<1>9. \A t \in TaskId : apiTasks[t] # NULL =>
        apiTasks[t].session <= session /\ apiTasks[t].session \in Nat
  <2>1. \A t \in TaskId : apiTasks[t] # NULL => apiTasks[t].session \in Session
    BY <1>1 DEF TypeOK, ApiTask
  <2> QED  BY <1>1, <2>1 DEF FutureIsBlank, Session
<1>10. FutureIsBlank'
  <2>1. \A r \in Session : r > s => r > session /\ r # s
    BY <1>1, <1>2 DEF Session
  <2> QED  BY <1>1, <1>2, <1>3, <1>5, <1>8, <1>9, <2>1 DEF FutureIsBlank
<1>11. RunsFit'
  <2>1. ASSUME NEW r \in Session PROVE CallFits(r)' /\ AnswerHolds(r)'
    BY <1>5 DEF CallFits, AnswerHolds, Answered
  <2>2. ASSUME NEW r \in Session PROVE WorkersCounted(r)' /\ StageKeepsLimits(r)'
    <3>1. CASE r = s
      BY <1>3, <1>5, <3>1, ForgetFacts, Bounds DEF WorkersCounted, StageKeepsLimits
    <3>2. CASE r # s
      BY <1>5, <3>2 DEF WorkersCounted, StageKeepsLimits, Alive
    <3> QED  BY <3>1, <3>2
  <2> QED  BY <2>1, <2>2 DEF RunsFit
<1>12. OwnTasks'
  <2>1. \A t \in TaskId : tasks'[t] = NULL
    BY <1>3, ForgetFacts DEF NoTasks
  <2> QED  BY <1>1, <1>3, <1>5, <2>1 DEF OwnTasks, OwnTask
<1>13. /\ apiMade[s] = 0 /\ Owned' = 0 /\ NotNoted' = 0 /\ ProjectLimits'
  <2>1. apiMade[s] = 0
    BY <1>1, <1>2 DEF FutureIsBlank
  <2>2. NotNoted' = 0
    BY <1>3, <1>5 DEF NotNoted, Answered
  <2> QED  BY <1>3, <2>1, <2>2, ForgetFacts
<1>14. ProjectsExist'
  BY <1>3, <1>13 DEF ProjectsExist
<1>15. InStep'
  <2>1. \A t \in TaskId : Noted(t)' = NULL
    BY <1>3, <1>5, ForgetFacts DEF Noted, Answered, NoTasks
  <2>2. \A t \in TaskId : Known(t)'
    BY <1>1, <1>2, <1>3, <1>9, <2>1 DEF Known
  <2>3. \A request \in late' : request.session # s
    BY <1>1, <1>2, <1>3, <1>8
  <2> QED  BY <1>3, <1>13, <2>2, <2>3 DEF InStep
<1> QED  BY <1>6, <1>7, <1>10, <1>11, <1>12, <1>13, <1>14, <1>15 DEF SimInv

\* Stop and SetSpeed touch nothing that a run or the API has.
LEMMA ControlKeepsInv ==
  ASSUME SimInv, Stop \/ (\E v \in InputSpeed : SetSpeed(v)) \/ UNCHANGED vars
  PROVE  SimInv'
<1>1. /\ UNCHANGED <<running, session, workers, projects, tasks, errors, run, apiTasks, apiMade, late>>
      /\ \/ phase' = phase
         \/ running /\ phase' = "stopping"
  BY DEF Stop, SetSpeed, vars, ctlVars, ownVars, apiVars
<1>2. speed' \in 1..40 /\ cancelled' \in SUBSET Session
  <2>1. SimInv /\ InputSpeed \subseteq Nat
    BY ConstantsAssumption
  <2>2. running => session \in Session
    BY <2>1 DEF SimInv, OneRunAtATime
  <2> QED  BY SMTT(30), <2>1, <2>2 DEF Stop, SetSpeed, vars, ctlVars, SimInv, TypeOK
<1>3. TypeOK'
  BY <1>1, <1>2 DEF SimInv, TypeOK, Alive
<1>4. OneRunAtATime'
  BY <1>1 DEF SimInv, OneRunAtATime, Alive
<1>5. Owned' = Owned /\ NotNoted' = NotNoted
  BY <1>1 DEF Owned, NotNoted, Answered
<1>6. FutureIsBlank' /\ OwnTasks' /\ ProjectLimits' /\ ProjectsExist'
  BY <1>1, <1>5 DEF SimInv, FutureIsBlank, OwnTasks, OwnTask, ProjectLimits, ProjectsExist
<1>7. RunsFit'
  BY <1>1, <1>5 DEF SimInv, RunsFit, CallFits, AnswerHolds, Answered, WorkersCounted, StageKeepsLimits
<1>8. InStep'
  <2>1. \A t \in TaskId : Known(t) => Known(t)'
    BY <1>1 DEF Known, Noted, Answered
  <2> QED  BY <1>1, <1>5, <2>1 DEF SimInv, InStep
<1> QED  BY <1>3, <1>4, <1>6, <1>7, <1>8 DEF SimInv

-----------------------------------------------------------------------------
(* The theorems                                                            *)

\* The inductive invariant: the engine, the runs and what the API has of them
\* fit together in every state (Engine of internal/simulator/engine.go).
THEOREM SimulatorInvariant == Spec => []SimInv
<1>1. SimInv /\ [Next]_vars => SimInv'
  BY ConstantsAssumption, StartKeepsInv, ControlKeepsInv, RestartKeepsInv, LateKeepsInv,
     OthersKeepInv, ServeKeepsInv, EndsKeepsInv,
     BootstrapKeepsInv, SkipKeepsInv, EnterKeepsInv, ActionKeepsInv, ReturnsKeepsInv, FailsKeepsInv
     DEF Next
<1> QED  BY InitSim, <1>1, PTL DEF Spec

\* Start, Stop and the deferred end of a run: one goroutine at a time, and the
\* phase says whether there is one.
THEOREM OneRunAtATimeAlways == Spec => []EngineInv
<1>1. SimInv => EngineInv
  BY DEF SimInv, EngineInv
<1> QED  BY SimulatorInvariant, <1>1, PTL

\* The engine changes tasks of its own run only, late requests included.
THEOREM OnlyOwnTasks == Spec => []OwnTasksOnly
<1>1. SimInv => OwnTasksOnly
  BY DEF SimInv, OwnTasks, OwnTask, OwnTasksOnly
<1> QED  BY SimulatorInvariant, <1>1, PTL

\* createAnotherProject keeps to maxProjects and to two projects for a team.
THEOREM LimitsAreKept == Spec => []ProjectLimits
<1>1. SimInv => ProjectLimits
  BY DEF SimInv
<1> QED  BY SimulatorInvariant, <1>1, PTL

\* While no error is counted and nothing is under way, the engine knows the tasks
\* and projects that the API has of its run, and the status of every task that no
\* other editor has moved since (createTask and progressTask of engine.go against
\* updateTaskStatus of server.go, which anybody may call).
THEOREM NoSilentDrift == Spec => []DriftIsCounted
<1>1. SimInv => DriftIsCounted
  <2> SUFFICES ASSUME SimInv, running, ~errors, run[session].call = NULL
               PROVE  DriftIsCounted
    BY DEF DriftIsCounted
  <2>1. NotNoted = 0 /\ \A t \in TaskId : Noted(t) = tasks[t]
    BY DEF NotNoted, Noted, Answered
  <2>2. apiMade[session] = Owned /\ \A t \in TaskId : Known(t)
    BY <2>1, PlacesFinite DEF SimInv, InStep
  <2> QED  BY <2>1, <2>2 DEF DriftIsCounted, Known
<1> QED  BY SimulatorInvariant, <1>1, PTL
=============================================================================
