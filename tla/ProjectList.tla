---------------------------- MODULE ProjectList ----------------------------
(***************************************************************************)
(* The project select of a tab (internal/app/web/app.js) shows the number  *)
(* of tasks of each project.  The numbers come with the list of projects   *)
(* (listProjects), which is read at the start and after a project was      *)
(* created; in between applyTask adds one for every task that it puts on   *)
(* the board for the first time.  Everything else is BoardClient.          *)
(***************************************************************************)
EXTENDS BoardClient

\* count(t.id) counts the rows of a table.
ASSUME TasksAssumption == IsFiniteSet(Task)

VARIABLES
  task_count,  \* state.projects: the number shown for each project
  listing,     \* the answer of listProjects under way to loadProjects, or NULL
  early        \* a task was added to the board while a board was loading

listVars == <<task_count, listing, early>>
allVars  == <<vars, listVars>>

TasksOf(p) == {t \in Task : ProjectOf[t] = p /\ db[t] > 0}

\* listProjects: count(t.id) by project.
Counts == [p \in Project |-> Cardinality(TasksOf(p))]

ListInit ==
  /\ Init
  /\ task_count = Counts
  /\ listing = NULL
  /\ early = FALSE

\* Mutant: every applied snapshot is counted.
Applied(t) == board'[t] > board[t]

\* The task was not on the board, and applyTask puts it there.
Created(t) == board[t] = 0 /\ board'[t] > 0

\* updateProjectTaskCount, called by applyTask.
CountCreated ==
  /\ task_count' = [p \in Project |->
       task_count[p] + Cardinality({t \in Task : ProjectOf[t] = p /\ Created(t)})]
  /\ early' = (early \/ /\ \E i \in Load : loads[i] # Free
                        /\ \E t \in Task : Created(t))
  /\ UNCHANGED listing

\* An event is applied, or the answer to an own write.
ApplyStep ==
  /\ ReceiveEvent \/ \E e \in replies : ReplyArrives(e)
  /\ CountCreated

\* listProjects answers the loadProjects that follows the creation of a project.
ServeList ==
  /\ listing = NULL
  /\ listing' = Counts
  /\ UNCHANGED <<vars, task_count, early>>

\* loadProjects after its await: the new list, its project selected.
OpenListed(p) ==
  /\ listing # NULL
  /\ OpenCreatedProject(p)
  /\ task_count' = listing
  /\ listing' = NULL
  /\ UNCHANGED early

\* What leaves the list of projects alone.
OtherStep ==
  /\ \/ \E t \in Task : OthersWrite(t) \/ OwnWrite(t)
     \/ \E e \in Event : Broadcast(e)
     \/ \E i \in Load : ServeLoad(i) \/ LoadReturns(i) \/ LoadFails(i)
     \/ Reload
     \/ \E p \in Project : SelectProject(p)
     \/ \E e \in replies : ReplyFails(e)
     \/ SocketStep
  /\ UNCHANGED listVars

ListNext ==
  \/ ApplyStep
  \/ ServeList
  \/ \E p \in Project : OpenListed(p)
  \/ OtherStep

ListSpec == ListInit /\ [][ListNext]_allVars

-----------------------------------------------------------------------------
(* Properties                                                              *)

\* No load failed, and none took a task off the board again.
LoadsHarmless == races \cap {"failed", "overwritten"} = {}

\* The select never shows more tasks than the project has, whatever is late or
\* delivered twice, unless a task came on to the board, by an event or by the
\* answer to an own write, while a board was loading.
CountedOnceWhenLoaded ==
  LoadsHarmless /\ ~early =>
    \A p \in Project : task_count[p] <= Cardinality(TasksOf(p))
=============================================================================
