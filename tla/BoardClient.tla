---------------------------- MODULE BoardClient ----------------------------
(***************************************************************************)
(* A browser tab (internal/app/web/app.js) against the services it talks   *)
(* to: the REST API, whose answers take time and may overtake each other,  *)
(* and one WebSocket to the realtime service.  The browser's callbacks run *)
(* one at a time; everything it waits for is a step of somebody else.      *)
(*                                                                         *)
(* A task snapshot is its version, which determines the rest (TaskStore).  *)
(* The services are reduced to what the tab sees of them: committed        *)
(* versions, one event per version that the topic delivers at least once   *)
(* and in any order (EventFeed), and a connection that the hub closes      *)
(* whenever it loses an event (RealtimeHub).                               *)
(***************************************************************************)
EXTENDS Integers, Sequences, FiniteSets

CONSTANTS
  Task,
  Project,
  ProjectOf,   \* the project of each task
  MaxVersion,  \* bound: versions of a task
  MaxLoads,    \* bound: loadBoard calls under way at once
  MaxQueue,    \* bound: messages on the socket in each direction
  MaxConnects, \* bound: connectRealtime calls that await a token at once
  NULL

Load == 1..MaxLoads

ASSUME ConstantsAssumption ==
  /\ ProjectOf \in [Task -> Project]
  /\ MaxVersion \in Nat
  /\ MaxLoads \in Nat \ {0}
  /\ MaxQueue \in Nat \ {0}
  /\ MaxConnects \in Nat \ {0}
  /\ {NULL, "authenticate"} \cap Project = {}

VARIABLES
  db,         \* committed version of each task, 0 when there is none
  unsent,     \* events <<task, version>> that were never broadcast
  projectId,  \* state.projectId
  board,      \* state.tasks: version shown of each task, 0 when not shown
  loads,      \* loadBoard calls: project, snapshot or NULL, what follows
  replies,    \* answers to this tab's own writes, on their way
  socket,     \* state.realtime.socket: none, connecting, open, ready, closed
  toHub,      \* messages from the tab on the socket
  toTab,      \* messages to the tab on the socket
  sub,        \* the project the hub has this connection subscribed to, or NULL
  waiting,    \* calls of connectRealtime that await refreshTokenIfNeeded
  races       \* what has happened that can leave the board behind

dataVars   == <<db, unsent>>
socketVars == <<socket, toHub, toTab, sub, waiting>>
vars       == <<dataVars, projectId, board, loads, replies, socketVars, races>>

Version  == 0..MaxVersion
Event    == Task \X (Version \ {0})
Snapshot == [Task -> Version]
Asked(p, next) == [project |-> p, snapshot |-> NULL, after |-> next]
Free     == Asked(NULL, "nothing")
Ready    == <<"ready", 0>>

\* The tab's state and the messages on its socket have their types: every
\* subscription names a project.
TypeOK ==
  /\ db \in Snapshot
  /\ unsent \subseteq Event
  /\ projectId \in Project
  /\ board \in Snapshot
  /\ loads \in [Load -> [project : Project \cup {NULL},
                         snapshot : Snapshot \cup {NULL},
                         after : {"nothing", "subscribe", "connect"}]]
  /\ replies \subseteq Event
  /\ socket \in {"none", "connecting", "open", "ready", "closed"}
  /\ toHub \in Seq(Project \cup {"authenticate"})
  /\ toTab \in Seq(Event \cup {Ready})
  /\ sub \in Project \cup {NULL}
  /\ waiting \in 0..MaxConnects
  /\ races \subseteq {"overwritten", "skipped", "failed"}

\* start(): signed in, the projects loaded, their first board asked for.
Init ==
  /\ db = [t \in Task |-> 0]
  /\ unsent = {}
  /\ projectId \in Project
  /\ board = [t \in Task |-> 0]
  /\ loads = [i \in Load |-> IF i = 1 THEN Asked(projectId, "connect") ELSE Free]
  /\ replies = {}
  /\ socket = "none"
  /\ toHub = << >>
  /\ toTab = << >>
  /\ sub = NULL
  /\ waiting = 0
  /\ races = {}

-----------------------------------------------------------------------------
(* The services                                                            *)

Committed(t) ==
  /\ db[t] < MaxVersion
  /\ db' = [db EXCEPT ![t] = @ + 1]
  /\ unsent' = unsent \cup {<<t, db[t] + 1>>}

\* Somebody else creates or changes a task.
OthersWrite(t) ==
  /\ Committed(t)
  /\ UNCHANGED <<projectId, board, loads, replies, socketVars, races>>

\* No later answer to loadBoard will show what is committed now.
NothingToCome ==
  /\ socket = "ready"
  /\ waiting = 0
  /\ \A i \in Load : ~(loads[i].project = projectId /\ loads[i].snapshot = NULL)

\* The realtime service broadcasts an event, perhaps not for the first time.
Broadcast(e) ==
  /\ e[2] <= db[e[1]]
  /\ Len(toTab) < MaxQueue
  /\ unsent' = unsent \ {e}
  /\ toTab' = IF sub = ProjectOf[e[1]] THEN Append(toTab, e) ELSE toTab
  /\ races' = IF sub # projectId /\ ProjectOf[e[1]] = projectId /\ NothingToCome
              THEN races \cup {"skipped"} ELSE races
  /\ UNCHANGED <<db, projectId, board, loads, replies, socket, toHub, sub, waiting>>

\* listTasks answers a loadBoard with the tasks of its project.
ServeLoad(i) ==
  /\ loads[i].project # NULL
  /\ loads[i].snapshot = NULL
  /\ loads' = [loads EXCEPT ![i].snapshot =
                 [t \in Task |-> IF ProjectOf[t] = loads[i].project THEN db[t] ELSE 0]]
  /\ UNCHANGED <<dataVars, projectId, board, replies, socketVars, races>>

\* The hub reads the next message of the tab.
HubReads ==
  /\ socket \in {"open", "ready"}
  /\ toHub # << >>
  /\ toHub' = Tail(toHub)
  /\ IF Head(toHub) = "authenticate"
     THEN toTab' = Append(toTab, Ready) /\ UNCHANGED sub
     ELSE sub' = Head(toHub) /\ UNCHANGED toTab
  /\ UNCHANGED <<dataVars, projectId, board, loads, replies, socket, waiting, races>>

-----------------------------------------------------------------------------
(* loadBoard and applyTask                                                 *)

\* loadBoard up to its await.
StartLoad(project, after) ==
  \E i \in Load :
    /\ loads[i] = Free
    /\ \A j \in 1..(i - 1) : loads[j] # Free
    /\ loads' = [loads EXCEPT ![i] = Asked(project, after)]

\* subscribeToCurrentProject, with readyState OPEN or not.
SubscribeTo(project) ==
  /\ Len(toHub) < MaxQueue
  /\ toHub' = IF socket \in {"open", "ready"} THEN Append(toHub, project) ELSE toHub

\* connectRealtime up to its await.
AwaitToken ==
  /\ waiting < MaxConnects
  /\ waiting' = waiting + 1

\* connectRealtime after its await: a socket of a new generation.  Messages of
\* the one it replaces are ignored from here on.
NewSocket ==
  /\ socket' = "connecting"
  /\ toHub' = << >>
  /\ toTab' = << >>
  /\ sub' = NULL

\* Mutant: start does not connect.
SubscribeAfter(after) ==
  \/ /\ after # "subscribe"
     /\ UNCHANGED socketVars
  \/ /\ after = "subscribe"
     /\ SubscribeTo(projectId)
     /\ UNCHANGED <<socket, toTab, sub, waiting>>

\* Mutant: the project form leaves the subscription alone.
ConnectAfter(after) ==
  \/ /\ after # "connect"
     /\ UNCHANGED socketVars
  \/ /\ after = "connect"
     /\ AwaitToken
     /\ UNCHANGED <<socket, toHub, toTab, sub>>

\* What runs once a loadBoard has returned.
Continue(after) ==
  \/ /\ after = "nothing"
     /\ UNCHANGED socketVars
  \/ /\ after = "subscribe"
     /\ SubscribeTo(projectId)
     /\ UNCHANGED <<socket, toTab, sub, waiting>>
  \/ /\ after = "connect"
     /\ AwaitToken
     /\ UNCHANGED <<socket, toHub, toTab, sub>>

\* Mutant: the answer is used whatever is selected by now.
AlwaysWanted(i) == TRUE

\* Another project was selected while the board loaded: the answer is not used.
StillWanted(i) == loads[i].project = projectId

\* loadBoard after its await.
LoadReturns(i) ==
  /\ loads[i].snapshot # NULL
  /\ loads' = [loads EXCEPT ![i] = Free]
  /\ board' = IF StillWanted(i) THEN loads[i].snapshot ELSE board
  /\ races' = IF StillWanted(i) /\ \E t \in Task : /\ ProjectOf[t] = projectId
                                                   /\ loads[i].snapshot[t] < board[t]
              THEN races \cup {"overwritten"} ELSE races
  /\ Continue(loads[i].after)
  /\ UNCHANGED <<dataVars, projectId, replies>>

\* The request fails: showError, and nothing that was to follow.
LoadFails(i) ==
  /\ loads[i].project # NULL
  /\ loads' = [loads EXCEPT ![i] = Free]
  /\ races' = races \cup {"failed"}
  /\ UNCHANGED <<dataVars, projectId, board, replies, socketVars>>

\* Mutant: versions are not compared.
applyAnyVersion(t, v) ==
  board' = IF ProjectOf[t] = projectId THEN [board EXCEPT ![t] = v] ELSE board

applyTask(t, v) ==
  board' = IF ProjectOf[t] = projectId /\ board[t] < v
           THEN [board EXCEPT ![t] = v] ELSE board

-----------------------------------------------------------------------------
(* The tab's callbacks                                                     *)

\* visibilitychange, or a change of status that failed.
Reload ==
  /\ StartLoad(projectId, "nothing")
  /\ UNCHANGED <<dataVars, projectId, board, replies, socketVars, races>>

\* The project select: subscribe, then load.
SelectProject(p) ==
  /\ p # projectId
  /\ projectId' = p
  /\ SubscribeTo(p)
  /\ StartLoad(p, "nothing")
  /\ UNCHANGED <<dataVars, board, replies, socket, toTab, sub, waiting, races>>

\* The project form, once the new project and the list have been answered:
\* load, then subscribe.
OpenCreatedProject(p) ==
  /\ p # projectId
  /\ projectId' = p
  /\ StartLoad(p, "subscribe")
  /\ UNCHANGED <<dataVars, board, replies, socketVars, races>>

\* The tab's own POST of a task, or PATCH of one it shows, commits, and its
\* answer sets out.
OwnWrite(t) ==
  /\ ProjectOf[t] = projectId
  /\ db[t] = 0 \/ board[t] > 0
  /\ Committed(t)
  /\ replies' = replies \cup {<<t, db[t] + 1>>}
  /\ UNCHANGED <<projectId, board, loads, socketVars, races>>

ReplyArrives(e) ==
  /\ e \in replies
  /\ replies' = replies \ {e}
  /\ applyTask(e[1], e[2])
  /\ UNCHANGED <<dataVars, projectId, loads, socketVars, races>>

\* The answer is lost: showError, and after a PATCH a reload.
ReplyFails(e) ==
  /\ e \in replies
  /\ replies' = replies \ {e}
  /\ IF e[2] = 1 THEN UNCHANGED loads ELSE StartLoad(projectId, "nothing")
  /\ UNCHANGED <<dataVars, projectId, board, socketVars, races>>

\* Mutant: the close handler sets no timer.
ConnectNever ==
  /\ FALSE
  /\ UNCHANGED vars

\* The retry timer of a closed socket, or the browser is online again.
Connect ==
  /\ socket = "closed"
  /\ AwaitToken
  /\ UNCHANGED <<dataVars, projectId, board, loads, replies, socket, toHub, toTab, sub, races>>

\* The browser is online again before start has connected.
ConnectEarly ==
  /\ socket = "none"
  /\ AwaitToken
  /\ UNCHANGED <<dataVars, projectId, board, loads, replies, socket, toHub, toTab, sub, races>>

\* A connectRealtime has its token; another may have connected meanwhile.
ConnectGoesOn ==
  /\ waiting > 0
  /\ waiting' = waiting - 1
  /\ NewSocket
  /\ UNCHANGED <<dataVars, projectId, board, loads, replies, races>>

SocketOpens ==
  /\ socket = "connecting"
  /\ socket' = "open"
  /\ toHub' = Append(toHub, "authenticate")
  /\ UNCHANGED <<dataVars, projectId, board, loads, replies, toTab, sub, waiting, races>>

\* The connection is lost, with what is on its way; the hub forgets it.
SocketCloses ==
  /\ socket \in {"connecting", "open", "ready"}
  /\ socket' = "closed"
  /\ toHub' = << >>
  /\ toTab' = << >>
  /\ sub' = NULL
  /\ UNCHANGED <<dataVars, projectId, board, loads, replies, waiting, races>>

\* Mutant: the board is not loaded again.
ReadyWithoutReload ==
  /\ toTab # << >>
  /\ Head(toTab) = Ready
  /\ toTab' = Tail(toTab)
  /\ socket' = "ready"
  /\ SubscribeTo(projectId)
  /\ UNCHANGED <<dataVars, projectId, board, loads, replies, sub, waiting, races>>

ReceiveReady ==
  /\ toTab # << >>
  /\ Head(toTab) = Ready
  /\ toTab' = Tail(toTab)
  /\ socket' = "ready"
  /\ SubscribeTo(projectId)
  /\ StartLoad(projectId, "nothing")
  /\ UNCHANGED <<dataVars, projectId, board, replies, sub, waiting, races>>

ReceiveEvent ==
  /\ toTab # << >>
  /\ Head(toTab) # Ready
  /\ toTab' = Tail(toTab)
  /\ applyTask(Head(toTab)[1], Head(toTab)[2])
  /\ UNCHANGED <<dataVars, projectId, loads, replies, socket, toHub, sub, waiting, races>>

\* Steps that concern the socket and apply nothing to the board.
SocketStep ==
  \/ HubReads
  \/ Connect
  \/ ConnectEarly
  \/ ConnectGoesOn
  \/ SocketOpens
  \/ SocketCloses
  \/ ReceiveReady

\* Every step but those that commit a version or broadcast an event.
TabStep ==
  \/ \E i \in Load : ServeLoad(i) \/ LoadReturns(i) \/ LoadFails(i)
  \/ Reload
  \/ \E p \in Project : SelectProject(p) \/ OpenCreatedProject(p)
  \/ \E e \in replies : ReplyArrives(e) \/ ReplyFails(e)
  \/ ReceiveEvent
  \/ SocketStep

Next ==
  \/ \E t \in Task : OthersWrite(t) \/ OwnWrite(t)
  \/ \E e \in Event : Broadcast(e)
  \/ TabStep

Spec == Init /\ [][Next]_vars

\* Scheduling: timers fire, the services answer, callbacks run, and the
\* network does not break for ever.  Nothing promises an online event.  The
\* callback for "ready" is strongly fair only because MaxLoads may hold it back
\* again and again.
Fairness ==
  /\ WF_vars(Connect /\ waiting = 0)
  /\ WF_vars(ConnectGoesOn)
  /\ WF_vars(SocketOpens)
  /\ WF_vars(HubReads)
  /\ SF_vars(ReceiveReady)
  /\ WF_vars(ReceiveEvent)
  /\ \A i \in Load : WF_vars(ServeLoad(i)) /\ WF_vars(LoadReturns(i))
  /\ <>[][~SocketCloses]_vars

-----------------------------------------------------------------------------
(* Properties                                                              *)

\* Connected and subscribed, nothing on its way to or from the tab.
Quiet ==
  /\ socket = "ready"
  /\ waiting = 0
  /\ sub = projectId
  /\ toHub = << >>
  /\ toTab = << >>
  /\ replies = {}
  /\ \A i \in Load : loads[i] = Free

\* And every event broadcast.
Settled == Quiet /\ unsent = {}

ShowsDatabase == \A t \in Task : ProjectOf[t] = projectId => board[t] = db[t]

\* A settled tab shows what is committed, unless an answer of loadBoard has
\* put an older version over a newer one, an event went by before the hub had
\* read the subscription, or a load failed.  Reconnects, duplicates, events
\* out of order, lost answers and project changes do no harm by themselves.
OnlyKnownRaces == Settled /\ races = {} => ShowsDatabase

\* "reloads the selected board after reconnect to close any delivery gap",
\* where the only thing that went wrong is the time an answer took: the
\* snapshot of loadBoard may be older than what the board already shows.
ReloadKeepsNewerTasks == Settled /\ races \subseteq {"overwritten"} => ShowsDatabase

\* The same, where the only thing that went wrong is the time a subscription
\* took: the snapshot may be read before the hub starts to deliver.
ReloadClosesGap == Settled /\ races \subseteq {"skipped"} => ShowsDatabase

\* applyTask makes duplicate and late deliveries harmless: no event and no
\* answer to a write takes a task back to an older version.
EventsNeverRegress ==
  [][(\E t \in Task : board'[t] < board[t]) => \E i \in Load : LoadReturns(i)]_vars

\* A tab that lost its connection gets it back: the close handler's timer,
\* connectRealtime and the handshake lead to "ready" again.
ReconnectsEventually == (socket = "closed") ~> (socket = "ready")

\* A tab whose first board loads is connected without any further event; only
\* a failed load in start leaves it to the next online event.
StartConnects == (socket = "none") ~> (socket = "ready" \/ "failed" \in races)

\* The subscription follows the selection: with nothing on its way to the hub
\* and no load under way, a connected tab is subscribed to the project it shows,
\* unless the load failed after which it would have subscribed.
SubscribedToSelection ==
  /\ socket = "ready"
  /\ toHub = << >>
  /\ \A i \in Load : loads[i] = Free
  /\ "failed" \notin races
  => sub = projectId

\* What holds of every state of the tab: every subscription names a project, and
\* it is the selected one when nothing is on its way.
BoardInv == TypeOK /\ SubscribedToSelection

\* With no load under way and none failed, the board has tasks of the selected
\* project only, however projects were switched while answers were late.
BoardIsOneProject ==
  (\A i \in Load : loads[i] = Free) /\ "failed" \notin races =>
    \A t \in Task : board[t] > 0 => ProjectOf[t] = projectId
=============================================================================
