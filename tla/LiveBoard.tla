----------------------------- MODULE LiveBoard -----------------------------
(***************************************************************************)
(* From a committed change to the board of a tab: the tab of BoardClient,  *)
(* the topic of EventFeed between the API and the realtime service, and    *)
(* the consumer that reads the topic and broadcasts (cmd/realtime).        *)
(*                                                                         *)
(* BoardClient lets any committed event be broadcast at any time.  Here an *)
(* event is broadcast when the consumer gets to its record, so the outbox  *)
(* may give it up before it ever reaches the topic, and what a crash or a  *)
(* lost group session repeats or leaves out is up to the offsets.          *)
(***************************************************************************)
EXTENDS BoardClient

CONSTANT MaxCopies   \* bound: records of one event in the topic

ASSUME CopiesAssumption == MaxCopies \in Nat \ {0}

VARIABLES
  status,     \* what became of each event in outbox_events
  log,        \* the topic, oldest record first
  position,   \* the records that the consumer has processed
  committed   \* the committed offset of its group

feedVars     == <<status, log>>
consumerVars == <<position, committed>>
liveVars     == <<vars, feedVars, consumerVars>>

Feed == INSTANCE EventFeed WITH Sequence <- Event, Poison <- {},
                                status <- status, log <- log

LiveInit ==
  /\ Init
  /\ Feed!Init
  /\ position = 0
  /\ committed = 0

\* createTask or updateTaskStatus commits the version and its event.
Write(t) ==
  /\ OthersWrite(t) \/ OwnWrite(t)
  /\ Feed!Insert(<<t, db[t] + 1>>)
  /\ UNCHANGED consumerVars

Copies(e) == {i \in 1..Len(log) : log[i] = e}

\* A relay publishes the event, perhaps again.
Publish(e) ==
  /\ Cardinality(Copies(e)) < MaxCopies
  /\ Feed!Append1(e)
  /\ UNCHANGED <<vars, consumerVars>>

\* A relay records it as published, or gives it up.
SettleEvent(e) ==
  /\ Feed!Settle(e) \/ Feed!Bury(e)
  /\ UNCHANGED <<vars, consumerVars>>

\* processRecord: the hub broadcasts the next record.
ProcessRecord ==
  /\ position < Len(log)
  /\ Broadcast(log[position + 1])
  /\ position' = position + 1
  /\ UNCHANGED <<feedVars, committed>>

\* The offsets of the fetch are committed once all of it was processed.
CommitRecords ==
  /\ committed' = position
  /\ UNCHANGED <<vars, feedVars, position>>

\* Mutant: the consumer resumes at the end of the topic.
RejoinAtEnd ==
  /\ position' = Len(log)
  /\ UNCHANGED <<vars, feedVars, committed>>

\* The consumer rejoins its group and resumes at the committed offset, under
\* connections that stay open.
Rejoin ==
  /\ position' = committed
  /\ UNCHANGED <<vars, feedVars, committed>>

\* The realtime service restarts: its connections are gone.
Restart ==
  /\ SocketCloses
  /\ position' = committed
  /\ UNCHANGED <<feedVars, committed>>

\* A step of the tab, of its socket or of the API's answers.
TabMoves == TabStep /\ UNCHANGED <<feedVars, consumerVars>>

LiveNext ==
  \/ \E t \in Task : Write(t)
  \/ \E e \in Event : Publish(e) \/ SettleEvent(e)
  \/ ProcessRecord
  \/ CommitRecords
  \/ Rejoin
  \/ Restart
  \/ TabMoves

LiveSpec == LiveInit /\ [][LiveNext]_liveVars

\* Scheduling: the tab's (BoardClient), the relays' (OutboxRelay shows that
\* every event settles) and the consumer's, whose trouble does not last.
LiveFairness ==
  /\ Fairness
  /\ \A e \in Event : WF_liveVars(~Feed!InLog(e) /\ Publish(e)) /\ WF_liveVars(SettleEvent(e))
  /\ WF_liveVars(ProcessRecord)
  /\ <>[][~(Rejoin \/ Restart)]_liveVars

FairLiveSpec == LiveSpec /\ LiveFairness

-----------------------------------------------------------------------------
(* Properties                                                              *)

\* The relays and the consumer have nothing left to do.
FeedAtRest ==
  /\ \A e \in Event : status[e] # "pending"
  /\ position = Len(log)

\* The event of the task's latest change was given up.
LastChangeIsDead(t) == db[t] > 0 /\ status[<<t, db[t]>>] = "dead"

\* What a dead letter costs: at rest the board of a connected tab is behind
\* the database, the known races aside, only in tasks whose latest event was
\* given up.  An earlier dead letter is made up by the next event of its task,
\* a restart of the service by the reload, and a lost group session, or the
\* order in which the relays published, costs nothing.
OnlyDeadLettersLag ==
  FeedAtRest /\ Quiet /\ races = {} =>
    \A t \in Task : ProjectOf[t] = projectId => board[t] = db[t] \/ LastChangeIsDead(t)

\* Every change of the selected project reaches the board, by its event, by a
\* later one or by a reload, unless a race lost it, a load failed, its event
\* was given up or another project was selected.
ChangesReachBoard ==
  \A e \in Event :
    (db[e[1]] = e[2]) ~> \/ board[e[1]] >= e[2]
                         \/ races # {}
                         \/ status[e] = "dead"
                         \/ projectId # ProjectOf[e[1]]
=============================================================================
