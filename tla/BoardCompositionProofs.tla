----------------------- MODULE BoardCompositionProofs -----------------------
(***************************************************************************)
(* Proofs about the two specifications that put the tab of BoardClient     *)
(* into a larger one: LiveBoard, with the topic and its consumer, and      *)
(* ProjectList, with the numbers of tasks in the project select.  Both are *)
(* shown to implement the tab, so what is proved of the tab holds in them, *)
(* for any tasks, projects, copies, loads, connections and messages.       *)
(***************************************************************************)
EXTENDS LiveBoard, ProjectList, BoardClientProofs, FiniteSetTheorems

\* The topic and the offsets have their types.
FeedType ==
  /\ status \in [Event -> Feed!Status]
  /\ log \in Seq(Event)
  /\ position \in 0..Len(log)
  /\ committed \in 0..position

\* An event is written with its version and not before.
EventWithVersion == \A e \in Event : status[e] # "absent" <=> e[2] <= db[e[1]]

\* The topic has written events only, and those that are marked published.
LoggedIsWritten == \A i \in 1..Len(log) : status[log[i]] # "absent"
PublishedIsLogged == \A e \in Event : status[e] = "published" => Feed!InLog(e)

\* What the consumer has processed was broadcast.
ProcessedIsSent == \A i \in 1..position : log[i] \notin unsent

\* The inductive invariant of the topic and its consumer.
FeedInv ==
  /\ FeedType
  /\ EventWithVersion
  /\ LoggedIsWritten
  /\ PublishedIsLogged
  /\ ProcessedIsSent

\* The tasks of a project that a snapshot has.
Shown(snapshot, p) == {t \in Task : ProjectOf[t] = p /\ snapshot[t] > 0}

\* The numbers of the select are numbers, and a list under way has no more than
\* there are tasks.
ListType ==
  /\ task_count \in [Project -> Nat]
  /\ listing # NULL => /\ listing \in [Project -> Nat]
                       /\ \A p \in Project : listing[p] <= Cardinality(TasksOf(p))

\* A load of the selected project that will show the tasks counted for it.
Brings(i) ==
  /\ loads[i].project = projectId
  /\ loads[i].snapshot # NULL =>
       task_count[projectId] <= Cardinality(Shown(loads[i].snapshot, projectId))

\* The board has the tasks that are counted for the selected project, or a load
\* will bring them.
CountedAreShown ==
  LoadsHarmless /\ ~early =>
    \/ task_count[projectId] <= Cardinality(Shown(board, projectId))
    \/ \E i \in Load : Brings(i)

\* The inductive invariant of the project select.
ListInv ==
  /\ ListType
  /\ CountedAreShown
  /\ CountedOnceWhenLoaded

-----------------------------------------------------------------------------
(* The parts of LiveBoard                                                  *)

\* No step of the tab, its socket or the answers commits or broadcasts.
LEMMA TabStepKeepsData == TabStep => UNCHANGED dataVars
BY DEF TabStep, SocketStep, ServeLoad, LoadReturns, LoadFails, Reload, SelectProject,
       OpenCreatedProject, ReplyArrives, ReplyFails, ReceiveEvent, ReceiveReady, HubReads,
       Connect, ConnectEarly, ConnectGoesOn, SocketOpens, SocketCloses

\* A write commits the next version of a task and inserts its event.
LEMMA WriteFacts ==
  ASSUME TypeOK, NEW t \in Task, Write(t)
  PROVE  /\ <<t, db[t] + 1>> \in Event
         /\ db' = [db EXCEPT ![t] = @ + 1]
         /\ unsent' = unsent \cup {<<t, db[t] + 1>>}
         /\ status[<<t, db[t] + 1>>] = "absent"
         /\ status' = [status EXCEPT ![<<t, db[t] + 1>>] = "pending"]
         /\ UNCHANGED <<log, position, committed>>
<1>1. Committed(t) /\ Feed!Insert(<<t, db[t] + 1>>) /\ UNCHANGED consumerVars
  BY DEF Write, OthersWrite, OwnWrite
<1>2. <<t, db[t] + 1>> \in Event
  BY <1>1, ConstantsAssumption DEF Committed, TypeOK, Snapshot, Version, Event
<1> QED  BY <1>1, <1>2 DEF Committed, Feed!Insert, consumerVars

\* Which steps there are besides the writes.
LEMMA LiveSteps ==
  ASSUME TypeOK, FeedType, [LiveNext]_liveVars, \A t \in Task : ~Write(t)
  PROVE  \/ \E e \in Event : Publish(e) \/ SettleEvent(e)
         \/ ProcessRecord
         \/ /\ UNCHANGED <<db, unsent, status, log>>
            /\ \/ UNCHANGED <<position, committed>>
               \/ position' = position /\ committed' = position
               \/ position' = committed /\ committed' = committed
<1>1. CASE CommitRecords \/ Rejoin
  BY <1>1 DEF CommitRecords, Rejoin, vars, dataVars, feedVars
<1>2. CASE Restart
  BY <1>2 DEF Restart, SocketCloses, dataVars, feedVars
<1>3. CASE TabMoves
  BY <1>3, TabStepKeepsData DEF TabMoves, dataVars, feedVars, consumerVars
<1>4. CASE UNCHANGED liveVars
  BY <1>4 DEF liveVars, vars, dataVars, feedVars, consumerVars
<1> QED  BY <1>1, <1>2, <1>3, <1>4 DEF LiveNext

\* The record that the consumer is at.
LEMMA NextRecord ==
  ASSUME FeedType, ProcessRecord
  PROVE  /\ position + 1 \in 1..Len(log) /\ log[position + 1] \in Event
         /\ Broadcast(log[position + 1]) /\ position' = position + 1
         /\ unsent' = unsent \ {log[position + 1]}
         /\ UNCHANGED <<db, status, log, committed>>
<1>1. position + 1 \in 1..Len(log) /\ Len(log) \in Nat
  BY DEF FeedType, ProcessRecord
<1> QED  BY <1>1 DEF FeedType, ProcessRecord, Broadcast, feedVars

\* What the relays do to an event leaves the tab and the consumer alone.
LEMMA RelayFacts ==
  ASSUME NEW e \in Event, Publish(e) \/ SettleEvent(e)
  PROVE  /\ UNCHANGED <<db, unsent, position, committed>>
         /\ \/ status[e] # "absent" /\ log' = Append(log, e) /\ status' = status
            \/ /\ status[e] = "pending" /\ log' = log
               /\ \/ status' = [status EXCEPT ![e] = "published"] /\ Feed!InLog(e)
                  \/ status' = [status EXCEPT ![e] = "dead"]
BY DEF Publish, SettleEvent, vars, dataVars, consumerVars, Feed!Append1, Feed!Settle, Feed!Bury

-----------------------------------------------------------------------------
(* The invariant of the topic and its consumer                             *)

LEMMA FeedInit == LiveInit => FeedInv
<1> SUFFICES ASSUME LiveInit PROVE FeedInv
  OBVIOUS
<1>1. status = [e \in Event |-> "absent"] /\ log = << >> /\ position = 0 /\ committed = 0
  BY DEF LiveInit, Feed!Init
<1>2. db = [t \in Task |-> 0] /\ unsent = {}
  BY DEF LiveInit, Init
<1>3. FeedType
  BY <1>1 DEF FeedType, Feed!Status
<1>4. EventWithVersion
  BY <1>1, <1>2, ConstantsAssumption DEF EventWithVersion, Event, Version
<1> QED  BY <1>1, <1>2, <1>3, <1>4 DEF FeedInv, LoggedIsWritten, PublishedIsLogged, ProcessedIsSent

LEMMA FeedTypeStep ==
  ASSUME TypeOK, FeedInv, [LiveNext]_liveVars
  PROVE  FeedType'
<1> USE DEF FeedInv
<1>1. ASSUME NEW t \in Task, Write(t) PROVE FeedType'
  BY <1>1, WriteFacts DEF FeedType, Feed!Status
<1>2. ASSUME NEW e \in Event, Publish(e) \/ SettleEvent(e) PROVE FeedType'
  <2>1. Append(log, e) \in Seq(Event) /\ Len(Append(log, e)) = Len(log) + 1 /\ Len(log) \in Nat
    BY DEF FeedType
  <2>2. status' \in [Event -> Feed!Status]
    BY <1>2, RelayFacts DEF FeedType, Feed!Status
  <2>3. UNCHANGED <<position, committed>> /\ (log' = log \/ log' = Append(log, e))
    BY <1>2, RelayFacts
  <2> QED  BY <2>1, <2>2, <2>3 DEF FeedType
<1>3. ASSUME ProcessRecord PROVE FeedType'
  BY <1>3, NextRecord DEF FeedType
<1>4. ASSUME UNCHANGED <<status, log>>,
             \/ UNCHANGED <<position, committed>>
             \/ position' = position /\ committed' = position
             \/ position' = committed /\ committed' = committed
      PROVE  FeedType'
  BY <1>4 DEF FeedType
<1> QED  BY <1>1, <1>2, <1>3, <1>4, LiveSteps

\* A version and its event are committed together.
LEMMA EventWithVersionStep ==
  ASSUME TypeOK, FeedInv, [LiveNext]_liveVars
  PROVE  EventWithVersion' /\ \A e \in Event : status[e] # "absent" => status'[e] # "absent"
<1> USE DEF FeedInv
<1> DEFINE Goal == EventWithVersion' /\ \A e \in Event : status[e] # "absent" => status'[e] # "absent"
<1>1. ASSUME NEW t \in Task, Write(t) PROVE Goal
  <2>1. SUFFICES ASSUME NEW e \in Event
                 PROVE  /\ status'[e] # "absent" <=> e[2] <= db'[e[1]]
                        /\ status[e] # "absent" => status'[e] # "absent"
    BY DEF EventWithVersion
  <2>2. e[1] \in Task /\ e[2] \in Nat /\ e = <<e[1], e[2]>>
    BY ConstantsAssumption DEF Event, Version
  <2>3. db[t] \in Nat /\ db \in [Task -> Version]
    BY ConstantsAssumption DEF TypeOK, Snapshot, Version
  <2>4. status[e] # "absent" <=> e[2] <= db[e[1]]
    BY DEF EventWithVersion
  <2>5. CASE e = <<t, db[t] + 1>>
    BY <1>1, <2>3, <2>5, WriteFacts DEF FeedType
  <2>6. CASE e # <<t, db[t] + 1>>
    <3>1. status'[e] = status[e]
      BY <1>1, <2>6, WriteFacts DEF FeedType
    <3>2. e[2] <= db'[e[1]] <=> e[2] <= db[e[1]]
      <4>1. db' = [db EXCEPT ![t] = @ + 1]
        BY <1>1, WriteFacts
      <4>2. CASE e[1] # t
        BY <2>2, <2>3, <4>1, <4>2
      <4>3. CASE e[1] = t
        <5>1. e[2] # db[t] + 1
          BY <2>2, <2>6, <4>3
        <5>2. db'[e[1]] = db[t] + 1
          BY <2>3, <4>1, <4>3
        <5> QED  BY <2>2, <2>3, <4>3, <5>1, <5>2
      <4> QED  BY <4>2, <4>3
    <3> QED  BY <2>4, <3>1, <3>2
  <2> QED  BY <2>5, <2>6
<1>2. ASSUME NEW e \in Event, Publish(e) \/ SettleEvent(e) PROVE Goal
  BY <1>2, RelayFacts DEF FeedType, EventWithVersion
<1>3. ASSUME UNCHANGED <<db, status>> PROVE Goal
  BY <1>3 DEF EventWithVersion
<1> QED  BY <1>1, <1>2, <1>3, LiveSteps, NextRecord

\* Records are appended for written events, before they are marked.
LEMMA LogStep ==
  ASSUME TypeOK, FeedInv, [LiveNext]_liveVars
  PROVE  LoggedIsWritten' /\ PublishedIsLogged'
<1> USE DEF FeedInv
<1>0. \A e \in Event : status[e] # "absent" => status'[e] # "absent"
  BY EventWithVersionStep
<1>1. ASSUME UNCHANGED log, \A e \in Event : status'[e] = "published" => status[e] = "published"
      PROVE  LoggedIsWritten' /\ PublishedIsLogged'
  BY <1>0, <1>1 DEF LoggedIsWritten, PublishedIsLogged, FeedType, Feed!InLog
<1>2. ASSUME NEW t \in Task, Write(t) PROVE LoggedIsWritten' /\ PublishedIsLogged'
  BY <1>1, <1>2, WriteFacts DEF FeedType
<1>3. ASSUME NEW e \in Event, Publish(e) \/ SettleEvent(e)
      PROVE  LoggedIsWritten' /\ PublishedIsLogged'
  <2>1. CASE status[e] # "absent" /\ log' = Append(log, e) /\ status' = status
    <3>1. \A i \in 1..Len(log') : \/ i \in 1..Len(log) /\ log'[i] = log[i]
                                  \/ i = Len(log) + 1 /\ log'[i] = e
      BY <2>1, AppendKeeps DEF FeedType
    <3>2. \A i \in 1..Len(log) : i \in 1..Len(log') /\ log'[i] = log[i]
      BY <2>1, AppendFacts DEF FeedType
    <3> QED  BY <2>1, <3>1, <3>2 DEF LoggedIsWritten, PublishedIsLogged, Feed!InLog
  <2>2. CASE log' = log /\ status' = [status EXCEPT ![e] = "dead"]
    BY <1>1, <2>2 DEF FeedType
  <2>3. CASE log' = log /\ status' = [status EXCEPT ![e] = "published"] /\ Feed!InLog(e)
    <3>1. PublishedIsLogged'
      BY <2>3 DEF PublishedIsLogged, FeedType, Feed!InLog
    <3>2. LoggedIsWritten'
      BY <1>0, <2>3 DEF LoggedIsWritten, FeedType
    <3> QED  BY <3>1, <3>2
  <2> QED  BY <1>3, <2>1, <2>2, <2>3, RelayFacts
<1> QED  BY <1>1, <1>2, <1>3, LiveSteps, NextRecord

\* A record is behind the position once it was broadcast; what is committed
\* later was not in the topic yet.
LEMMA SentStep ==
  ASSUME TypeOK, FeedInv, [LiveNext]_liveVars
  PROVE  ProcessedIsSent'
<1> USE DEF FeedInv
<1>1. ASSUME NEW t \in Task, Write(t) PROVE ProcessedIsSent'
  <2>1. \A i \in 1..position : i \in 1..Len(log)
    BY DEF FeedType
  <2>2. status[<<t, db[t] + 1>>] = "absent"
    BY <1>1, WriteFacts
  <2>3. \A i \in 1..position : log[i] # <<t, db[t] + 1>>
    <3> SUFFICES ASSUME NEW i \in 1..position, log[i] = <<t, db[t] + 1>> PROVE FALSE
      OBVIOUS
    <3>1. status[log[i]] # "absent"
      BY <2>1 DEF LoggedIsWritten
    <3> QED  BY <2>2, <3>1
  <2>4. unsent' = unsent \cup {<<t, db[t] + 1>>} /\ UNCHANGED <<log, position>>
    BY <1>1, WriteFacts
  <2> QED  BY <2>3, <2>4 DEF ProcessedIsSent
<1>2. ASSUME NEW e \in Event, Publish(e) \/ SettleEvent(e) PROVE ProcessedIsSent'
  <2>1. UNCHANGED <<unsent, position>> /\ (log' = log \/ log' = Append(log, e))
    BY <1>2, RelayFacts
  <2>2. \A i \in 1..position : i \in 1..Len(log)
    BY DEF FeedType
  <2>3. \A i \in 1..position : log'[i] = log[i]
    BY <2>1, <2>2, AppendFacts DEF FeedType
  <2> QED  BY <2>1, <2>3 DEF ProcessedIsSent
<1>3. ASSUME ProcessRecord PROVE ProcessedIsSent'
  <2>1. \A i \in 1..(position + 1) : i \in 1..position \/ i = position + 1
    BY DEF FeedType
  <2> QED  BY <1>3, <2>1, NextRecord DEF ProcessedIsSent
<1>4. ASSUME UNCHANGED <<unsent, log>>, position' = position \/ position' = committed
      PROVE  ProcessedIsSent'
  <2>1. \A i \in 1..position' : i \in 1..position
    BY <1>4 DEF FeedType
  <2> QED  BY <1>4, <2>1 DEF ProcessedIsSent
<1> QED  BY <1>1, <1>2, <1>3, <1>4, LiveSteps

-----------------------------------------------------------------------------
(* LiveBoard implements the tab and the feed                               *)

\* The guard of Broadcast, that the event is committed, holds of every record.
LEMMA LiveStepIsTabStep ==
  ASSUME TypeOK, FeedInv, [LiveNext]_liveVars
  PROVE  [Next]_vars
<1>1. CASE \E t \in Task : Write(t)
  BY <1>1 DEF Write, Next
<1>2. CASE ProcessRecord
  BY <1>2, NextRecord DEF FeedInv, Next
<1>3. CASE Restart \/ TabMoves
  BY <1>3 DEF Restart, TabMoves, Next, TabStep, SocketStep
<1>4. CASE (\E e \in Event : Publish(e) \/ SettleEvent(e)) \/ CommitRecords \/ Rejoin
  BY <1>4 DEF Publish, SettleEvent, CommitRecords, Rejoin
<1> QED  BY <1>1, <1>2, <1>3, <1>4 DEF LiveNext, liveVars

LEMMA LiveStepIsFeedStep ==
  ASSUME TypeOK, [LiveNext]_liveVars
  PROVE  [Feed!Next]_(Feed!vars)
<1>1. ASSUME NEW t \in Task, Write(t) PROVE Feed!Next
  BY <1>1, WriteFacts DEF Write, Feed!Next
<1>2. ASSUME NEW e \in Event, Publish(e) \/ SettleEvent(e) PROVE Feed!Next
  BY <1>2 DEF Publish, SettleEvent, Feed!Next
<1>3. ASSUME UNCHANGED feedVars PROVE UNCHANGED Feed!vars
  BY <1>3 DEF feedVars, Feed!vars
<1> QED  BY <1>1, <1>2, <1>3
         DEF LiveNext, ProcessRecord, CommitRecords, Rejoin, Restart, TabMoves, liveVars

\* The inductive invariant: every committed version has its event, every
\* published event its record, and every record behind the consumer's position
\* was broadcast (processRecord and the commit of the offsets in cmd/realtime).
THEOREM FeedInvariant == LiveSpec => [](TabInv /\ FeedInv)
<1>1. LiveInit => TabInv /\ FeedInv
  BY InitTab, FeedInit DEF LiveInit
<1>2. TabInv /\ FeedInv /\ [LiveNext]_liveVars => (TabInv /\ FeedInv)'
  <2> SUFFICES ASSUME TabInv, FeedInv, [LiveNext]_liveVars PROVE TabInv' /\ FeedInv'
    OBVIOUS
  <2>1. TypeOK
    BY DEF TabInv
  <2>2. TabInv'
    BY <2>1, LiveStepIsTabStep, TabStepInvariant
  <2>3. FeedInv'
    BY <2>1, FeedTypeStep, EventWithVersionStep, LogStep, SentStep DEF FeedInv
  <2> QED  BY <2>2, <2>3
<1> QED  BY <1>1, <1>2, PTL DEF LiveSpec

\* A tab behind the topic and its consumer is the tab of BoardClient: nothing
\* the consumer broadcasts is uncommitted, whatever it repeats or leaves out,
\* so every theorem about the tab holds of it.
THEOREM LiveBoardIsATab == LiveSpec => Spec
<1>1. TabInv /\ FeedInv /\ [LiveNext]_liveVars => [Next]_vars
  BY LiveStepIsTabStep DEF TabInv
<1>2. LiveInit => Init
  BY DEF LiveInit
<1> QED  BY <1>1, <1>2, FeedInvariant, PTL DEF LiveSpec, Spec

\* What the consumer reads is a topic as EventFeed promises it, and the relays
\* of OutboxRelay implement that one.
THEOREM LiveBoardReadsAFeed == LiveSpec => Feed!Spec
<1>1. TabInv /\ FeedInv /\ [LiveNext]_liveVars => [Feed!Next]_(Feed!vars)
  BY LiveStepIsFeedStep DEF TabInv
<1>2. LiveInit => Feed!Init
  BY DEF LiveInit
<1> QED  BY <1>1, <1>2, FeedInvariant, PTL DEF LiveSpec, Feed!Spec

\* At rest a connected tab lags behind only in tasks whose latest event was
\* given up: an event that was never broadcast is not behind the consumer's
\* position, so it was never published.
THEOREM OnlyGivenUpEventsLag == LiveSpec => []OnlyDeadLettersLag
<1>1. TabInv /\ FeedInv => OnlyDeadLettersLag
  <2> SUFFICES ASSUME TabInv, FeedInv, FeedAtRest, Quiet, races = {},
                      NEW t \in Task, ProjectOf[t] = projectId, board[t] # db[t]
               PROVE  LastChangeIsDead(t)
    BY DEF OnlyDeadLettersLag
  <2>1. OnItsWay(t) /\ TypeOK
    BY DEF TabInv, ChangesOnTheirWay
  <2>2. ~ReloadToCome
    BY <2>1, FreeIsNobody DEF Quiet, ReloadToCome
  <2>3. <<t, db[t]>> \in unsent
    BY <2>1, <2>2, FreeIsNobody DEF OnItsWay, Quiet
  <2>4. <<t, db[t]>> \in Event /\ db[t] > 0
    BY <2>1, <2>3, ConstantsAssumption DEF TypeOK, Event, Version
  <2>5. status[<<t, db[t]>>] \in {"published", "dead"}
    <3>1. status[<<t, db[t]>>] # "absent"
      BY <2>1, <2>4, ConstantsAssumption DEF FeedInv, EventWithVersion, TypeOK, Snapshot, Version
    <3> QED  BY <2>4, <3>1 DEF FeedInv, FeedType, Feed!Status, FeedAtRest
  <2>6. status[<<t, db[t]>>] # "published"
    BY <2>3, <2>4 DEF FeedInv, PublishedIsLogged, ProcessedIsSent, Feed!InLog, FeedAtRest
  <2> QED  BY <2>4, <2>5, <2>6 DEF LastChangeIsDead
<1> QED  BY <1>1, FeedInvariant, PTL

-----------------------------------------------------------------------------
(* The parts of ProjectList                                                *)

\* Tasks are finitely many, so more of them have a higher number.
LEMMA CountMore ==
  ASSUME NEW A \in SUBSET Task, NEW B \in SUBSET Task, A \subseteq B
  PROVE  Cardinality(A) \in Nat /\ Cardinality(B) \in Nat /\ Cardinality(A) <= Cardinality(B)
<1>1. IsFiniteSet(A) /\ IsFiniteSet(B)
  BY TasksAssumption, FS_Subset
<1> QED  BY <1>1, FS_Subset, FS_CardinalityType

LEMMA CountOneMore ==
  ASSUME NEW A \in SUBSET Task, NEW B \in SUBSET Task, NEW t \in Task \ A, B = A \cup {t}
  PROVE  Cardinality(A) \in Nat /\ Cardinality(B) = Cardinality(A) + 1
<1>1. IsFiniteSet(A)
  BY TasksAssumption, FS_Subset
<1> QED  BY <1>1, FS_AddElement, FS_CardinalityType

\* Versions are never taken back, so tasks do not disappear.
LEMMA TasksRemain ==
  ASSUME TypeOK, [Next]_vars
  PROVE  /\ \A t \in Task : db[t] <= db'[t]
         /\ \A p \in Project : /\ Cardinality(TasksOf(p)) \in Nat
                               /\ Cardinality(TasksOf(p)') \in Nat
                               /\ Cardinality(TasksOf(p)) <= Cardinality(TasksOf(p)')
<1>1. ASSUME NEW t \in Task, Committed(t) PROVE \A u \in Task : db[u] <= db'[u] /\ db[u] \in Nat
  BY <1>1, ConstantsAssumption DEF Committed, TypeOK, Snapshot, Version
<1>2. ASSUME UNCHANGED db PROVE \A u \in Task : db[u] <= db'[u] /\ db[u] \in Nat
  BY <1>2, ConstantsAssumption DEF TypeOK, Snapshot, Version
<1>3. \A u \in Task : db[u] <= db'[u] /\ db[u] \in Nat
  BY <1>1, <1>2, TabStepKeepsData DEF Next, OthersWrite, OwnWrite, Broadcast, vars, dataVars
<1>4. \A u \in Task : db'[u] \in Nat
  BY NextTypes, ConstantsAssumption DEF TypeOK, Snapshot, Version
<1>5. ASSUME NEW p \in Project PROVE TasksOf(p) \subseteq TasksOf(p)'
  BY <1>3, <1>4 DEF TasksOf
<1>6. ASSUME NEW p \in Project PROVE TasksOf(p) \subseteq Task /\ TasksOf(p)' \subseteq Task
  BY DEF TasksOf
<1> QED  BY <1>3, <1>5, <1>6, CountMore

LEMMA ListStepIsTabStep ==
  ASSUME [ListNext]_allVars
  PROVE  [Next]_vars
<1>1. CASE ApplyStep
  BY <1>1 DEF ApplyStep, Next, TabStep
<1>2. CASE ServeList \/ UNCHANGED allVars
  BY <1>2 DEF ServeList, allVars
<1>3. CASE \E p \in Project : OpenListed(p)
  BY <1>3 DEF OpenListed, Next, TabStep
<1>4. CASE OtherStep
  BY <1>4 DEF OtherStep, Next, TabStep
<1> QED  BY <1>1, <1>2, <1>3, <1>4 DEF ListNext

\* listProjects counts the rows.
LEMMA CountsFit ==
  Counts \in [Project -> Nat] /\ \A p \in Project : Counts[p] = Cardinality(TasksOf(p))
<1>1. ASSUME NEW p \in Project PROVE Cardinality(TasksOf(p)) \in Nat
  BY CountMore DEF TasksOf
<1> QED  BY <1>1 DEF Counts

\* What an answer or an event does to the board and the number: nothing that
\* shows, or one task more.
LEMMA CreatedFacts ==
  ASSUME TypeOK, ListType, ApplyStep
  PROVE  /\ UNCHANGED <<db, projectId, loads, listing>>
         /\ early => early'
         /\ \/ /\ \A t \in Task : board[t] > 0 => board'[t] > 0
               /\ UNCHANGED task_count
            \/ \E t \in Task :
                 /\ ProjectOf[t] = projectId /\ board[t] = 0 /\ board'[t] > 0
                 /\ \A u \in Task \ {t} : board'[u] = board[u]
                 /\ task_count' = [task_count EXCEPT ![projectId] = @ + 1]
                 /\ (\E i \in Load : loads[i] # Free) => early'
<1> DEFINE new(p) == {t \in Task : ProjectOf[t] = p /\ Created(t)}
<1>1. PICK e \in Event : applyTask(e[1], e[2])
  <2>1. CASE ReceiveEvent
    <3>1. Head(toTab) \in Event
      BY <2>1 DEF ReceiveEvent, TypeOK
    <3> QED  BY <2>1, <3>1 DEF ReceiveEvent
  <2>2. CASE \E e \in replies : ReplyArrives(e)
    BY <2>2 DEF ReplyArrives, TypeOK
  <2> QED  BY <2>1, <2>2 DEF ApplyStep
<1>2. e[1] \in Task /\ e[2] \in Version
  BY DEF Event
<1>3. /\ board \in Snapshot /\ board' \in Snapshot
      /\ \A u \in Task : board'[u] >= board[u]
      /\ \A u \in Task : u # e[1] => board'[u] = board[u]
      /\ \A u \in Task : board'[u] # board[u] => ProjectOf[u] = projectId
  BY <1>1, <1>2, ApplyFacts DEF TypeOK
<1>4. /\ UNCHANGED <<db, projectId, loads, listing>>
      /\ task_count' = [p \in Project |-> task_count[p] + Cardinality(new(p))]
      /\ early' = (early \/ /\ \E i \in Load : loads[i] # Free
                            /\ \E t \in Task : Created(t))
  BY DEF ApplyStep, CountCreated, ReceiveEvent, ReplyArrives, dataVars
<1>5. \A u \in Task : board[u] \in Nat /\ board'[u] \in Nat
  BY <1>3, ConstantsAssumption DEF Snapshot, Version
<1>6. CASE \A t \in Task : ~Created(t)
  <2>1. \A p \in Project : new(p) = {}
    BY <1>6
  <2>2. \A p \in Project : task_count[p] + Cardinality(new(p)) = task_count[p]
    BY <2>1, FS_EmptySet DEF ListType
  <2>3. task_count' = task_count
    BY <1>4, <2>2 DEF ListType
  <2>4. \A t \in Task : board[t] > 0 => board'[t] > 0
    BY <1>3, <1>5
  <2> QED  BY <1>4, <2>3, <2>4
<1>7. CASE \E t \in Task : Created(t)
  <2>1. PICK t \in Task : Created(t)
    BY <1>7
  <2>2. t = e[1] /\ ProjectOf[t] = projectId /\ board[t] = 0 /\ board'[t] > 0
    BY <1>3, <1>5, <2>1 DEF Created
  <2>3. \A u \in Task : Created(u) <=> u = t
    BY <1>3, <1>5, <2>1, <2>2 DEF Created
  <2>4. projectId \in Project
    BY DEF TypeOK
  <2>5. new(projectId) = {t} /\ \A p \in Project \ {projectId} : new(p) = {}
    <3>1. \A p \in Project : \A u : u \in new(p) <=> u = t /\ p = projectId
      BY <2>2, <2>3
    <3> QED  BY <2>4, <3>1
  <2> HIDE DEF new
  <2>6. Cardinality(new(projectId)) = 1 /\ \A p \in Project \ {projectId} : Cardinality(new(p)) = 0
    BY <2>5, FS_EmptySet, FS_Singleton
  <2>7. task_count' = [task_count EXCEPT ![projectId] = @ + 1]
    <3>1. \A p \in Project : task_count[p] + Cardinality(new(p))
                             = IF p = projectId THEN task_count[p] + 1 ELSE task_count[p]
      BY <2>4, <2>6 DEF ListType
    <3> QED  BY <1>4, <2>4, <3>1 DEF ListType
  <2>8. (\E i \in Load : loads[i] # Free) => early'
    BY <1>4, <1>7
  <2> QED  BY <1>3, <1>4, <2>2, <2>7, <2>8
<1> QED  BY <1>6, <1>7

-----------------------------------------------------------------------------
(* The invariant of the project select                                     *)

LEMMA ListInitInv == ListInit => ListInv
<1> SUFFICES ASSUME ListInit PROVE ListInv
  OBVIOUS
<1>1. task_count = Counts /\ listing = NULL /\ projectId \in Project
      /\ board = [t \in Task |-> 0] /\ db = [t \in Task |-> 0]
  BY DEF ListInit, Init
<1>2. ListType /\ CountedOnceWhenLoaded
  BY <1>1, CountsFit DEF ListType, CountedOnceWhenLoaded
<1>3. TasksOf(projectId) = Shown(board, projectId)
  BY <1>1 DEF TasksOf, Shown
<1> QED  BY <1>1, <1>2, <1>3, CountsFit DEF ListInv, CountedAreShown

LEMMA ListTypeStep ==
  ASSUME TypeOK, ListType, [ListNext]_allVars
  PROVE  ListType'
<1>0. \A p \in Project : /\ Cardinality(TasksOf(p)) \in Nat /\ Cardinality(TasksOf(p)') \in Nat
                         /\ Cardinality(TasksOf(p)) <= Cardinality(TasksOf(p)')
  BY ListStepIsTabStep, TasksRemain
<1>1. ASSUME listing' = listing
      PROVE  listing' # NULL => /\ listing' \in [Project -> Nat]
                                /\ \A p \in Project : listing'[p] <= Cardinality(TasksOf(p)')
  BY <1>0, <1>1 DEF ListType
<1>2. CASE ApplyStep
  <2>1. listing' = listing /\ task_count' \in [Project -> Nat]
    BY <1>2, CreatedFacts DEF ListType, TypeOK
  <2> QED  BY <1>1, <2>1 DEF ListType
<1>3. CASE ServeList
  <2>1. listing' = Counts /\ task_count' = task_count /\ db' = db
    BY <1>3 DEF ServeList, vars, dataVars
  <2>2. \A p \in Project : TasksOf(p)' = TasksOf(p)
    BY <2>1 DEF TasksOf
  <2> QED  BY <2>1, <2>2, CountsFit DEF ListType
<1>4. CASE \E p \in Project : OpenListed(p)
  BY <1>4 DEF OpenListed, ListType
<1>5. CASE OtherStep \/ UNCHANGED allVars
  <2>1. listing' = listing /\ task_count' = task_count
    BY <1>5 DEF OtherStep, allVars, listVars
  <2> QED  BY <1>1, <2>1 DEF ListType
<1> QED  BY <1>2, <1>3, <1>4, <1>5 DEF ListNext

\* A load that is under way goes on.
LEMMA BringsOn ==
  ASSUME NEW i \in Load, Brings(i), UNCHANGED <<projectId, task_count>>, loads'[i] = loads[i]
  PROVE  Brings(i)'
BY DEF Brings

\* A load that starts is answered later.
LEMMA StartedBrings ==
  ASSUME TypeOK, CountedAreShown, UNCHANGED <<board, task_count, early>>,
         \/ Reload
         \/ \E p \in Project : SelectProject(p)
         \/ \E e \in replies : ReplyFails(e)
         \/ ReceiveReady
  PROVE  CountedAreShown'
<1>1. UNCHANGED races
  BY StartsOne
<1>2. CASE UNCHANGED <<loads, socketVars, projectId>>
  BY <1>1, <1>2 DEF CountedAreShown, Brings, LoadsHarmless
<1>3. CASE \E i \in Load : \E after \in {"nothing", "subscribe"} : loads'[i] = Asked(projectId', after)
  BY <1>3 DEF CountedAreShown, Brings, Asked
<1> QED  BY <1>2, <1>3, StartsOne

\* An answer that is put on the board has the tasks of the board, unless it
\* takes some away again, and the race is on record.
LEMMA ReturnedIsCounted ==
  ASSUME TabInv, ListInv, NEW i \in Load, LoadReturns(i), UNCHANGED <<task_count, early>>
  PROVE  CountedAreShown'
<1> USE DEF TabInv, ListInv
<1> SUFFICES ASSUME LoadsHarmless', ~early
             PROVE  \/ task_count[projectId] <= Cardinality(Shown(board', projectId))
                    \/ \E j \in Load : Brings(j)'
  BY DEF CountedAreShown, LoadReturns
<1>1. /\ Keeps(i) /\ projectId' = projectId /\ races \subseteq races'
      /\ \/ loads[i].project # projectId /\ UNCHANGED board
         \/ loads[i].project = projectId /\ board' = loads[i].snapshot
  BY EndsOne DEF LoadsHarmless, dataVars
<1>2. LoadsHarmless
  BY <1>1 DEF LoadsHarmless
<1>3. task_count[projectId] \in Nat
  BY DEF ListType, TypeOK
<1>4. ASSUME NEW j \in Load, Brings(j)
      PROVE  \/ task_count[projectId] <= Cardinality(Shown(board', projectId))
             \/ Brings(j)'
  <2>1. CASE j = i
    BY <1>1, <1>4, <2>1 DEF Brings, LoadReturns
  <2>2. CASE j # i
    BY <1>1, <1>4, <2>2, BringsOn DEF Keeps
  <2> QED  BY <2>1, <2>2
<1>5. ASSUME task_count[projectId] <= Cardinality(Shown(board, projectId))
      PROVE  task_count[projectId] <= Cardinality(Shown(board', projectId))
  <2>1. CASE UNCHANGED board
    BY <1>5, <2>1
  <2>2. CASE loads[i].project = projectId /\ board' = loads[i].snapshot
    <3>1. \A t \in Task : ProjectOf[t] = projectId => ~(loads[i].snapshot[t] < board[t])
      BY <2>2 DEF LoadReturns, StillWanted, LoadsHarmless
    <3>2. \A t \in Task : board[t] \in Nat /\ loads[i].snapshot[t] \in Nat
      BY <2>2, ConstantsAssumption DEF LoadReturns, TypeOK, Snapshot, Version
    <3>3. Shown(board, projectId) \subseteq Shown(board', projectId)
      BY <2>2, <3>1, <3>2 DEF Shown
    <3>4. Shown(board, projectId) \subseteq Task /\ Shown(board', projectId) \subseteq Task
      BY DEF Shown
    <3> HIDE DEF TabInv, ListInv
    <3> QED  BY <1>3, <1>5, <3>3, <3>4, CountMore
  <2> QED  BY <1>1, <2>1, <2>2
<1> QED  BY <1>2, <1>4, <1>5 DEF CountedAreShown

\* An answer of listTasks has every task that was counted.
LEMMA ServedIsCounted ==
  ASSUME TabInv, ListInv, NEW i \in Load, ServeLoad(i), UNCHANGED <<task_count, early>>
  PROVE  CountedAreShown'
<1> USE DEF TabInv, ListInv
<1>1. /\ Keeps(i) /\ loads'[i].project = loads[i].project
      /\ \A t \in Task : loads'[i].snapshot[t] = IF ProjectOf[t] = loads[i].project THEN db[t] ELSE 0
      /\ UNCHANGED <<dataVars, projectId, board, races>>
  BY ServeFacts
<1> SUFFICES ASSUME LoadsHarmless, ~early, NEW j \in Load, Brings(j)
             PROVE  Brings(j)'
  BY <1>1 DEF CountedAreShown, LoadsHarmless
<1>2. CASE j # i
  BY <1>1, <1>2, BringsOn DEF Keeps
<1>3. CASE j = i
  <2>1. loads'[i].project = projectId
    BY <1>1, <1>3 DEF Brings
  <2>2. Shown(loads'[i].snapshot, projectId) = TasksOf(projectId)
    BY <1>1, <2>1 DEF Shown, TasksOf
  <2>3. task_count[projectId] <= Cardinality(TasksOf(projectId))
    BY DEF CountedOnceWhenLoaded, TypeOK
  <2> QED  BY <1>1, <1>3, <2>1, <2>2, <2>3 DEF Brings
<1> QED  BY <1>2, <1>3

\* A task that comes on to the board while none is loading is counted once, and
\* the board has it.
LEMMA CreatedIsCounted ==
  ASSUME TabInv, TabInv', ListInv, ListType', ApplyStep
  PROVE  CountedAreShown' /\ CountedOnceWhenLoaded'
<1> USE DEF TabInv, ListInv
<1>0. /\ UNCHANGED <<db, projectId, loads, races>> /\ (early => early')
      /\ \A p \in Project : TasksOf(p)' = TasksOf(p)
  BY CreatedFacts DEF ApplyStep, ReceiveEvent, ReplyArrives, TasksOf
<1>1. Shown(board, projectId) \subseteq Task /\ Shown(board', projectId) \subseteq Task
      /\ TasksOf(projectId) \subseteq Task /\ projectId \in Project
  BY DEF Shown, TasksOf, TypeOK
<1>2. /\ task_count \in [Project -> Nat]
      /\ \A p \in Project : Cardinality(TasksOf(p)) \in Nat
  BY CountMore DEF ListType, TasksOf
<1>3. CASE /\ \A t \in Task : board[t] > 0 => board'[t] > 0
           /\ UNCHANGED task_count
  <2>1. Shown(board, projectId) \subseteq Shown(board', projectId)
    BY <1>3 DEF Shown
  <2>2. /\ Cardinality(Shown(board, projectId)) <= Cardinality(Shown(board', projectId))
        /\ Cardinality(Shown(board, projectId)) \in Nat /\ Cardinality(Shown(board', projectId)) \in Nat
    BY <1>1, <2>1, CountMore
  <2>3. CountedAreShown'
    BY <1>0, <1>1, <1>2, <1>3, <2>2, BringsOn DEF CountedAreShown, LoadsHarmless
  <2>4. CountedOnceWhenLoaded'
    BY <1>0, <1>3 DEF CountedOnceWhenLoaded, LoadsHarmless
  <2> QED  BY <2>3, <2>4
<1>4. ASSUME NEW t \in Task,
             ProjectOf[t] = projectId, board[t] = 0, board'[t] > 0,
             \A u \in Task \ {t} : board'[u] = board[u],
             task_count' = [task_count EXCEPT ![projectId] = @ + 1],
             (\E i \in Load : loads[i] # Free) => early'
      PROVE  CountedAreShown' /\ CountedOnceWhenLoaded'
  <2> SUFFICES ASSUME LoadsHarmless, ~early'
               PROVE  /\ task_count'[projectId] <= Cardinality(Shown(board', projectId))
                      /\ \A p \in Project : task_count'[p] <= Cardinality(TasksOf(p))
    BY <1>0 DEF CountedAreShown, CountedOnceWhenLoaded, LoadsHarmless
  <2>1. task_count[projectId] <= Cardinality(Shown(board, projectId))
    <3>1. \A i \in Load : loads[i].project # projectId
      BY <1>4, FreeIsNobody
    <3> QED  BY <1>0, <3>1 DEF CountedAreShown, Brings
  <2>2. t \notin Shown(board, projectId) /\ Shown(board', projectId) = Shown(board, projectId) \cup {t}
    BY <1>4 DEF Shown
  <2>3. /\ Cardinality(Shown(board', projectId)) = Cardinality(Shown(board, projectId)) + 1
        /\ Cardinality(Shown(board, projectId)) \in Nat
    BY <1>1, <2>2, CountOneMore
  <2>4. Shown(board', projectId) \subseteq TasksOf(projectId)
    <3>1. \A u \in Task : board'[u] <= db[u] /\ board'[u] \in Nat /\ db[u] \in Nat
      BY <1>0, ConstantsAssumption DEF NothingNewer, TypeOK, Snapshot, Version
    <3> QED  BY <3>1 DEF Shown, TasksOf
  <2>5. Cardinality(Shown(board', projectId)) <= Cardinality(TasksOf(projectId))
    BY <1>1, <2>4, CountMore
  <2>6. task_count'[projectId] = task_count[projectId] + 1
    BY <1>1, <1>2, <1>4
  <2>7. \A p \in Project \ {projectId} : task_count'[p] = task_count[p]
    BY <1>2, <1>4
  <2>8. \A p \in Project : task_count[p] <= Cardinality(TasksOf(p))
    BY <1>0 DEF CountedOnceWhenLoaded
  <2> QED  BY <1>1, <1>2, <2>1, <2>3, <2>5, <2>6, <2>7, <2>8
<1> QED  BY <1>3, <1>4, CreatedFacts

\* Where neither board nor loads nor numbers move.
LEMMA NothingMoves ==
  ASSUME CountedAreShown, [ListNext]_allVars,
         UNCHANGED <<projectId, board, loads, task_count, early>>
  PROVE  CountedAreShown'
<1>1. LoadsHarmless' => LoadsHarmless
  BY ListStepIsTabStep, RacesOnlyGrow DEF LoadsHarmless
<1> QED  BY <1>1 DEF CountedAreShown, Brings

LEMMA ListInvStep ==
  ASSUME TabInv, TabInv', ListInv, [ListNext]_allVars
  PROVE  ListInv'
<1>1. ListType'
  BY ListTypeStep DEF TabInv, ListInv
<1>2. CASE ApplyStep
  BY <1>1, <1>2, CreatedIsCounted DEF ListInv
<1>3. CASE \E p \in Project : OpenListed(p)
  <2>1. PICK p \in Project : OpenListed(p)
    BY <1>3
  <2>2. \E i \in Load : loads'[i] = Asked(p, "subscribe") /\ projectId' = p
    BY <2>1, StartLoadFacts DEF TabInv, OpenListed, OpenCreatedProject
  <2>3. CountedAreShown'
    BY <2>2 DEF CountedAreShown, Brings, Asked
  <2>4. task_count' = listing /\ \A q \in Project : listing[q] <= Cardinality(TasksOf(q)')
    <3>1. listing # NULL /\ task_count' = listing /\ db' = db
      BY <2>1 DEF OpenListed, OpenCreatedProject, dataVars
    <3> QED  BY <3>1 DEF ListInv, ListType, TasksOf
  <2> QED  BY <1>1, <2>3, <2>4 DEF ListInv, CountedOnceWhenLoaded
<1>4. CASE ServeList \/ OtherStep \/ UNCHANGED allVars
  <2>1. UNCHANGED <<task_count, early>>
    BY <1>4 DEF ServeList, OtherStep, allVars, listVars
  <2>2. CountedOnceWhenLoaded'
    <3>1. LoadsHarmless' => LoadsHarmless
      BY ListStepIsTabStep, RacesOnlyGrow DEF LoadsHarmless
    <3>2. \A p \in Project : /\ Cardinality(TasksOf(p)) \in Nat /\ Cardinality(TasksOf(p)') \in Nat
                             /\ Cardinality(TasksOf(p)) <= Cardinality(TasksOf(p)')
      BY ListStepIsTabStep, TasksRemain DEF TabInv
    <3> QED  BY <2>1, <3>1, <3>2 DEF CountedOnceWhenLoaded, ListInv, ListType
  <2>3. CountedAreShown'
    <3>1. CASE ServeList \/ UNCHANGED allVars
      BY <2>1, <3>1, NothingMoves DEF ServeList, allVars, vars, ListInv
    <3>2. ASSUME NEW i \in Load, ServeLoad(i) \/ LoadReturns(i) \/ LoadFails(i)
          PROVE  CountedAreShown'
      <4>1. CASE LoadFails(i)
        BY <4>1 DEF LoadFails, CountedAreShown, LoadsHarmless
      <4> QED  BY <2>1, <3>2, <4>1, ServedIsCounted, ReturnedIsCounted
    <3>3. CASE \/ Reload \/ ReceiveReady
               \/ \E p \in Project : SelectProject(p)
               \/ \E e \in replies : ReplyFails(e)
      <4>1. UNCHANGED board
        BY <3>3, StartsOne DEF TabInv
      <4> QED  BY <2>1, <3>3, <4>1, StartedBrings DEF TabInv, ListInv
    <3>4. CASE \/ \E t \in Task : OthersWrite(t) \/ OwnWrite(t)
               \/ \E e \in Event : Broadcast(e)
               \/ HubReads \/ Connect \/ ConnectEarly \/ ConnectGoesOn \/ SocketOpens \/ SocketCloses
      <4>1. UNCHANGED <<projectId, board, loads>>
        BY <3>4 DEF OthersWrite, OwnWrite, Broadcast, HubReads, Connect, ConnectEarly,
                    ConnectGoesOn, SocketOpens, SocketCloses
      <4> QED  BY <2>1, <4>1, NothingMoves DEF ListInv
    <3> QED  BY <1>4, <3>1, <3>2, <3>3, <3>4 DEF OtherStep, SocketStep
  <2> QED  BY <1>1, <2>2, <2>3 DEF ListInv
<1> QED  BY <1>2, <1>3, <1>4 DEF ListNext

-----------------------------------------------------------------------------
(* The theorems about ProjectList                                          *)

\* The inductive invariant: what the select counts for the selected project is
\* on the board or in an answer that will be (loadProjects, loadBoard and
\* updateProjectTaskCount of app.js).
THEOREM ListInvariant == ListSpec => [](TabInv /\ ListInv)
<1>1. ListInit => TabInv /\ ListInv
  BY InitTab, ListInitInv DEF ListInit
<1>2. TabInv /\ ListInv /\ [ListNext]_allVars => (TabInv /\ ListInv)'
  BY ListStepIsTabStep, TabStepInvariant, ListInvStep
<1> QED  BY <1>1, <1>2, PTL DEF ListSpec

\* The select never counts a task twice, however late or often its event and
\* the answers of listTasks and listProjects arrive, the excused races aside.
THEOREM NoTaskIsCountedTwice == ListSpec => []CountedOnceWhenLoaded
BY ListInvariant, PTL DEF ListInv

\* The numbers do not get into the way of the tab: every theorem about it holds
\* of the tab with its project select.
THEOREM ListIsATab == ListSpec => Spec
<1>1. ListInit => Init
  BY DEF ListInit
<1>2. [ListNext]_allVars => [Next]_vars
  BY ListStepIsTabStep
<1> QED  BY <1>1, <1>2, PTL DEF ListSpec, Spec
=============================================================================
