------------------------- MODULE BoardClientProofs -------------------------
(***************************************************************************)
(* Proofs about BoardClient, for any tasks and projects and any number of  *)
(* loads, connections and messages: the subscription and the board follow  *)
(* the selection, no event takes a task back, and what a settled tab shows *)
(* is what is committed, unless one of the known races has happened.       *)
(***************************************************************************)
EXTENDS BoardClient, SequenceTheorems, TLAPS

Connected == socket \in {"open", "ready"}

\* A socket that is not connected has nothing on it and no subscription.
IdleSocketIsEmpty == ~Connected => toHub = << >> /\ toTab = << >> /\ sub = NULL

\* The handshake: the authenticate message is the first one the tab sends, and
\* the hub answers it once.
AuthenticatesFirst ==
  \A i \in 1..Len(toHub) : toHub[i] = "authenticate" =>
    /\ i = 1
    /\ socket = "open"
    /\ \A j \in 1..Len(toTab) : toTab[j] # Ready

\* No version that the tab has, or that is on its way to it, is newer than the
\* committed one.
NothingNewer ==
  /\ \A t \in Task : board[t] <= db[t]
  /\ \A i \in Load : loads[i].snapshot # NULL =>
       \A t \in Task : loads[i].snapshot[t] <= db[t]
  /\ \A i \in 1..Len(toTab) : toTab[i] # Ready => toTab[i][2] <= db[toTab[i][1]]
  /\ \A e \in replies : e[2] <= db[e[1]]

\* An answer to loadBoard has tasks of the project it was asked for only.
AnswersFit ==
  \A i \in Load : loads[i].snapshot # NULL =>
    /\ loads[i].project # NULL
    /\ \A t \in Task : loads[i].snapshot[t] > 0 => ProjectOf[t] = loads[i].project

\* A connected tab is subscribed to the selected project, or has asked for it
\* last, or will ask when a load returns.
SubscriptionFollows ==
  socket = "ready" /\ "failed" \notin races =>
    \/ toHub = << >> /\ sub = projectId
    \/ toHub # << >> /\ toHub[Len(toHub)] = projectId
    \/ \E i \in Load : loads[i].after = "subscribe"

\* The board has tasks of the selected project only, or that project is being
\* loaded.
BoardFollows ==
  "failed" \notin races =>
    \/ \A t \in Task : board[t] > 0 => ProjectOf[t] = projectId
    \/ \E i \in Load : loads[i].project = projectId

\* A load of the selected project that shows what is committed: one that is
\* still to be answered, or that the next "ready" starts.
ReloadToCome ==
  \/ socket # "ready"
  \/ waiting > 0
  \/ \E i \in Load : loads[i].project = projectId /\ loads[i].snapshot = NULL

\* What brings the committed version of t to the board, or has brought it there.
OnItsWay(t) ==
  \/ board[t] = db[t]
  \/ ReloadToCome
  \/ \E i \in Load : /\ loads[i].project = projectId
                     /\ loads[i].snapshot # NULL
                     /\ loads[i].snapshot[t] = db[t]
  \/ <<t, db[t]>> \in unsent
  \/ \E i \in 1..Len(toTab) : toTab[i] = <<t, db[t]>>

\* Unless a race was lost, the board gets to know every committed version.
ChangesOnTheirWay ==
  races = {} => \A t \in Task : ProjectOf[t] = projectId => OnItsWay(t)

\* The inductive invariant of the tab.
TabInv ==
  /\ TypeOK
  /\ IdleSocketIsEmpty
  /\ AuthenticatesFirst
  /\ NothingNewer
  /\ AnswersFit
  /\ SubscriptionFollows
  /\ BoardFollows
  /\ ChangesOnTheirWay

-----------------------------------------------------------------------------
(* Facts about the parts of several actions                                *)

\* What TypeOK says of the loads.
LoadType == [project : Project \cup {NULL}, snapshot : Snapshot \cup {NULL},
             after : {"nothing", "subscribe", "connect"}]

\* A message at the end of a channel.
LEMMA AppendFacts ==
  ASSUME NEW S, NEW q \in Seq(S), NEW x \in S
  PROVE  /\ Append(q, x) \in Seq(S) /\ Append(q, x) # << >>
         /\ Len(q) \in Nat /\ Len(Append(q, x)) = Len(q) + 1
         /\ \A i \in 1..Len(q) : Append(q, x)[i] = q[i]
         /\ Append(q, x)[Len(q) + 1] = x
         /\ q = << >> => Len(q) = 0
OBVIOUS

\* Whatever is on a channel was there before, or is the message appended.
LEMMA AppendKeeps ==
  ASSUME NEW S, NEW q \in Seq(S), NEW x \in S
  PROVE  \A i \in 1..Len(Append(q, x)) :
           \/ i \in 1..Len(q) /\ Append(q, x)[i] = q[i]
           \/ i = Len(q) + 1 /\ Append(q, x)[i] = x
BY AppendFacts

\* A channel without its first message.
LEMMA TailFacts ==
  ASSUME NEW S, NEW q \in Seq(S), q # << >>
  PROVE  /\ Tail(q) \in Seq(S) /\ Head(q) \in S /\ Head(q) = q[1]
         /\ Len(q) \in Nat \ {0} /\ Len(Tail(q)) = Len(q) - 1
         /\ \A i \in 1..Len(Tail(q)) : Tail(q)[i] = q[i + 1]
         /\ Len(q) = 1 => Tail(q) = << >>
         /\ Tail(q) = << >> => Len(q) = 1
<1> DEFINE r == Tail(q)
<1>1. /\ r \in Seq(S) /\ Head(q) \in S /\ Head(q) = q[1]
      /\ Len(q) \in Nat \ {0} /\ Len(r) = Len(q) - 1
      /\ \A i \in 1..Len(r) : r[i] = q[i + 1]
  OBVIOUS
<1> HIDE DEF r
<1>2. r # << >> => Len(r) \in Nat \ {0}
  BY <1>1, EmptySeq
<1>3. r = << >> => Len(r) = 0
  OBVIOUS
<1> QED  BY <1>1, <1>2, <1>3 DEF r

\* A load that starts takes a free place and leaves the others alone.
LEMMA StartLoadFacts ==
  ASSUME TypeOK, NEW p \in Project, NEW after \in {"nothing", "subscribe", "connect"},
         StartLoad(p, after)
  PROVE  /\ loads' \in [Load -> LoadType]
         /\ \E i \in Load :
              /\ loads[i] = Free
              /\ loads'[i] = Asked(p, after)
              /\ \A j \in Load \ {i} : loads'[j] = loads[j]
<1>1. PICK i \in Load : /\ loads[i] = Free
                        /\ loads' = [loads EXCEPT ![i] = Asked(p, after)]
  BY DEF StartLoad
<1> QED  BY <1>1 DEF TypeOK, LoadType, Asked

\* What follows a load concerns the socket only.
LEMMA ContinueFacts ==
  ASSUME TypeOK, NEW after \in {"nothing", "subscribe", "connect"}, Continue(after)
  PROVE  /\ UNCHANGED <<socket, toTab, sub>>
         /\ waiting' \in 0..MaxConnects /\ waiting' >= waiting
         /\ toHub' \in Seq(Project \cup {"authenticate"})
         /\ \/ toHub' = toHub /\ after # "subscribe"
            \/ ~Connected /\ toHub' = toHub
            \/ Connected /\ toHub' = Append(toHub, projectId)
<1>1. CASE after = "nothing" /\ UNCHANGED socketVars
  BY <1>1 DEF socketVars, TypeOK
<1>2. CASE after = "subscribe" /\ SubscribeTo(projectId) /\ UNCHANGED <<socket, toTab, sub, waiting>>
  <2>1. toHub' = IF Connected THEN Append(toHub, projectId) ELSE toHub
    BY <1>2 DEF SubscribeTo, Connected
  <2>2. Append(toHub, projectId) \in Seq(Project \cup {"authenticate"})
    BY DEF TypeOK
  <2> QED  BY <1>2, <2>1, <2>2 DEF TypeOK
<1>3. CASE after = "connect" /\ AwaitToken /\ UNCHANGED <<socket, toHub, toTab, sub>>
  BY <1>3, ConstantsAssumption DEF AwaitToken, TypeOK
<1> QED  BY <1>1, <1>2, <1>3 DEF Continue

LEMMA InitTab == Init => TabInv
<1> SUFFICES ASSUME Init PROVE TabInv
  OBVIOUS
<1>1. /\ loads \in [Load -> LoadType]
      /\ \A i \in Load : loads[i].snapshot = NULL /\ loads[i].after # "subscribe"
      /\ 1 \in Load /\ loads[1].project = projectId
  <2>1. projectId \in Project /\ 1 \in Load
    BY ConstantsAssumption DEF Init, Load
  <2> QED  BY <2>1 DEF Init, LoadType, Free, Asked
<1>2. TypeOK
  <2>1. << >> \in Seq(Project \cup {"authenticate"}) /\ << >> \in Seq(Event \cup {Ready})
    OBVIOUS
  <2> QED  BY <1>1, <2>1, ConstantsAssumption DEF Init, TypeOK, LoadType, Snapshot, Version
<1>3. IdleSocketIsEmpty /\ AuthenticatesFirst
  BY DEF Init, IdleSocketIsEmpty, AuthenticatesFirst, Connected
<1>4. NothingNewer /\ AnswersFit
  BY <1>1 DEF Init, NothingNewer, AnswersFit
<1>5. SubscriptionFollows /\ BoardFollows /\ ChangesOnTheirWay
  BY <1>1 DEF Init, SubscriptionFollows, BoardFollows, ChangesOnTheirWay, OnItsWay
<1> QED  BY <1>2, <1>3, <1>4, <1>5 DEF TabInv

-----------------------------------------------------------------------------
(* Types                                                                   *)

LEMMA WriteTypes ==
  ASSUME TypeOK, NEW t \in Task, OthersWrite(t) \/ OwnWrite(t)
  PROVE  /\ TypeOK' /\ db[t] \in Nat /\ db' = [db EXCEPT ![t] = @ + 1]
         /\ unsent' = unsent \cup {<<t, db[t] + 1>>}
<1>1. /\ db' = [db EXCEPT ![t] = @ + 1] /\ db[t] \in Nat /\ db[t] < MaxVersion
      /\ unsent' = unsent \cup {<<t, db[t] + 1>>}
  BY ConstantsAssumption DEF OthersWrite, OwnWrite, Committed, TypeOK, Snapshot, Version
<1>2. db' \in Snapshot /\ <<t, db[t] + 1>> \in Event
  BY <1>1, ConstantsAssumption DEF TypeOK, Snapshot, Version, Event
<1>3. replies' \subseteq Event
  BY <1>2 DEF OthersWrite, OwnWrite, TypeOK
<1>4. UNCHANGED <<projectId, board, loads, socketVars, races>>
  BY DEF OthersWrite, OwnWrite
<1> QED  BY <1>1, <1>2, <1>3, <1>4 DEF TypeOK, socketVars

LEMMA BroadcastTypes ==
  ASSUME TypeOK, NEW e \in Event, Broadcast(e)
  PROVE  TypeOK'
<1>1. toTab' \in Seq(Event \cup {Ready})
  <2>1. Append(toTab, e) \in Seq(Event \cup {Ready})
    BY DEF TypeOK
  <2> QED  BY <2>1 DEF Broadcast, TypeOK
<1> QED  BY <1>1 DEF Broadcast, TypeOK

LEMMA LoadTypes ==
  ASSUME TypeOK, NEW i \in Load, ServeLoad(i) \/ LoadReturns(i) \/ LoadFails(i)
  PROVE  TypeOK'
<1>0. Free \in LoadType
  BY DEF Free, Asked, LoadType
<1>1. CASE ServeLoad(i)
  <2> DEFINE answer == [t \in Task |-> IF ProjectOf[t] = loads[i].project THEN db[t] ELSE 0]
  <2>1. answer \in Snapshot
    BY ConstantsAssumption DEF TypeOK, Snapshot, Version
  <2>2. loads' = [loads EXCEPT ![i].snapshot = answer] /\ loads \in [Load -> LoadType]
    BY <1>1 DEF ServeLoad, TypeOK, LoadType
  <2> HIDE DEF answer
  <2>3. [loads[i] EXCEPT !.snapshot = answer] \in LoadType
    BY <2>1, <2>2 DEF LoadType
  <2>4. loads' \in [Load -> LoadType]
    BY <2>2, <2>3
  <2> QED  BY <1>1, <2>4 DEF ServeLoad, TypeOK, LoadType, socketVars, dataVars
<1>2. CASE LoadReturns(i)
  <2>1. /\ UNCHANGED <<socket, toTab, sub, dataVars, projectId, replies>>
        /\ waiting' \in 0..MaxConnects
        /\ toHub' \in Seq(Project \cup {"authenticate"})
    BY <1>2, ContinueFacts DEF LoadReturns, TypeOK
  <2>2. board' \in Snapshot
    BY <1>2 DEF LoadReturns, TypeOK
  <2>3. loads' \in [Load -> LoadType]
    BY <1>0, <1>2 DEF LoadReturns, TypeOK, LoadType
  <2>4. races' \subseteq {"overwritten", "skipped", "failed"}
    BY <1>2 DEF LoadReturns, TypeOK
  <2> QED  BY <2>1, <2>2, <2>3, <2>4 DEF TypeOK, LoadType, dataVars
<1>3. CASE LoadFails(i)
  <2>1. loads' \in [Load -> LoadType]
    BY <1>0, <1>3 DEF LoadFails, TypeOK, LoadType
  <2> QED  BY <1>3, <2>1 DEF LoadFails, TypeOK, LoadType, socketVars, dataVars
<1> QED  BY <1>1, <1>2, <1>3

\* A subscription is sent to a connected hub only.
LEMMA SubscribeFacts ==
  ASSUME TypeOK, NEW p \in Project, SubscribeTo(p)
  PROVE  /\ toHub' \in Seq(Project \cup {"authenticate"})
         /\ toHub' = IF Connected THEN Append(toHub, p) ELSE toHub
<1>1. Append(toHub, p) \in Seq(Project \cup {"authenticate"})
  BY DEF TypeOK
<1> QED  BY <1>1 DEF SubscribeTo, Connected, TypeOK

LEMMA ApplyFacts ==
  ASSUME TypeOK, NEW t \in Task, NEW v \in Version, applyTask(t, v)
  PROVE  /\ board' \in Snapshot
         /\ \A u \in Task : board'[u] >= board[u]
         /\ \A u \in Task : board'[u] = board[u] \/ (u = t /\ board'[u] = v)
         /\ \A u \in Task : board'[u] # board[u] => ProjectOf[u] = projectId
         /\ ProjectOf[t] = projectId => board'[t] >= v
BY ConstantsAssumption DEF TypeOK, Snapshot, Version, applyTask

LEMMA CallbackTypes ==
  ASSUME TypeOK,
         \/ Reload
         \/ \E p \in Project : SelectProject(p) \/ OpenCreatedProject(p)
         \/ \E e \in replies : ReplyArrives(e) \/ ReplyFails(e)
         \/ ReceiveEvent
         \/ ReceiveReady
  PROVE  TypeOK'
<1>1. CASE Reload
  <2>1. loads' \in [Load -> LoadType]
    BY <1>1, StartLoadFacts DEF Reload, TypeOK
  <2> QED  BY <1>1, <2>1 DEF Reload, TypeOK, LoadType, dataVars, socketVars
<1>2. ASSUME NEW p \in Project, SelectProject(p)
      PROVE  TypeOK'
  <2>1. loads' \in [Load -> LoadType]
    BY <1>2, StartLoadFacts DEF SelectProject
  <2>2. toHub' \in Seq(Project \cup {"authenticate"})
    BY <1>2, SubscribeFacts DEF SelectProject
  <2> QED  BY <1>2, <2>1, <2>2 DEF SelectProject, TypeOK, LoadType, dataVars
<1>3. ASSUME NEW p \in Project, OpenCreatedProject(p)
      PROVE  TypeOK'
  <2>1. loads' \in [Load -> LoadType]
    BY <1>3, StartLoadFacts DEF OpenCreatedProject
  <2> QED  BY <1>3, <2>1 DEF OpenCreatedProject, TypeOK, LoadType, dataVars, socketVars
<1>4. ASSUME NEW e \in replies, ReplyArrives(e)
      PROVE  TypeOK'
  <2>1. e[1] \in Task /\ e[2] \in Version
    BY DEF TypeOK, Event
  <2>2. board' \in Snapshot
    BY <1>4, <2>1, ApplyFacts DEF ReplyArrives
  <2> QED  BY <1>4, <2>2 DEF ReplyArrives, TypeOK, LoadType, dataVars, socketVars
<1>5. ASSUME NEW e \in replies, ReplyFails(e)
      PROVE  TypeOK'
  <2>1. loads' \in [Load -> LoadType]
    <3>1. CASE e[2] = 1
      BY <1>5, <3>1 DEF ReplyFails, TypeOK, LoadType
    <3>2. CASE e[2] # 1
      BY <1>5, <3>2, StartLoadFacts DEF ReplyFails, TypeOK
    <3> QED  BY <3>1, <3>2
  <2> QED  BY <1>5, <2>1 DEF ReplyFails, TypeOK, LoadType, dataVars, socketVars
<1>6. CASE ReceiveEvent
  <2>1. Tail(toTab) \in Seq(Event \cup {Ready}) /\ Head(toTab) \in Event
    BY <1>6 DEF ReceiveEvent, TypeOK
  <2>2. Head(toTab)[1] \in Task /\ Head(toTab)[2] \in Version
    BY <2>1 DEF Event
  <2>3. board' \in Snapshot
    BY <1>6, <2>2, ApplyFacts DEF ReceiveEvent
  <2> QED  BY <1>6, <2>1, <2>3 DEF ReceiveEvent, TypeOK, LoadType, dataVars
<1>7. CASE ReceiveReady
  <2>1. Tail(toTab) \in Seq(Event \cup {Ready})
    BY <1>7 DEF ReceiveReady, TypeOK
  <2>2. loads' \in [Load -> LoadType]
    BY <1>7, StartLoadFacts DEF ReceiveReady, TypeOK
  <2>3. toHub' \in Seq(Project \cup {"authenticate"})
    BY <1>7, SubscribeFacts DEF ReceiveReady, TypeOK
  <2> QED  BY <1>7, <2>1, <2>2, <2>3 DEF ReceiveReady, TypeOK, LoadType, dataVars
<1> QED  BY <1>1, <1>2, <1>3, <1>4, <1>5, <1>6, <1>7

LEMMA SocketTypes ==
  ASSUME TypeOK,
         HubReads \/ Connect \/ ConnectEarly \/ ConnectGoesOn \/ SocketOpens \/ SocketCloses
  PROVE  TypeOK'
<1>0. << >> \in Seq(Project \cup {"authenticate"}) /\ << >> \in Seq(Event \cup {Ready})
  OBVIOUS
<1>1. CASE HubReads
  <2>1. Tail(toHub) \in Seq(Project \cup {"authenticate"})
        /\ Head(toHub) \in Project \cup {"authenticate"}
    BY <1>1 DEF HubReads, TypeOK
  <2>2. Append(toTab, Ready) \in Seq(Event \cup {Ready})
    BY DEF TypeOK
  <2> QED  BY <1>1, <2>1, <2>2 DEF HubReads, TypeOK, LoadType, dataVars
<1>2. CASE Connect \/ ConnectEarly
  <2>1. waiting' \in 0..MaxConnects
    BY <1>2, ConstantsAssumption DEF Connect, ConnectEarly, AwaitToken, TypeOK
  <2>2. UNCHANGED <<dataVars, projectId, board, loads, replies, socket, toHub, toTab, sub, races>>
    BY <1>2 DEF Connect, ConnectEarly
  <2> QED  BY <2>1, <2>2 DEF TypeOK, dataVars
<1>3. CASE ConnectGoesOn
  BY <1>0, <1>3, ConstantsAssumption DEF ConnectGoesOn, NewSocket, TypeOK, dataVars
<1>4. CASE SocketOpens
  <2>1. Append(toHub, "authenticate") \in Seq(Project \cup {"authenticate"})
    BY DEF TypeOK
  <2> QED  BY <1>4, <2>1 DEF SocketOpens, TypeOK, dataVars
<1>5. CASE SocketCloses
  BY <1>0, <1>5 DEF SocketCloses, TypeOK, dataVars
<1> QED  BY <1>1, <1>2, <1>3, <1>4, <1>5

LEMMA NextTypes == TypeOK /\ [Next]_vars => TypeOK'
<1> SUFFICES ASSUME TypeOK, [Next]_vars PROVE TypeOK'
  OBVIOUS
<1>1. ASSUME UNCHANGED vars PROVE TypeOK'
  BY <1>1 DEF vars, dataVars, socketVars, TypeOK
<1>2. ASSUME TabStep PROVE TypeOK'
  BY <1>2, LoadTypes, CallbackTypes, SocketTypes DEF TabStep, SocketStep
<1> QED  BY <1>1, <1>2, WriteTypes, BroadcastTypes DEF Next

-----------------------------------------------------------------------------
(* The socket                                                              *)

\* Steps that have nothing to do with the socket.
LEMMA SocketUntouched ==
  ASSUME \/ \E t \in Task : OthersWrite(t) \/ OwnWrite(t)
         \/ \E i \in Load : ServeLoad(i) \/ LoadFails(i)
         \/ Reload
         \/ \E p \in Project : OpenCreatedProject(p)
         \/ \E e \in replies : ReplyArrives(e) \/ ReplyFails(e)
         \/ UNCHANGED vars
  PROVE  UNCHANGED <<socket, toHub, toTab, sub, waiting>>
BY DEF OthersWrite, OwnWrite, ServeLoad, LoadFails, Reload, OpenCreatedProject,
       ReplyArrives, ReplyFails, socketVars, vars

\* Messages are only on a connected socket.
LEMMA OnlyConnected ==
  ASSUME TypeOK, IdleSocketIsEmpty
  PROVE  /\ sub # NULL => Connected
         /\ toTab # << >> => Connected
         /\ toHub # << >> => Connected
BY DEF IdleSocketIsEmpty

LEMMA IdleStep ==
  ASSUME TypeOK, IdleSocketIsEmpty, [Next]_vars
  PROVE  IdleSocketIsEmpty'
<1>1. ASSUME UNCHANGED <<socket, toHub, toTab, sub, waiting>>
      PROVE  IdleSocketIsEmpty'
  BY <1>1 DEF IdleSocketIsEmpty, Connected
<1>2. ASSUME NEW e \in Event, Broadcast(e)
      PROVE  IdleSocketIsEmpty'
  <2>1. ProjectOf[e[1]] # NULL
    BY ConstantsAssumption DEF Event
  <2> QED  BY <1>2, <2>1 DEF Broadcast, IdleSocketIsEmpty, Connected
<1>3. ASSUME NEW i \in Load, LoadReturns(i)
      PROVE  IdleSocketIsEmpty'
  <2>1. loads[i].after \in {"nothing", "subscribe", "connect"}
    BY DEF TypeOK
  <2> QED  BY <1>3, <2>1, ContinueFacts DEF LoadReturns, IdleSocketIsEmpty, Connected
<1>4. ASSUME NEW p \in Project, SelectProject(p)
      PROVE  IdleSocketIsEmpty'
  BY <1>4, SubscribeFacts DEF SelectProject, IdleSocketIsEmpty, Connected
<1>5. CASE HubReads \/ Connect \/ ConnectEarly
  BY <1>5 DEF HubReads, Connect, ConnectEarly, IdleSocketIsEmpty, Connected
<1>6. CASE ConnectGoesOn \/ SocketOpens \/ SocketCloses
  BY <1>6 DEF ConnectGoesOn, NewSocket, SocketOpens, SocketCloses, IdleSocketIsEmpty, Connected
<1>7. CASE ReceiveReady
  BY <1>7 DEF ReceiveReady, IdleSocketIsEmpty, Connected
<1>8. CASE ReceiveEvent
  BY <1>8 DEF ReceiveEvent, IdleSocketIsEmpty, Connected
<1> QED  BY <1>1, <1>2, <1>3, <1>4, <1>5, <1>6, <1>7, <1>8, SocketUntouched
         DEF Next, TabStep, SocketStep

LEMMA HandshakeStep ==
  ASSUME TypeOK, IdleSocketIsEmpty, AuthenticatesFirst, [Next]_vars
  PROVE  AuthenticatesFirst'
<1>0. \A p \in Project : p # "authenticate"
  BY ConstantsAssumption
<1>1. ASSUME UNCHANGED <<socket, toHub, toTab, sub, waiting>>
      PROVE  AuthenticatesFirst'
  BY <1>1 DEF AuthenticatesFirst
<1>2. ASSUME NEW e \in Event, Broadcast(e)
      PROVE  AuthenticatesFirst'
  <2>1. e # Ready
    BY DEF Event, Ready
  <2>2. \/ toTab' = toTab
        \/ /\ \A j \in 1..Len(toTab) : toTab'[j] = toTab[j]
           /\ Len(toTab') = Len(toTab) + 1 /\ Len(toTab) \in Nat
           /\ toTab'[Len(toTab) + 1] = e
    <3>1. toTab \in Seq(Event \cup {Ready}) /\ e \in Event \cup {Ready}
      BY DEF TypeOK
    <3>2. toTab' = toTab \/ toTab' = Append(toTab, e)
      BY <1>2 DEF Broadcast
    <3> QED  BY <3>1, <3>2, AppendFacts
  <2>3. \A j \in 1..Len(toTab') : toTab'[j] = Ready => j \in 1..Len(toTab) /\ toTab[j] = Ready
    BY <2>1, <2>2
  <2>4. UNCHANGED <<socket, toHub>>
    BY <1>2 DEF Broadcast
  <2> QED  BY <2>3, <2>4 DEF AuthenticatesFirst
<1>3. ASSUME NEW p \in Project, toHub' = Append(toHub, p) \/ toHub' = toHub, UNCHANGED <<socket, toTab>>
      PROVE  AuthenticatesFirst'
  <2>1. \A i \in 1..Len(toHub') :
           toHub'[i] = "authenticate" => i \in 1..Len(toHub) /\ toHub[i] = "authenticate"
    <3>1. toHub \in Seq(Project \cup {"authenticate"}) /\ p \in Project \cup {"authenticate"}
      BY DEF TypeOK
    <3> QED  BY <1>0, <1>3, <3>1, AppendKeeps
  <2> QED  BY <1>3, <2>1 DEF AuthenticatesFirst
<1>4. ASSUME NEW i \in Load, LoadReturns(i)
      PROVE  AuthenticatesFirst'
  <2>1. loads[i].after \in {"nothing", "subscribe", "connect"} /\ projectId \in Project
    BY DEF TypeOK
  <2>2. /\ UNCHANGED <<socket, toTab>>
        /\ toHub' = Append(toHub, projectId) \/ toHub' = toHub
    BY <1>4, <2>1, ContinueFacts DEF LoadReturns
  <2> QED  BY <1>3, <2>1, <2>2
<1>5. ASSUME NEW p \in Project, SelectProject(p)
      PROVE  AuthenticatesFirst'
  BY <1>3, <1>5, SubscribeFacts DEF SelectProject
<1>6. CASE HubReads
  <2>1. \A i \in 1..Len(toHub') : toHub'[i] # "authenticate"
    <3>1. toHub # << >> /\ toHub' = Tail(toHub) /\ toHub \in Seq(Project \cup {"authenticate"})
      BY <1>6 DEF HubReads, TypeOK
    <3>2. \A i \in 1..Len(toHub') : toHub'[i] = toHub[i + 1] /\ i + 1 \in 1..Len(toHub) /\ i + 1 # 1
      BY <3>1, TailFacts
    <3> QED  BY <3>2 DEF AuthenticatesFirst
  <2> QED  BY <2>1 DEF AuthenticatesFirst
<1>7. CASE Connect \/ ConnectEarly
  BY <1>7 DEF Connect, ConnectEarly, AuthenticatesFirst
<1>8. CASE ConnectGoesOn \/ SocketCloses
  BY <1>8 DEF ConnectGoesOn, NewSocket, SocketCloses, AuthenticatesFirst
<1>9. CASE SocketOpens
  <2>1. toHub = << >> /\ toTab = << >> /\ socket' = "open" /\ toTab' = toTab
        /\ toHub' = Append(toHub, "authenticate")
    BY <1>9 DEF SocketOpens, IdleSocketIsEmpty, Connected
  <2>2. \A i \in 1..Len(toHub') : i = 1
    BY <2>1
  <2> QED  BY <2>1, <2>2 DEF AuthenticatesFirst
<1>10. CASE ReceiveReady
  <2>1. toTab # << >> /\ Head(toTab) = Ready /\ toHub' = IF Connected THEN Append(toHub, projectId) ELSE toHub
    BY <1>10, SubscribeFacts DEF ReceiveReady, TypeOK
  <2>2. 1 \in 1..Len(toTab) /\ toTab[1] = Ready
    BY <2>1, TailFacts DEF TypeOK
  <2>3. \A i \in 1..Len(toHub) : toHub[i] # "authenticate"
    BY <2>2 DEF AuthenticatesFirst
  <2>4. \A i \in 1..Len(toHub') : toHub'[i] # "authenticate"
    <3>1. toHub \in Seq(Project \cup {"authenticate"}) /\ projectId \in Project
      BY DEF TypeOK
    <3> QED  BY <1>0, <2>1, <2>3, <3>1, AppendKeeps
  <2> QED  BY <2>4 DEF AuthenticatesFirst
<1>11. CASE ReceiveEvent
  <2>1. toTab # << >> /\ toTab' = Tail(toTab) /\ toTab \in Seq(Event \cup {Ready})
    BY <1>11 DEF ReceiveEvent, TypeOK
  <2>2. \A j \in 1..Len(toTab') : j + 1 \in 1..Len(toTab) /\ toTab'[j] = toTab[j + 1]
    BY <2>1, TailFacts
  <2>3. UNCHANGED <<socket, toHub>>
    BY <1>11 DEF ReceiveEvent
  <2> QED  BY <2>2, <2>3 DEF AuthenticatesFirst
<1> QED  BY <1>1, <1>2, <1>4, <1>5, <1>6, <1>7, <1>8, <1>9, <1>10, <1>11, SocketUntouched
         DEF Next, TabStep, SocketStep

-----------------------------------------------------------------------------
(* What the tab has, and what is on its way to it                          *)

\* A step that starts, answers or ends a load has nothing to do with the others.
Keeps(i) == \A j \in Load \ {i} : loads'[j] = loads[j]

\* The steps that start a load, and nothing else that concerns the board.
LEMMA StartsOne ==
  ASSUME TypeOK,
         \/ Reload
         \/ \E p \in Project : SelectProject(p) \/ OpenCreatedProject(p)
         \/ \E e \in replies : ReplyFails(e)
         \/ ReceiveReady
  PROVE  /\ UNCHANGED <<dataVars, board, races>> /\ replies' \subseteq replies
         /\ \/ UNCHANGED <<loads, socketVars, projectId>>
            \/ \E i \in Load : \E after \in {"nothing", "subscribe"} :
                 /\ loads[i] = Free
                 /\ loads'[i] = Asked(projectId', after)
                 /\ Keeps(i)
<1>1. CASE Reload
  BY <1>1, StartLoadFacts DEF Reload, TypeOK, Keeps
<1>2. ASSUME NEW p \in Project, SelectProject(p)
      PROVE  /\ UNCHANGED <<dataVars, board, races, replies>>
             /\ \E i \in Load : loads[i] = Free /\ loads'[i] = Asked(projectId', "nothing") /\ Keeps(i)
  <2>1. projectId' = p
    BY <1>2 DEF SelectProject
  <2>2. StartLoad(p, "nothing")
    BY <1>2 DEF SelectProject
  <2>3. UNCHANGED <<dataVars, board, races, replies>>
    BY <1>2 DEF SelectProject
  <2> QED  BY <2>1, <2>2, <2>3, StartLoadFacts DEF Keeps
<1>3. ASSUME NEW p \in Project, OpenCreatedProject(p)
      PROVE  /\ UNCHANGED <<dataVars, board, races, replies>>
             /\ \E i \in Load : loads[i] = Free /\ loads'[i] = Asked(projectId', "subscribe") /\ Keeps(i)
  BY <1>3, StartLoadFacts DEF OpenCreatedProject, Keeps
<1>4. ASSUME NEW e \in replies, ReplyFails(e)
      PROVE  /\ UNCHANGED <<dataVars, board, races, projectId, socketVars>> /\ replies' \subseteq replies
             /\ \/ UNCHANGED loads
                \/ \E i \in Load : loads[i] = Free /\ loads'[i] = Asked(projectId, "nothing") /\ Keeps(i)
  <2>1. CASE e[2] = 1
    BY <1>4, <2>1 DEF ReplyFails
  <2>2. CASE e[2] # 1
    BY <1>4, <2>2, StartLoadFacts DEF ReplyFails, TypeOK, Keeps
  <2> QED  BY <2>1, <2>2
<1>5. CASE ReceiveReady
  BY <1>5, StartLoadFacts DEF ReceiveReady, TypeOK, Keeps
<1> QED  BY <1>1, <1>2, <1>3, <1>4, <1>5

\* What an answer to loadBoard shows.
LEMMA ServeFacts ==
  ASSUME TypeOK, NEW i \in Load, ServeLoad(i)
  PROVE  /\ loads'[i].project = loads[i].project /\ loads[i].project # NULL
         /\ loads'[i].after = loads[i].after
         /\ \A t \in Task : loads'[i].snapshot[t]
                             = IF ProjectOf[t] = loads[i].project THEN db[t] ELSE 0
         /\ Keeps(i) /\ loads[i].snapshot = NULL
         /\ UNCHANGED <<dataVars, projectId, board, replies, socketVars, races>>
<1> DEFINE answer == [t \in Task |-> IF ProjectOf[t] = loads[i].project THEN db[t] ELSE 0]
<1>1. loads' = [loads EXCEPT ![i].snapshot = answer] /\ loads \in [Load -> LoadType]
  BY DEF ServeLoad, TypeOK, LoadType
<1>2. /\ loads[i].project # NULL /\ loads[i].snapshot = NULL
      /\ UNCHANGED <<dataVars, projectId, board, replies, socketVars, races>>
  BY DEF ServeLoad
<1>3. \A t \in Task : answer[t] = IF ProjectOf[t] = loads[i].project THEN db[t] ELSE 0
  OBVIOUS
<1> HIDE DEF answer
<1>4. /\ loads'[i].project = loads[i].project /\ loads'[i].after = loads[i].after
      /\ loads'[i].snapshot = answer /\ Keeps(i)
  BY <1>1 DEF LoadType, Keeps
<1> QED  BY <1>2, <1>3, <1>4

\* A load that ends gives up its place.
LEMMA EndsOne ==
  ASSUME TypeOK, NEW i \in Load, LoadReturns(i) \/ LoadFails(i)
  PROVE  /\ loads'[i] = Free /\ Keeps(i)
         /\ UNCHANGED <<dataVars, projectId, replies, toTab, socket>>
         /\ \/ LoadFails(i) /\ UNCHANGED board /\ "failed" \in races'
            \/ /\ loads[i].snapshot # NULL /\ races \subseteq races'
               /\ \/ loads[i].project # projectId /\ UNCHANGED board
                  \/ loads[i].project = projectId /\ board' = loads[i].snapshot
<1>1. CASE LoadReturns(i)
  <2>1. loads[i].after \in {"nothing", "subscribe", "connect"}
    BY DEF TypeOK
  <2>2. UNCHANGED <<socket, toTab>>
    BY <1>1, <2>1, ContinueFacts DEF LoadReturns
  <2> QED  BY <1>1, <2>2 DEF LoadReturns, TypeOK, Keeps, StillWanted
<1>2. CASE LoadFails(i)
  BY <1>2 DEF LoadFails, TypeOK, Keeps, socketVars
<1> QED  BY <1>1, <1>2

\* Steps that leave the loads alone.
LEMMA LoadsUntouched ==
  ASSUME \/ \E t \in Task : OthersWrite(t) \/ OwnWrite(t)
         \/ \E e \in Event : Broadcast(e)
         \/ \E e \in replies : ReplyArrives(e)
         \/ ReceiveEvent
         \/ HubReads \/ Connect \/ ConnectEarly \/ ConnectGoesOn \/ SocketOpens \/ SocketCloses
         \/ UNCHANGED vars
  PROVE  UNCHANGED <<projectId, loads>>
BY DEF OthersWrite, OwnWrite, Broadcast, ReplyArrives, ReceiveEvent, HubReads, Connect,
       ConnectEarly, ConnectGoesOn, SocketOpens, SocketCloses, vars

LEMMA AnswersFitStep ==
  ASSUME TypeOK, AnswersFit, [Next]_vars
  PROVE  AnswersFit'
<1>1. ASSUME UNCHANGED loads PROVE AnswersFit'
  BY <1>1 DEF AnswersFit
<1>2. ASSUME NEW i \in Load, Keeps(i), loads'[i].snapshot = NULL PROVE AnswersFit'
  BY <1>2 DEF AnswersFit, Keeps
<1>3. ASSUME NEW i \in Load, ServeLoad(i) PROVE AnswersFit'
  BY <1>3, ServeFacts DEF AnswersFit, Keeps
<1>4. ASSUME NEW i \in Load, LoadReturns(i) \/ LoadFails(i) PROVE AnswersFit'
  BY <1>2, <1>4, EndsOne DEF Free, Asked
<1>5. ASSUME \/ Reload
             \/ \E p \in Project : SelectProject(p) \/ OpenCreatedProject(p)
             \/ \E e \in replies : ReplyFails(e)
             \/ ReceiveReady
      PROVE  AnswersFit'
  BY <1>1, <1>2, <1>5, StartsOne DEF Asked
<1> QED  BY <1>1, <1>3, <1>4, <1>5, LoadsUntouched DEF Next, TabStep, SocketStep

\* The parts of NothingNewer.
NewestOnBoard == \A t \in Task : board[t] <= db[t]
NewestLoads   == \A i \in Load : loads[i].snapshot # NULL =>
                   \A t \in Task : loads[i].snapshot[t] <= db[t]
NewestToTab   == \A i \in 1..Len(toTab) :
                   toTab[i] # Ready => toTab[i][2] <= db[toTab[i][1]]
NewestReplies == \A e \in replies : e[2] <= db[e[1]]

LEMMA NothingNewerParts ==
  NothingNewer <=> NewestOnBoard /\ NewestLoads /\ NewestToTab /\ NewestReplies
BY DEF NothingNewer, NewestOnBoard, NewestLoads, NewestToTab, NewestReplies

\* The database only grows.
LEMMA WritesRaise ==
  ASSUME TypeOK, NothingNewer, NEW u \in Task, OthersWrite(u) \/ OwnWrite(u)
  PROVE  NothingNewer'
<1>1. /\ db' = [db EXCEPT ![u] = @ + 1] /\ db[u] \in Nat /\ TypeOK'
      /\ UNCHANGED <<board, loads, toTab>>
      /\ replies' \subseteq replies \cup {<<u, db[u] + 1>>}
  BY WriteTypes DEF OthersWrite, OwnWrite, socketVars
<1>2. \A t \in Task : db[t] \in Nat /\ db'[t] \in Nat /\ db'[t] >= db[t]
  BY <1>1, ConstantsAssumption DEF TypeOK, Snapshot, Version
<1>3. db'[u] = db[u] + 1
  BY <1>1 DEF TypeOK, Snapshot
<1>4. NewestOnBoard'
  <2>1. \A t \in Task : board[t] \in Nat /\ board[t] <= db[t]
    BY ConstantsAssumption, NothingNewerParts DEF TypeOK, Snapshot, Version, NewestOnBoard
  <2> QED  BY <1>1, <1>2, <2>1 DEF NewestOnBoard
<1>5. NewestLoads'
  <2>1. \A i \in Load : loads[i].snapshot # NULL =>
          \A t \in Task : loads[i].snapshot[t] \in Nat /\ loads[i].snapshot[t] <= db[t]
    BY ConstantsAssumption, NothingNewerParts DEF TypeOK, Snapshot, Version, NewestLoads
  <2> QED  BY <1>1, <1>2, <2>1 DEF NewestLoads
<1>6. NewestToTab'
  <2>1. \A i \in 1..Len(toTab) : toTab[i] # Ready =>
          toTab[i][1] \in Task /\ toTab[i][2] \in Nat /\ toTab[i][2] <= db[toTab[i][1]]
    <3>1. \A i \in 1..Len(toTab) : toTab[i] \in Event \cup {Ready}
      BY DEF TypeOK
    <3>2. \A e \in Event : e[1] \in Task /\ e[2] \in Nat
      BY ConstantsAssumption DEF Event, Version
    <3> QED  BY <3>1, <3>2, NothingNewerParts DEF NewestToTab
  <2> QED  BY <1>1, <1>2, <2>1 DEF NewestToTab
<1>7. NewestReplies'
  <2>1. \A e \in replies : e[1] \in Task /\ e[2] \in Nat /\ e[2] <= db[e[1]]
    BY ConstantsAssumption, NothingNewerParts DEF TypeOK, Event, Version, NewestReplies
  <2> QED  BY <1>1, <1>2, <1>3, <2>1 DEF NewestReplies
<1> QED  BY <1>4, <1>5, <1>6, <1>7, NothingNewerParts
         DEF NothingNewer, NewestOnBoard, NewestLoads, NewestToTab, NewestReplies

\* Events are of committed versions, and the ones that arrive only leave.
LEMMA ChannelStep ==
  ASSUME TypeOK, NewestToTab, [Next]_vars, UNCHANGED db
  PROVE  NewestToTab'
<1>0. toTab \in Seq(Event \cup {Ready})
  BY DEF TypeOK
<1>1. ASSUME UNCHANGED toTab \/ toTab' = << >> PROVE NewestToTab'
  BY <1>1 DEF NewestToTab
<1>2. ASSUME NEW e \in Event \cup {Ready}, e # Ready => e[2] <= db[e[1]], toTab' = Append(toTab, e)
      PROVE  NewestToTab'
  BY <1>0, <1>2, AppendKeeps DEF NewestToTab
<1>3. ASSUME toTab # << >>, toTab' = Tail(toTab) PROVE NewestToTab'
  <2>1. \A j \in 1..Len(toTab') : j + 1 \in 1..Len(toTab) /\ toTab'[j] = toTab[j + 1]
    BY <1>0, <1>3, TailFacts
  <2> QED  BY <2>1 DEF NewestToTab
<1>4. ASSUME NEW e \in Event, Broadcast(e) PROVE NewestToTab'
  BY <1>1, <1>2, <1>4 DEF Broadcast
<1>5. CASE HubReads
  BY <1>1, <1>2, <1>5 DEF HubReads
<1>6. ASSUME NEW i \in Load, ServeLoad(i) \/ LoadReturns(i) \/ LoadFails(i) PROVE NewestToTab'
  BY <1>1, <1>6, EndsOne, ServeFacts DEF socketVars
<1>7. CASE ReceiveReady \/ ReceiveEvent
  BY <1>3, <1>7 DEF ReceiveReady, ReceiveEvent
<1>8. ASSUME NEW p \in Project, SelectProject(p) PROVE NewestToTab'
  BY <1>1, <1>8 DEF SelectProject
<1>9. CASE Connect \/ ConnectEarly \/ ConnectGoesOn \/ SocketOpens \/ SocketCloses
  BY <1>1, <1>9 DEF Connect, ConnectEarly, ConnectGoesOn, NewSocket, SocketOpens, SocketCloses
<1> QED  BY <1>1, <1>4, <1>5, <1>6, <1>7, <1>8, <1>9, SocketUntouched
         DEF Next, TabStep, SocketStep

LEMMA NothingNewerStep ==
  ASSUME TypeOK, NothingNewer, [Next]_vars
  PROVE  NothingNewer'
<1>0. NewestOnBoard /\ NewestLoads /\ NewestToTab /\ NewestReplies
  BY NothingNewerParts
<1>1. ASSUME NEW u \in Task, OthersWrite(u) \/ OwnWrite(u) PROVE NothingNewer'
  BY <1>1, WritesRaise
<1> DEFINE Others == UNCHANGED db /\ NewestOnBoard' /\ NewestLoads' /\ NewestReplies'
<1>2. ASSUME Others PROVE NothingNewer'
  <2>1. NewestToTab'
    BY <1>0, <1>2, ChannelStep
  <2> QED  BY <1>2, <2>1
           DEF NothingNewer, NewestOnBoard, NewestLoads, NewestToTab, NewestReplies
<1>3. ASSUME UNCHANGED db, UNCHANGED board \/ NewestOnBoard', UNCHANGED loads, replies' \subseteq replies
      PROVE  Others
  BY <1>0, <1>3 DEF NewestOnBoard, NewestLoads, NewestReplies
<1>4. ASSUME NEW e \in Event, Broadcast(e) PROVE Others
  BY <1>3, <1>4 DEF Broadcast
<1>5. ASSUME NEW i \in Load, ServeLoad(i) PROVE Others
  <2>1. NewestLoads'
    <3>1. \A t \in Task : db[t] \in Nat
      BY ConstantsAssumption DEF TypeOK, Snapshot, Version
    <3>2. \A t \in Task : loads'[i].snapshot[t] <= db[t]
      BY <1>5, <3>1, ServeFacts
    <3>3. UNCHANGED db /\ Keeps(i)
      BY <1>5, ServeFacts DEF dataVars
    <3> QED  BY <1>0, <3>2, <3>3 DEF NewestLoads, Keeps
  <2> QED  BY <1>0, <1>5, <2>1, ServeFacts DEF NewestOnBoard, NewestReplies, dataVars
<1>6. ASSUME NEW i \in Load, LoadReturns(i) \/ LoadFails(i) PROVE Others
  <2>1. NewestLoads'
    BY <1>0, <1>6, EndsOne DEF NewestLoads, Keeps, dataVars, Free, Asked
  <2>2. NewestOnBoard'
    BY <1>0, <1>6, EndsOne DEF NewestLoads, NewestOnBoard, dataVars
  <2> QED  BY <1>0, <1>6, <2>1, <2>2, EndsOne DEF NewestReplies, dataVars
<1>7. ASSUME \/ Reload
             \/ \E p \in Project : SelectProject(p) \/ OpenCreatedProject(p)
             \/ \E e \in replies : ReplyFails(e)
             \/ ReceiveReady
      PROVE  Others
  <2>1. UNCHANGED <<db, board>> /\ replies' \subseteq replies
    BY <1>7, StartsOne DEF dataVars
  <2>2. UNCHANGED loads
        \/ \E i \in Load : loads'[i].snapshot = NULL /\ Keeps(i)
    BY <1>7, StartsOne DEF Asked
  <2> QED  BY <1>0, <2>1, <2>2 DEF NewestOnBoard, NewestLoads, NewestReplies, Keeps
<1>8. ASSUME NEW t \in Task, NEW v \in Version, v <= db[t], applyTask(t, v),
             UNCHANGED <<db, loads>>, replies' \subseteq replies
      PROVE  Others
  <2>1. NewestOnBoard'
    BY <1>0, <1>8, ApplyFacts DEF NewestOnBoard
  <2> QED  BY <1>3, <1>8, <2>1
<1>9. ASSUME NEW e \in replies, ReplyArrives(e) PROVE Others
  <2>1. e[1] \in Task /\ e[2] \in Version /\ e[2] <= db[e[1]]
    BY <1>0 DEF TypeOK, Event, NewestReplies
  <2> QED  BY <1>8, <1>9, <2>1 DEF ReplyArrives, dataVars
<1>10. ASSUME ReceiveEvent PROVE Others
  <2> DEFINE e == Head(toTab)
  <2>1. e = toTab[1] /\ 1 \in 1..Len(toTab) /\ e \in Event /\ e # Ready
    BY <1>10, TailFacts DEF ReceiveEvent, TypeOK
  <2>2. e[2] <= db[e[1]] /\ e[1] \in Task /\ e[2] \in Version
    BY <1>0, <2>1 DEF NewestToTab, Event
  <2> HIDE DEF e
  <2>3. applyTask(e[1], e[2]) /\ UNCHANGED <<db, loads>> /\ replies' \subseteq replies
    BY <1>10 DEF e, ReceiveEvent, dataVars
  <2> QED  BY <1>8, <2>2, <2>3
<1>11. ASSUME HubReads \/ Connect \/ ConnectEarly \/ ConnectGoesOn \/ SocketOpens \/ SocketCloses
       PROVE  Others
  BY <1>3, <1>11 DEF HubReads, Connect, ConnectEarly, ConnectGoesOn, SocketOpens, SocketCloses, dataVars
<1>12. ASSUME UNCHANGED vars PROVE Others
  BY <1>3, <1>12 DEF vars, dataVars
<1> HIDE DEF Others
<1> QED  BY <1>1, <1>2, <1>4, <1>5, <1>6, <1>7, <1>9, <1>10, <1>11, <1>12
         DEF Next, TabStep, SocketStep

-----------------------------------------------------------------------------
(* The subscription and the board follow the selection                     *)

\* Races are never forgotten.
LEMMA RacesOnlyGrow ==
  ASSUME [Next]_vars
  PROVE  races \subseteq races'
BY DEF Next, TabStep, SocketStep, OthersWrite, OwnWrite, Broadcast, ServeLoad, LoadReturns, LoadFails,
       Reload, SelectProject, OpenCreatedProject, ReplyArrives, ReplyFails, ReceiveEvent, ReceiveReady,
       HubReads, Connect, ConnectEarly, ConnectGoesOn, SocketOpens, SocketCloses, vars

LEMMA SubscriptionStep ==
  ASSUME TypeOK, IdleSocketIsEmpty, AuthenticatesFirst, SubscriptionFollows, [Next]_vars
  PROVE  SubscriptionFollows'
<1> SUFFICES ASSUME socket' = "ready", "failed" \notin races'
             PROVE  \/ toHub' = << >> /\ sub' = projectId'
                    \/ toHub' # << >> /\ toHub'[Len(toHub')] = projectId'
                    \/ \E i \in Load : loads'[i].after = "subscribe"
  BY DEF SubscriptionFollows
<1> DEFINE Goal == \/ toHub' = << >> /\ sub' = projectId'
                   \/ toHub' # << >> /\ toHub'[Len(toHub')] = projectId'
                   \/ \E i \in Load : loads'[i].after = "subscribe"
<1>0. "failed" \notin races
  BY RacesOnlyGrow
<1>1. ASSUME UNCHANGED <<socket, toHub, sub, projectId>>,
             \A i \in Load : loads[i].after = "subscribe" => loads'[i].after = "subscribe"
      PROVE  Goal
  BY <1>0, <1>1 DEF SubscriptionFollows
<1>2. ASSUME NEW p \in Project, projectId' = p, toHub' = Append(toHub, p)
      PROVE  Goal
  <2>1. toHub \in Seq(Project \cup {"authenticate"})
    BY DEF TypeOK
  <2> QED  BY <1>2, <2>1, AppendFacts
<1>3. ASSUME NEW e \in Event, Broadcast(e) PROVE Goal
  BY <1>1, <1>3 DEF Broadcast
<1>4. ASSUME NEW i \in Load, ServeLoad(i) PROVE Goal
  BY <1>1, <1>4, ServeFacts DEF Keeps, socketVars
<1>5. ASSUME NEW i \in Load, LoadReturns(i) PROVE Goal
  <2>1. /\ loads[i].after \in {"nothing", "subscribe", "connect"} /\ projectId \in Project
        /\ Continue(loads[i].after) /\ UNCHANGED projectId
    BY <1>5 DEF TypeOK, LoadReturns
  <2>2. Keeps(i) /\ UNCHANGED <<socket, sub>> /\ Connected
    BY <1>5, <2>1, EndsOne, ContinueFacts DEF Connected
  <2>3. CASE toHub' = Append(toHub, projectId)
    BY <1>2, <2>1, <2>3
  <2>4. CASE toHub' = toHub /\ loads[i].after # "subscribe"
    BY <1>1, <2>1, <2>2, <2>4 DEF Keeps
  <2> QED  BY <2>1, <2>2, <2>3, <2>4, ContinueFacts
<1>6. ASSUME NEW i \in Load, LoadFails(i) PROVE Goal
  BY <1>6 DEF LoadFails
<1>7. ASSUME Reload \/ \E e \in replies : ReplyFails(e) PROVE Goal
  <2>1. UNCHANGED <<socket, toHub, sub, projectId>>
    BY <1>7 DEF Reload, ReplyFails, socketVars
  <2>2. \A i \in Load : loads[i].after = "subscribe" => loads'[i].after = "subscribe"
    BY <1>7, StartsOne DEF Keeps, Free, Asked
  <2> QED  BY <1>1, <2>1, <2>2
<1>8. ASSUME NEW p \in Project, SelectProject(p) PROVE Goal
  BY <1>2, <1>8, SubscribeFacts DEF SelectProject, Connected
<1>9. ASSUME NEW p \in Project, OpenCreatedProject(p) PROVE Goal
  <2>1. StartLoad(p, "subscribe")
    BY <1>9 DEF OpenCreatedProject
  <2>2. \E i \in Load : loads'[i] = Asked(p, "subscribe")
    BY <2>1, StartLoadFacts
  <2> QED  BY <2>2 DEF Asked
<1>10. ASSUME HubReads PROVE Goal
  <2>1. /\ toHub \in Seq(Project \cup {"authenticate"}) /\ toHub # << >>
        /\ toHub' = Tail(toHub) /\ socket = "ready" /\ UNCHANGED <<projectId, loads>>
    BY <1>10 DEF HubReads, TypeOK
  <2>2. Head(toHub) = toHub[1] /\ Len(toHub) \in Nat \ {0} /\ 1 \in 1..Len(toHub)
    BY <2>1, TailFacts
  <2>3. Head(toHub) # "authenticate"
    BY <2>1, <2>2 DEF AuthenticatesFirst
  <2>4. sub' = Head(toHub)
    BY <1>10, <2>3 DEF HubReads
  <2>5. CASE Len(toHub) = 1
    BY <1>0, <2>1, <2>2, <2>4, <2>5, TailFacts DEF SubscriptionFollows
  <2>6. CASE Len(toHub) # 1
    <3>1. toHub' # << >> /\ toHub'[Len(toHub')] = toHub[Len(toHub)]
      <4>1. /\ toHub' # << >> /\ Len(toHub') = Len(toHub) - 1
            /\ \A i \in 1..Len(toHub') : toHub'[i] = toHub[i + 1]
        BY <2>1, <2>2, <2>6, TailFacts
      <4>2. Len(toHub') \in 1..Len(toHub') /\ Len(toHub') + 1 = Len(toHub)
        BY <2>2, <2>6, <4>1
      <4> QED  BY <4>1, <4>2
    <3> QED  BY <1>0, <2>1, <3>1 DEF SubscriptionFollows
  <2> QED  BY <2>5, <2>6
<1>11. ASSUME Connect \/ ConnectEarly PROVE Goal
  BY <1>1, <1>11 DEF Connect, ConnectEarly
<1>12. ASSUME ConnectGoesOn \/ SocketOpens \/ SocketCloses PROVE Goal
  BY <1>12 DEF ConnectGoesOn, NewSocket, SocketOpens, SocketCloses
<1>13. ASSUME ReceiveReady PROVE Goal
  <2>1. /\ toTab # << >> /\ SubscribeTo(projectId) /\ projectId \in Project /\ UNCHANGED projectId
    BY <1>13 DEF ReceiveReady, TypeOK
  <2> QED  BY <1>2, <2>1, OnlyConnected, SubscribeFacts
<1>14. ASSUME ReceiveEvent PROVE Goal
  BY <1>1, <1>14 DEF ReceiveEvent
<1>15. ASSUME \/ \E t \in Task : OthersWrite(t) \/ OwnWrite(t)
              \/ \E e \in replies : ReplyArrives(e)
              \/ UNCHANGED vars
       PROVE  Goal
  <2>1. UNCHANGED <<socket, toHub, sub>>
    BY <1>15, SocketUntouched
  <2>2. UNCHANGED <<projectId, loads>>
    BY <1>15, LoadsUntouched
  <2> QED  BY <1>1, <2>1, <2>2
<1> HIDE DEF Goal
<1>16. Goal
  BY <1>3, <1>4, <1>5, <1>6, <1>7, <1>8, <1>9, <1>10, <1>11, <1>12, <1>13, <1>14, <1>15
     DEF Next, TabStep, SocketStep
<1> QED  BY <1>16 DEF Goal

LEMMA BoardFollowsStep ==
  ASSUME TypeOK, AnswersFit, BoardFollows, [Next]_vars
  PROVE  BoardFollows'
<1> SUFFICES ASSUME "failed" \notin races'
             PROVE  \/ \A t \in Task : board'[t] > 0 => ProjectOf[t] = projectId'
                    \/ \E i \in Load : loads'[i].project = projectId'
  BY DEF BoardFollows
<1> DEFINE Goal == \/ \A t \in Task : board'[t] > 0 => ProjectOf[t] = projectId'
                   \/ \E i \in Load : loads'[i].project = projectId'
<1>0. "failed" \notin races
  BY RacesOnlyGrow
<1>1. ASSUME UNCHANGED projectId, \A i \in Load : loads[i].project = projectId => loads'[i].project = projectId,
             \A t \in Task : board'[t] = board[t] \/ ProjectOf[t] = projectId
      PROVE  Goal
  BY <1>0, <1>1 DEF BoardFollows
<1>2. ASSUME NEW i \in Load, ServeLoad(i) PROVE Goal
  BY <1>1, <1>2, ServeFacts DEF Keeps
<1>3. ASSUME NEW i \in Load, LoadReturns(i) \/ LoadFails(i) PROVE Goal
  <2>1. CASE loads[i].project # projectId /\ UNCHANGED board
    BY <1>1, <1>3, <2>1, EndsOne DEF Keeps
  <2>2. CASE loads[i].project = projectId /\ loads[i].snapshot # NULL /\ board' = loads[i].snapshot
    BY <1>3, <2>2, EndsOne DEF AnswersFit
  <2> QED  BY <1>3, <2>1, <2>2, EndsOne
<1>4. ASSUME \/ Reload
             \/ \E p \in Project : SelectProject(p) \/ OpenCreatedProject(p)
             \/ \E e \in replies : ReplyFails(e)
             \/ ReceiveReady
      PROVE  Goal
  <2>1. CASE UNCHANGED <<loads, socketVars, projectId>>
    BY <1>1, <1>4, <2>1, StartsOne
  <2>2. CASE \E i \in Load : loads'[i].project = projectId'
    BY <2>2
  <2> QED  BY <1>4, <2>1, <2>2, StartsOne DEF Asked
<1>5. ASSUME NEW t \in Task, NEW v \in Version, applyTask(t, v), UNCHANGED <<projectId, loads>> PROVE Goal
  BY <1>1, <1>5, ApplyFacts
<1>6. ASSUME NEW e \in replies, ReplyArrives(e) PROVE Goal
  <2>1. e[1] \in Task /\ e[2] \in Version
    BY DEF TypeOK, Event
  <2> QED  BY <1>5, <1>6, <2>1 DEF ReplyArrives
<1>7. ASSUME ReceiveEvent PROVE Goal
  <2>1. Head(toTab) \in Event
    BY <1>7 DEF ReceiveEvent, TypeOK
  <2>2. Head(toTab)[1] \in Task /\ Head(toTab)[2] \in Version
    BY <2>1 DEF Event
  <2> QED  BY <1>5, <1>7, <2>2 DEF ReceiveEvent
<1>8. ASSUME \/ \E t \in Task : OthersWrite(t) \/ OwnWrite(t)
             \/ \E e \in Event : Broadcast(e)
             \/ HubReads \/ Connect \/ ConnectEarly \/ ConnectGoesOn \/ SocketOpens \/ SocketCloses
             \/ UNCHANGED vars
      PROVE  Goal
  <2>1. UNCHANGED board
    BY <1>8 DEF OthersWrite, OwnWrite, Broadcast, HubReads, Connect, ConnectEarly, ConnectGoesOn,
                SocketOpens, SocketCloses, vars
  <2> QED  BY <1>1, <1>8, <2>1, LoadsUntouched
<1> HIDE DEF Goal
<1>9. Goal
  BY <1>2, <1>3, <1>4, <1>6, <1>7, <1>8 DEF Next, TabStep, SocketStep
<1> QED  BY <1>9 DEF Goal

-----------------------------------------------------------------------------
(* What is committed reaches the board                                     *)

\* What carries the committed version of t stays where it is.
Carried(t) ==
  /\ UNCHANGED projectId
  /\ db'[t] = db[t]
  /\ board[t] = db[t] => board'[t] = db[t]
  /\ socket # "ready" => socket' # "ready"
  /\ waiting > 0 => waiting' > 0

\* A step that leaves the loads alone keeps what carries the newest version, as
\* long as the event that carries it stays or is applied.
LEMMA CarriedStays ==
  ASSUME NEW t \in Task, Carried(t), OnItsWay(t), UNCHANGED loads,
         <<t, db[t]>> \in unsent => <<t, db[t]>> \in unsent' \/ OnItsWay(t)',
         \A i \in 1..Len(toTab) : toTab[i] = <<t, db[t]>> =>
           OnItsWay(t)' \/ \E j \in 1..Len(toTab') : toTab'[j] = toTab[i]
  PROVE  OnItsWay(t)'
BY DEF Carried, OnItsWay, ReloadToCome

LEMMA ChangesStep ==
  ASSUME TypeOK, NothingNewer, AnswersFit, ChangesOnTheirWay, [Next]_vars, TypeOK', NothingNewer'
  PROVE  ChangesOnTheirWay'
<1> SUFFICES ASSUME races' = {}, NEW t \in Task, ProjectOf[t] = projectId' PROVE OnItsWay(t)'
  BY DEF ChangesOnTheirWay
<1>0. /\ races = {} /\ waiting \in Nat /\ waiting' \in Nat
      /\ projectId = projectId' => OnItsWay(t)
      /\ board[t] \in Nat /\ db[t] \in Nat /\ board'[t] \in Nat /\ db'[t] \in Nat
      /\ board'[t] <= db'[t]
      /\ toTab \in Seq(Event \cup {Ready})
  <2>1. races = {}
    BY RacesOnlyGrow
  <2>2. waiting \in Nat /\ waiting' \in Nat
    BY ConstantsAssumption DEF TypeOK
  <2>3. board[t] \in Nat /\ db[t] \in Nat /\ board'[t] \in Nat /\ db'[t] \in Nat
    BY ConstantsAssumption DEF TypeOK, Snapshot, Version
  <2>4. board'[t] <= db'[t]
    BY DEF NothingNewer
  <2> QED  BY <2>1, <2>2, <2>3, <2>4 DEF ChangesOnTheirWay, TypeOK
<1>1. ASSUME NEW u \in Task, OthersWrite(u) \/ OwnWrite(u) PROVE OnItsWay(t)'
  <2>1. /\ db' = [db EXCEPT ![u] = @ + 1] /\ unsent' = unsent \cup {<<u, db[u] + 1>>}
        /\ UNCHANGED <<projectId, board, loads, socket, toTab, waiting>>
    BY <1>1, WriteTypes DEF OthersWrite, OwnWrite, socketVars
  <2>2. CASE u = t
    BY <2>1, <2>2 DEF OnItsWay, TypeOK, Snapshot
  <2>3. CASE u # t
    <3>1. db'[t] = db[t]
      BY <2>1, <2>3 DEF TypeOK, Snapshot
    <3> QED  BY <1>0, <2>1, <3>1, CarriedStays DEF Carried
  <2> QED  BY <2>2, <2>3
<1>2. ASSUME NEW e \in Event, Broadcast(e) PROVE OnItsWay(t)'
  <2>1. /\ UNCHANGED <<db, projectId, board, loads, socket, waiting>> /\ unsent' = unsent \ {e}
        /\ toTab' = IF sub = ProjectOf[e[1]] THEN Append(toTab, e) ELSE toTab
        /\ sub # projectId /\ ProjectOf[e[1]] = projectId => ~NothingToCome
    BY <1>0, <1>2 DEF Broadcast
  <2>2. /\ \A i \in 1..Len(toTab) : i \in 1..Len(toTab') /\ toTab'[i] = toTab[i]
        /\ sub = ProjectOf[e[1]] => \E j \in 1..Len(toTab') : toTab'[j] = e
    BY <1>0, <2>1, AppendFacts
  <2>3. ASSUME e = <<t, db[t]>> PROVE OnItsWay(t)'
    <3>1. e[1] = t /\ ProjectOf[e[1]] = projectId
      BY <2>1, <2>3
    <3>2. CASE sub = projectId
      <4>1. UNCHANGED db /\ \E j \in 1..Len(toTab') : toTab'[j] = <<t, db[t]>>
        BY <2>1, <2>2, <2>3, <3>1, <3>2
      <4> QED  BY <4>1 DEF OnItsWay
    <3>3. CASE ~NothingToCome
      BY <1>0, <2>1, <3>3 DEF OnItsWay, ReloadToCome, NothingToCome
    <3> QED  BY <2>1, <3>1, <3>2, <3>3
  <2>4. <<t, db[t]>> \in unsent => <<t, db[t]>> \in unsent' \/ OnItsWay(t)'
    BY <2>1, <2>3
  <2>5. Carried(t)
    BY <2>1 DEF Carried
  <2> QED  BY <1>0, <2>1, <2>2, <2>4, <2>5, CarriedStays
<1>3. ASSUME NEW i \in Load, ServeLoad(i) PROVE OnItsWay(t)'
  <2>1. /\ UNCHANGED <<db, unsent, projectId, board, socket, toTab, waiting>>
        /\ loads'[i].project = loads[i].project /\ Keeps(i) /\ loads[i].snapshot = NULL
        /\ loads'[i].snapshot[t] = IF ProjectOf[t] = loads[i].project THEN db[t] ELSE 0
    BY <1>3, ServeFacts DEF dataVars, socketVars
  <2>2. OnItsWay(t) /\ ProjectOf[t] = projectId
    BY <1>0, <2>1
  <2>3. CASE loads[i].project = projectId
    BY <2>1, <2>2, <2>3 DEF OnItsWay, ReloadToCome
  <2>4. CASE loads[i].project # projectId
    BY <2>1, <2>2, <2>4 DEF OnItsWay, ReloadToCome, Keeps
  <2> QED  BY <2>3, <2>4
<1>4. ASSUME NEW i \in Load, LoadReturns(i) PROVE OnItsWay(t)'
  <2>1. /\ Keeps(i) /\ UNCHANGED <<db, unsent, projectId, toTab, socket>>
        /\ loads[i].snapshot # NULL
        /\ loads[i].project # projectId => UNCHANGED board
        /\ loads[i].project = projectId => board' = loads[i].snapshot
    BY <1>4, EndsOne DEF LoadReturns, dataVars, StillWanted
  <2>2. waiting > 0 => waiting' > 0
    <3>1. loads[i].after \in {"nothing", "subscribe", "connect"} /\ Continue(loads[i].after)
      BY <1>4 DEF TypeOK, LoadReturns
    <3> QED  BY <1>0, <3>1, ContinueFacts
  <2>3. board[t] = db[t] => board'[t] = db[t]
    <3>1. CASE loads[i].project # projectId
      BY <2>1, <3>1
    <3>2. CASE loads[i].project = projectId
      <4>1. ~ \E u \in Task : ProjectOf[u] = projectId /\ loads[i].snapshot[u] < board[u]
        BY <1>0, <1>4, <3>2 DEF LoadReturns, StillWanted
      <4>2. ProjectOf[t] = projectId /\ board' = loads[i].snapshot /\ UNCHANGED db
        BY <2>1, <3>2
      <4>3. ~(board'[t] < board[t])
        BY <4>1, <4>2
      <4> QED  BY <1>0, <4>2, <4>3
    <3> QED  BY <3>1, <3>2
  <2>4. OnItsWay(t)
    BY <1>0, <2>1
  <2>5. ASSUME NEW k \in Load, loads[k].project = projectId, loads[k].snapshot # NULL,
               loads[k].snapshot[t] = db[t]
        PROVE  OnItsWay(t)'
    <3>1. CASE k = i
      BY <2>1, <2>5, <3>1 DEF OnItsWay
    <3>2. CASE k # i
      BY <2>1, <2>5, <3>2 DEF OnItsWay, Keeps
    <3> QED  BY <3>1, <3>2
  <2>6. ReloadToCome => ReloadToCome'
    BY <2>1, <2>2 DEF ReloadToCome, Keeps
  <2> QED  BY <2>1, <2>3, <2>4, <2>5, <2>6 DEF OnItsWay
<1>5. ASSUME NEW i \in Load, LoadFails(i) PROVE OnItsWay(t)'
  BY <1>5 DEF LoadFails
<1>6. ASSUME \/ Reload
             \/ \E p \in Project : SelectProject(p) \/ OpenCreatedProject(p)
             \/ ReceiveReady
             \/ \E e \in replies : ReplyFails(e)
      PROVE  OnItsWay(t)'
  <2>1. CASE \E i \in Load : loads'[i].project = projectId' /\ loads'[i].snapshot = NULL
    BY <2>1 DEF OnItsWay, ReloadToCome
  <2>2. CASE UNCHANGED <<loads, socketVars, projectId>>
    <3>1. UNCHANGED <<db, unsent, board>>
      BY <1>6, StartsOne DEF dataVars
    <3>2. UNCHANGED <<socket, toTab, waiting>>
      BY <2>2 DEF socketVars
    <3>3. Carried(t)
      BY <2>2, <3>1, <3>2 DEF Carried
    <3> QED  BY <1>0, <2>2, <3>1, <3>2, <3>3, CarriedStays
  <2> QED  BY <1>6, <2>1, <2>2, StartsOne DEF Asked
<1>7. ASSUME NEW u \in Task, NEW v \in Version, applyTask(u, v), UNCHANGED <<db, projectId>>
      PROVE  /\ board[t] = db[t] => board'[t] = db[t]
             /\ u = t /\ v = db[t] => board'[t] = db[t]
  BY <1>0, <1>7, ApplyFacts
<1>8. ASSUME NEW e \in replies, ReplyArrives(e) PROVE OnItsWay(t)'
  <2>1. e[1] \in Task /\ e[2] \in Version
    BY DEF TypeOK, Event
  <2>2. UNCHANGED <<db, unsent, projectId, loads, socket, toTab, waiting>> /\ applyTask(e[1], e[2])
    BY <1>8 DEF ReplyArrives, dataVars, socketVars
  <2>3. Carried(t)
    BY <1>7, <2>1, <2>2 DEF Carried
  <2> QED  BY <1>0, <2>2, <2>3, CarriedStays
<1>9. ASSUME ReceiveEvent PROVE OnItsWay(t)'
  <2> DEFINE e == Head(toTab)
  <2>1. /\ e = toTab[1] /\ e \in Event
        /\ \A i \in 1..Len(toTab) : i # 1 => i - 1 \in 1..Len(toTab') /\ toTab'[i - 1] = toTab[i]
    <3>1. toTab # << >> /\ toTab' = Tail(toTab) /\ e # Ready
      BY <1>9 DEF ReceiveEvent
    <3> QED  BY <1>0, <3>1, TailFacts
  <2>2. e[1] \in Task /\ e[2] \in Version
    BY <2>1 DEF Event
  <2>3. UNCHANGED <<db, unsent, projectId, loads, socket, waiting>> /\ applyTask(e[1], e[2])
    BY <1>9 DEF ReceiveEvent, dataVars
  <2>4. Carried(t)
    BY <1>7, <2>2, <2>3 DEF Carried
  <2>5. e = <<t, db[t]>> => OnItsWay(t)'
    BY <1>7, <2>2, <2>3 DEF OnItsWay
  <2>6. \A i \in 1..Len(toTab) : toTab[i] = <<t, db[t]>> =>
          OnItsWay(t)' \/ \E j \in 1..Len(toTab') : toTab'[j] = toTab[i]
    BY <2>1, <2>5
  <2> QED  BY <1>0, <2>3, <2>4, <2>6, CarriedStays
<1>10. ASSUME HubReads PROVE OnItsWay(t)'
  <2>1. UNCHANGED <<db, unsent, projectId, board, loads, socket, waiting>>
        /\ (toTab' = toTab \/ toTab' = Append(toTab, Ready))
    BY <1>10 DEF HubReads, dataVars
  <2>2. \A i \in 1..Len(toTab) : i \in 1..Len(toTab') /\ toTab'[i] = toTab[i]
    BY <1>0, <2>1, AppendFacts
  <2>3. Carried(t)
    BY <2>1 DEF Carried
  <2> QED  BY <1>0, <2>1, <2>2, <2>3, CarriedStays
<1>11. ASSUME Connect \/ ConnectEarly \/ ConnectGoesOn \/ SocketOpens \/ SocketCloses
       PROVE  OnItsWay(t)'
  <2>1. waiting' > 0 \/ socket' # "ready"
    BY <1>0, <1>11 DEF Connect, ConnectEarly, AwaitToken, ConnectGoesOn, NewSocket, SocketOpens, SocketCloses
  <2> QED  BY <2>1 DEF OnItsWay, ReloadToCome
<1>12. ASSUME UNCHANGED vars PROVE OnItsWay(t)'
  <2>1. UNCHANGED <<db, unsent, projectId, board, loads, socket, toTab, waiting>>
    BY <1>12 DEF vars, dataVars, socketVars
  <2> QED  BY <1>0, <2>1 DEF OnItsWay, ReloadToCome
<1> QED  BY <1>1, <1>2, <1>3, <1>4, <1>5, <1>6, <1>8, <1>9, <1>10, <1>11, <1>12
         DEF Next, TabStep, SocketStep

-----------------------------------------------------------------------------
(* The theorems                                                            *)

\* The parts of the invariant hold again after every step.
LEMMA TabStepInvariant == TabInv /\ [Next]_vars => TabInv'
<1> SUFFICES ASSUME TabInv, [Next]_vars PROVE TabInv'
  OBVIOUS
<1> USE DEF TabInv
<1>1. TypeOK'
  BY NextTypes
<1>2. IdleSocketIsEmpty' /\ AuthenticatesFirst'
  BY IdleStep, HandshakeStep
<1>3. NothingNewer' /\ AnswersFit'
  BY NothingNewerStep, AnswersFitStep
<1>4. SubscriptionFollows' /\ BoardFollows'
  BY SubscriptionStep, BoardFollowsStep
<1>5. ChangesOnTheirWay'
  BY <1>1, <1>3, ChangesStep
<1> QED  BY <1>1, <1>2, <1>3, <1>4, <1>5

\* The inductive invariant: what the tab has and what is on its way to it fit
\* together in every state (state, loadBoard, applyTask and connectRealtime of
\* app.js).
THEOREM TabInvariant == Spec => []TabInv
BY InitTab, TabStepInvariant, PTL DEF Spec

\* No project among the free places.
LEMMA FreeIsNobody ==
  ASSUME TypeOK, NEW i \in Load, loads[i] = Free
  PROVE  loads[i].project # projectId /\ loads[i].after # "subscribe"
BY ConstantsAssumption DEF TypeOK, Free, Asked

\* The subscription follows the selection (selectProject, createProject and the
\* handler of "ready").
THEOREM SubscriptionFollowsSelection == Spec => []BoardInv
<1>1. TabInv => BoardInv
  BY FreeIsNobody DEF TabInv, SubscriptionFollows, BoardInv, SubscribedToSelection
<1> QED  BY TabInvariant, <1>1, PTL

\* The board has tasks of one project, however late the answers to loadBoard.
THEOREM BoardShowsOneProject == Spec => []BoardIsOneProject
<1>1. TabInv => BoardIsOneProject
  BY FreeIsNobody DEF TabInv, BoardFollows, BoardIsOneProject
<1> QED  BY TabInvariant, <1>1, PTL

\* A settled tab shows what is committed, unless one of the three known races
\* has happened: loadBoard on every "ready" and the versions in applyTask make
\* up for everything else.
THEOREM NoUnknownRace == Spec => []OnlyKnownRaces
<1>1. TabInv => OnlyKnownRaces
  <2> SUFFICES ASSUME TabInv, Settled, races = {}, NEW t \in Task, ProjectOf[t] = projectId
               PROVE  board[t] = db[t]
    BY DEF OnlyKnownRaces, ShowsDatabase
  <2>1. OnItsWay(t) /\ TypeOK
    BY DEF TabInv, ChangesOnTheirWay
  <2>2. ~ReloadToCome
    BY <2>1, FreeIsNobody DEF Settled, Quiet, ReloadToCome
  <2> QED  BY <2>1, <2>2, FreeIsNobody DEF OnItsWay, Settled, Quiet
<1> QED  BY TabInvariant, <1>1, PTL

\* Only an answer to loadBoard takes a task back: applyTask compares versions,
\* and nothing else writes to the board.
THEOREM EventsOnlyAdvance == Spec => EventsNeverRegress
<1>1. TypeOK /\ [Next]_vars =>
        [(\E t \in Task : board'[t] < board[t]) => \E i \in Load : LoadReturns(i)]_vars
  <2> SUFFICES ASSUME TypeOK, Next, NEW t \in Task, board'[t] < board[t]
               PROVE  \E i \in Load : LoadReturns(i)
    OBVIOUS
  <2>1. board[t] \in Nat
    BY ConstantsAssumption DEF TypeOK, Snapshot, Version
  <2>2. ~UNCHANGED board
    BY <2>1
  <2>3. ASSUME NEW u \in Task, NEW v \in Version PROVE ~applyTask(u, v)
    BY <2>1, <2>3, ApplyFacts, ConstantsAssumption DEF TypeOK, Snapshot, Version
  <2>4. ASSUME NEW e \in replies PROVE ~ReplyArrives(e)
    BY <2>3 DEF ReplyArrives, TypeOK, Event
  <2>5. ~ReceiveEvent
    <3> SUFFICES ASSUME ReceiveEvent PROVE FALSE
      OBVIOUS
    <3>1. Head(toTab) \in Event
      BY DEF ReceiveEvent, TypeOK
    <3> QED  BY <2>3, <3>1 DEF ReceiveEvent, Event
  <2> QED  BY <2>2, <2>4, <2>5
           DEF Next, TabStep, SocketStep, OthersWrite, OwnWrite, Broadcast, ServeLoad, LoadFails, Reload,
               SelectProject, OpenCreatedProject, ReplyFails, ReceiveReady, HubReads, Connect,
               ConnectEarly, ConnectGoesOn, SocketOpens, SocketCloses
<1> QED  BY TabInvariant, <1>1, PTL DEF Spec, TabInv, EventsNeverRegress
=============================================================================
