------------------------- MODULE RealtimeHubProofs -------------------------
(***************************************************************************)
(* Proofs about RealtimeHub, for any connections, projects, records,       *)
(* corrupt records and channel capacity: the offsets committed and the     *)
(* records broadcast keep in step, and no connection misses an event.      *)
(***************************************************************************)
EXTENDS RealtimeHub, FiniteSetTheorems, TLAPS

\* The consumer has broadcast every decodable record it went past: what makes
\* it safe to commit its position, and to broadcast the next record.
PassedWasBroadcast ==
  \A r \in Record \ Corrupt : r.offset <= position[r.project] => r \in broadcast

\* The inductive invariant of the consumer: the properties of the records that
\* were committed and broadcast follow from those it went past.
ConsumerInv ==
  /\ TypeOK
  /\ CommittedWasBroadcast
  /\ PassedWasBroadcast
  /\ NoRecordSkipped

-----------------------------------------------------------------------------
(* Facts about the parts of several actions                                *)

\* Events are no control messages.
LEMMA RecordsAreEvents == \A r \in Record : IsEvent(r)
BY ConstantsAssumption DEF Record, Control, IsEvent

\* The properties of the records say nothing of the connections: a step that
\* only concerns those keeps them.
LEMMA KafkaUnchanged ==
  ASSUME ConsumerInv, UNCHANGED kafkaVars
  PROVE  CommittedWasBroadcast' /\ PassedWasBroadcast' /\ NoRecordSkipped'
BY DEF ConsumerInv, kafkaVars, CommittedWasBroadcast, PassedWasBroadcast, NoRecordSkipped

\* A message that finds the channel full is refused, so that the channel keeps
\* within its capacity.
LEMMA SendJSONType ==
  ASSUME TypeOK, NEW c \in Client, SendJSON(c)
  PROVE  /\ send' \in [Client -> Seq(Record \cup {Control})]
         /\ \A d \in Client : Len(send'[d]) <= QueueSize
         /\ cancelled' \subseteq Client
<1>1. CASE Len(send[c]) < QueueSize
  <2>1. send' = [send EXCEPT ![c] = Append(@, Control)] /\ cancelled' = cancelled
    BY <1>1 DEF SendJSON
  <2>2. send[c] \in Seq(Record \cup {Control}) /\ Len(send[c]) \in Nat
    BY DEF TypeOK
  <2>3. /\ Append(send[c], Control) \in Seq(Record \cup {Control})
        /\ Len(Append(send[c], Control)) = Len(send[c]) + 1
    BY <2>2
  <2>4. Len(Append(send[c], Control)) <= QueueSize
    BY <1>1, <2>2, <2>3, ConstantsAssumption
  <2> QED  BY <2>1, <2>3, <2>4 DEF TypeOK
<1>2. CASE ~(Len(send[c]) < QueueSize)
  BY <1>2 DEF SendJSON, TypeOK
<1> QED  BY <1>1, <1>2

\* Connections that are forgotten leave nothing behind.
LEMMA ForgetType ==
  ASSUME TypeOK, NEW C \in SUBSET Client, Forget(C),
         topic' \in [Project -> 0..MaxRecords],
         position' \in [Project -> 0..MaxRecords],
         committed' \in [Project -> 0..MaxRecords],
         broadcast' \subseteq Record
  PROVE  TypeOK'
<1>1. << >> \in Seq(Record \cup {Control}) /\ << >> \in Seq(Record)
      /\ Len(<< >>) = 0 /\ 0 <= QueueSize
  BY ConstantsAssumption
<1>2. conn' \in [Client -> {"closed", "handshake", "serving"}]
      /\ clients' = {c \in Client : conn'[c] = "serving"}
  BY DEF TypeOK, Forget
<1>3. /\ send' \in [Client -> Seq(Record \cup {Control})]
      /\ received' \in [Client -> Seq(Record)]
      /\ owed' \in [Client -> Seq(Record)]
  BY <1>1 DEF TypeOK, Forget
<1>4. \A c \in Client : Len(send'[c]) <= QueueSize
  BY <1>1 DEF TypeOK, Forget
<1>5. subscriptions' \in [Client -> SUBSET Project]
  BY DEF TypeOK, Forget
<1>6. writers' \subseteq Client /\ cancelled' \subseteq Client
      /\ expired' \subseteq Client /\ dropping' \subseteq clients'
  BY DEF TypeOK, Forget
<1> QED  BY <1>2, <1>3, <1>4, <1>5, <1>6 DEF TypeOK

LEMMA InitConsumer == Init => ConsumerInv
<1> SUFFICES ASSUME Init PROVE ConsumerInv
  OBVIOUS
<1>1. << >> \in Seq(Record \cup {Control}) /\ << >> \in Seq(Record) /\ Len(<< >>) = 0
  OBVIOUS
<1>2. TypeOK
  BY <1>1, ConstantsAssumption DEF Init, TypeOK
<1>3. CommittedWasBroadcast /\ PassedWasBroadcast /\ NoRecordSkipped
  BY ConstantsAssumption
     DEF Init, CommittedWasBroadcast, PassedWasBroadcast, NoRecordSkipped, Record
<1> QED  BY <1>2, <1>3 DEF ConsumerInv

-----------------------------------------------------------------------------
(* The consumer and the connections keep ConsumerInv                       *)

LEMMA ReaderKeepsTypes ==
  ASSUME TypeOK, NEW c \in Client,
         \/ Accept(c)
         \/ Authenticate(c)
         \/ Reauthenticate(c)
         \/ \E p \in Project : Subscribe(c, p) \/ Unsubscribe(c, p)
         \/ RejectMessage(c)
         \/ ReaderReturns(c)
  PROVE  TypeOK' /\ UNCHANGED kafkaVars
<1>1. CASE Accept(c)
  BY <1>1 DEF TypeOK, Accept, kafkaVars
<1>2. CASE Authenticate(c)
  <2>1. /\ send' \in [Client -> Seq(Record \cup {Control})]
        /\ \A d \in Client : Len(send'[d]) <= QueueSize
        /\ cancelled' \subseteq Client
    BY <1>2, SendJSONType DEF Authenticate
  <2>2. conn' \in [Client -> {"closed", "handshake", "serving"}]
        /\ clients' = {d \in Client : conn'[d] = "serving"}
        /\ clients \subseteq clients'
    BY <1>2 DEF TypeOK, Authenticate
  <2> QED  BY <1>2, <2>1, <2>2 DEF TypeOK, Authenticate, kafkaVars
<1>3. CASE Reauthenticate(c)
  <2>1. /\ send' \in [Client -> Seq(Record \cup {Control})]
        /\ \A d \in Client : Len(send'[d]) <= QueueSize
        /\ cancelled' \subseteq Client
    BY <1>3, SendJSONType DEF Reauthenticate
  <2> QED  BY <1>3, <2>1 DEF TypeOK, Reauthenticate, kafkaVars
<1>4. ASSUME NEW p \in Project, Subscribe(c, p)
      PROVE  TypeOK' /\ UNCHANGED kafkaVars
  <2>1. /\ send' \in [Client -> Seq(Record \cup {Control})]
        /\ \A d \in Client : Len(send'[d]) <= QueueSize
        /\ cancelled' \subseteq Client
    BY <1>4, SendJSONType DEF Subscribe
  <2> QED  BY <1>4, <2>1 DEF TypeOK, Subscribe, kafkaVars
<1>5. ASSUME NEW p \in Project, Unsubscribe(c, p)
      PROVE  TypeOK' /\ UNCHANGED kafkaVars
  BY <1>5 DEF TypeOK, Unsubscribe, kafkaVars
<1>6. CASE RejectMessage(c)
  <2>1. /\ send' \in [Client -> Seq(Record \cup {Control})]
        /\ \A d \in Client : Len(send'[d]) <= QueueSize
        /\ cancelled' \subseteq Client
    BY <1>6, SendJSONType DEF RejectMessage
  <2> QED  BY <1>6, <2>1 DEF TypeOK, RejectMessage, kafkaVars
<1>7. CASE ReaderReturns(c)
  <2>1. UNCHANGED kafkaVars /\ Forget({c})
    BY <1>7 DEF ReaderReturns
  <2> QED  BY <2>1, ForgetType DEF TypeOK, kafkaVars
<1> QED  BY <1>1, <1>2, <1>3, <1>4, <1>5, <1>6, <1>7

LEMMA WriterKeepsTypes ==
  ASSUME TypeOK, NEW c \in Client,
         Write(c) \/ WriterReturns(c) \/ PingExpired(c) \/ Expire(c) \/ CancelSlow(c)
  PROVE  TypeOK' /\ UNCHANGED kafkaVars
<1>0. ASSUME send[c] # << >>
      PROVE  /\ Head(send[c]) \in Record \cup {Control}
             /\ Tail(send[c]) \in Seq(Record \cup {Control})
             /\ Len(Tail(send[c])) <= QueueSize
  <2>1. send[c] \in Seq(Record \cup {Control}) /\ Len(send[c]) <= QueueSize
    BY DEF TypeOK
  <2> QED  BY <1>0, <2>1, ConstantsAssumption
<1>1. CASE Write(c)
  <2>1. send' \in [Client -> Seq(Record \cup {Control})]
        /\ \A d \in Client : Len(send'[d]) <= QueueSize
    BY <1>0, <1>1 DEF TypeOK, Write
  <2>2. received' \in [Client -> Seq(Record)]
    <3>1. IsEvent(Head(send[c])) => Head(send[c]) \in Record
      BY <1>0, <1>1 DEF Write, IsEvent
    <3>2. received[c] \in Seq(Record)
      BY DEF TypeOK
    <3> QED  BY <1>1, <3>1, <3>2 DEF TypeOK, Write
  <2> QED  BY <1>1, <2>1, <2>2 DEF TypeOK, Write, kafkaVars
<1>2. CASE WriterReturns(c)
  <2>1. send' \in [Client -> Seq(Record \cup {Control})]
        /\ \A d \in Client : Len(send'[d]) <= QueueSize
    BY <1>0, <1>2 DEF TypeOK, WriterReturns
  <2> QED  BY <1>2, <2>1 DEF TypeOK, WriterReturns, kafkaVars
<1>3. CASE PingExpired(c)
  BY <1>3 DEF TypeOK, PingExpired, kafkaVars
<1>4. CASE Expire(c)
  BY <1>4 DEF TypeOK, Expire, kafkaVars
<1>5. CASE CancelSlow(c)
  BY <1>5 DEF TypeOK, CancelSlow, kafkaVars
<1> QED  BY <1>1, <1>2, <1>3, <1>4, <1>5

LEMMA ClientStepConsumer ==
  ASSUME ConsumerInv, NEW c \in Client, ClientStep(c)
  PROVE  ConsumerInv'
<1>1. TypeOK' /\ UNCHANGED kafkaVars
  BY ReaderKeepsTypes, WriterKeepsTypes DEF ConsumerInv, ClientStep
<1> QED  BY <1>1, KafkaUnchanged DEF ConsumerInv

LEMMA ProduceConsumer ==
  ASSUME ConsumerInv, NEW p \in Project, Produce(p)
  PROVE  ConsumerInv'
<1>1. topic' \in [Project -> 0..MaxRecords]
  BY ConstantsAssumption DEF ConsumerInv, TypeOK, Produce
<1>2. TypeOK'
  BY <1>1 DEF ConsumerInv, TypeOK, Produce, clientVars
<1>3. CommittedWasBroadcast' /\ PassedWasBroadcast' /\ NoRecordSkipped'
  BY DEF ConsumerInv, Produce, CommittedWasBroadcast, PassedWasBroadcast, NoRecordSkipped
<1> QED  BY <1>2, <1>3 DEF ConsumerInv

\* A broadcast keeps every channel within its capacity: a full one is skipped.
LEMMA BroadcastType ==
  ASSUME TypeOK, NEW r \in Record, Broadcast(r)
  PROVE  /\ send' \in [Client -> Seq(Record \cup {Control})]
         /\ \A c \in Client : Len(send'[c]) <= QueueSize
         /\ owed' \in [Client -> Seq(Record)]
         /\ dropping' \subseteq clients
         /\ broadcast' = broadcast \cup {r}
<1>1. ASSUME NEW c \in Client
      PROVE  /\ send'[c] \in Seq(Record \cup {Control}) /\ Len(send'[c]) <= QueueSize
             /\ owed'[c] \in Seq(Record)
  <2>1. /\ send[c] \in Seq(Record \cup {Control})
        /\ Len(send[c]) \in Nat /\ Len(send[c]) <= QueueSize
        /\ owed[c] \in Seq(Record)
    BY DEF TypeOK
  <2>2. /\ Append(send[c], r) \in Seq(Record \cup {Control})
        /\ Len(Append(send[c], r)) = Len(send[c]) + 1
    BY <2>1
  <2>3. Append(owed[c], r) \in Seq(Record)
    BY <2>1
  <2>4. owed'[c] = owed[c] \/ owed'[c] = Append(owed[c], r)
    BY DEF Broadcast
  <2>5. send'[c] = send[c] \/ (send'[c] = Append(send[c], r) /\ ~(Len(send[c]) >= QueueSize))
    BY DEF Broadcast
  <2>6. owed'[c] \in Seq(Record)
    BY <2>1, <2>3, <2>4
  <2>7. CASE send'[c] = send[c]
    BY <2>7, <2>6, <2>1
  <2>8. CASE send'[c] = Append(send[c], r) /\ ~(Len(send[c]) >= QueueSize)
    BY <2>8, <2>6, <2>1, <2>2, ConstantsAssumption
  <2> QED  BY <2>5, <2>7, <2>8
<1>2. send' = [c \in Client |-> send'[c]] /\ owed' = [c \in Client |-> owed'[c]]
  BY DEF Broadcast
<1>3. send' \in [Client -> Seq(Record \cup {Control})] /\ owed' \in [Client -> Seq(Record)]
  BY <1>1, <1>2
<1>4. dropping' \subseteq clients /\ broadcast' = broadcast \cup {r}
  BY DEF Broadcast, Subscribers
<1> QED  BY <1>1, <1>3, <1>4

LEMMA ProcessRecordConsumer ==
  ASSUME ConsumerInv, NEW p \in Project, ProcessRecord(p)
  PROVE  ConsumerInv'
<1> DEFINE r == [project |-> p, offset |-> position[p] + 1]
<1>1. /\ position[p] \in Nat /\ position[p] + 1 \in 1..MaxRecords
      /\ r \in Record /\ r.project = p /\ r.offset = position[p] + 1
  BY ConstantsAssumption DEF ConsumerInv, TypeOK, ProcessRecord, Record
<1>2. position' \in [Project -> 0..MaxRecords]
  BY <1>1, ConstantsAssumption DEF ConsumerInv, TypeOK, ProcessRecord
<1>3. \/ r \in Corrupt /\ UNCHANGED <<send, dropping, owed, broadcast>>
      \/ r \notin Corrupt /\ Broadcast(r)
  BY DEF ProcessRecord
<1>4. /\ broadcast' \subseteq Record /\ broadcast \subseteq broadcast'
      /\ broadcast' \subseteq broadcast \cup {r}
      /\ r \in broadcast' \cup Corrupt
  BY <1>1, <1>3 DEF ConsumerInv, TypeOK, Broadcast
<1>5. TypeOK'
  <2>1. CASE r \in Corrupt /\ UNCHANGED <<send, dropping, owed, broadcast>>
    BY <2>1, <1>2 DEF ConsumerInv, TypeOK, ProcessRecord
  <2>2. CASE Broadcast(r)
    <3> HIDE DEF r
    <3>1. TypeOK /\ r \in Record
      BY <1>1 DEF ConsumerInv
    <3>2. /\ send' \in [Client -> Seq(Record \cup {Control})]
          /\ \A c \in Client : Len(send'[c]) <= QueueSize
          /\ owed' \in [Client -> Seq(Record)]
          /\ dropping' \subseteq clients
          /\ broadcast' = broadcast \cup {r}
      BY <2>2, <3>1, BroadcastType
    <3> QED  BY <3>1, <3>2, <1>2, <1>4 DEF TypeOK, ProcessRecord
  <2> QED  BY <1>3, <2>1, <2>2
<1>6. CommittedWasBroadcast'
  BY <1>4 DEF ConsumerInv, CommittedWasBroadcast, ProcessRecord
<1>7. PassedWasBroadcast'
  <2> SUFFICES ASSUME NEW s \in Record \ Corrupt, s.offset <= position'[s.project]
               PROVE  s \in broadcast'
    BY DEF PassedWasBroadcast
  <2>1. CASE s.offset <= position[s.project]
    BY <2>1, <1>4 DEF ConsumerInv, PassedWasBroadcast
  <2>2. CASE ~(s.offset <= position[s.project])
    <3>1. s.project \in Project /\ s.offset \in Nat
          /\ s = [project |-> s.project, offset |-> s.offset]
      BY ConstantsAssumption DEF Record
    <3>2. position' = [position EXCEPT ![p] = @ + 1]
          /\ position \in [Project -> 0..MaxRecords]
      BY DEF ProcessRecord, ConsumerInv, TypeOK
    <3>3. s.project = p /\ s.offset = position[p] + 1
      BY <2>2, <3>1, <3>2, ConstantsAssumption
    <3> QED  BY <3>1, <3>3, <1>4
  <2> QED  BY <2>1, <2>2
<1>8. NoRecordSkipped'
  <2> SUFFICES ASSUME NEW s \in broadcast', NEW k \in 1..(s.offset - 1)
               PROVE  [s EXCEPT !.offset = k] \in broadcast' \cup Corrupt
    BY DEF NoRecordSkipped
  <2>1. CASE s \in broadcast
    BY <2>1, <1>4 DEF ConsumerInv, NoRecordSkipped
  <2>2. CASE s = r
    <3>1. k \in 1..position[p] /\ k \in 1..MaxRecords
      BY <2>2, <1>1, ConstantsAssumption
    <3>2. /\ [s EXCEPT !.offset = k] = [project |-> p, offset |-> k]
          /\ [project |-> p, offset |-> k] \in Record
      BY <2>2, <3>1 DEF Record
    <3>3. [project |-> p, offset |-> k] \in broadcast \cup Corrupt
      BY <3>1, <3>2 DEF ConsumerInv, PassedWasBroadcast
    <3> QED  BY <3>2, <3>3, <1>4
  <2> QED  BY <2>1, <2>2, <1>4
<1> QED  BY <1>5, <1>6, <1>7, <1>8 DEF ConsumerInv

LEMMA NextConsumer == ConsumerInv /\ [Next]_vars => ConsumerInv'
<1> SUFFICES ASSUME ConsumerInv, [Next]_vars PROVE ConsumerInv'
  OBVIOUS
<1>1. ASSUME CommitRecords PROVE ConsumerInv'
  <2>1. TypeOK'
    BY <1>1 DEF ConsumerInv, TypeOK, CommitRecords, clientVars
  <2>2. CommittedWasBroadcast' /\ PassedWasBroadcast' /\ NoRecordSkipped'
    BY <1>1 DEF ConsumerInv, CommitRecords, CommittedWasBroadcast, PassedWasBroadcast,
                NoRecordSkipped
  <2> QED  BY <2>1, <2>2 DEF ConsumerInv
<1>2. ASSUME Crash PROVE ConsumerInv'
  <2>1. TypeOK'
    <3>1. TypeOK /\ Forget(Client)
      BY <1>2 DEF ConsumerInv, Crash
    <3>2. /\ topic' \in [Project -> 0..MaxRecords]
          /\ position' \in [Project -> 0..MaxRecords]
          /\ committed' \in [Project -> 0..MaxRecords]
          /\ broadcast' \subseteq Record
      BY <1>2, <3>1 DEF TypeOK, Crash
    <3> QED  BY <3>1, <3>2, ForgetType
  <2>2. CommittedWasBroadcast' /\ PassedWasBroadcast' /\ NoRecordSkipped'
    BY <1>2 DEF ConsumerInv, Crash, CommittedWasBroadcast, PassedWasBroadcast,
                NoRecordSkipped
  <2> QED  BY <2>1, <2>2 DEF ConsumerInv
<1>3. ASSUME Rejoin PROVE ConsumerInv'
  <2>1. TypeOK'
    BY <1>3 DEF ConsumerInv, TypeOK, Rejoin, clientVars
  <2>2. CommittedWasBroadcast' /\ PassedWasBroadcast' /\ NoRecordSkipped'
    BY <1>3 DEF ConsumerInv, Rejoin, CommittedWasBroadcast, PassedWasBroadcast,
                NoRecordSkipped
  <2> QED  BY <2>1, <2>2 DEF ConsumerInv
<1>4. ASSUME UNCHANGED vars PROVE ConsumerInv'
  <2>1. TypeOK'
    BY <1>4 DEF ConsumerInv, TypeOK, vars, kafkaVars, clientVars
  <2> QED  BY <1>4, <2>1, KafkaUnchanged DEF ConsumerInv, vars
<1> QED  BY <1>1, <1>2, <1>3, <1>4, ClientStepConsumer, ProduceConsumer,
            ProcessRecordConsumer DEF Next

\* Over restarts, failed commits and rejoins, the consumer commits and
\* broadcasts records in step.
THEOREM ConsumerInvariant == Spec => []ConsumerInv
BY InitConsumer, NextConsumer, PTL DEF Spec

\* In every state the channels keep within their capacity, the hub's clients
\* are the authenticated connections, and what is committed was broadcast.
THEOREM HubKeepsInv == Spec => []HubInv
<1>1. ConsumerInv => HubInv
  BY DEF ConsumerInv, HubInv
<1> QED  BY <1>1, ConsumerInvariant, PTL

\* Crashes, rejoins and commits that fail repeat records, they never make the
\* consumer jump over one that can be decoded.
THEOREM NoRecordIsSkipped == Spec => []NoRecordSkipped
<1>1. ConsumerInv => NoRecordSkipped
  BY DEF ConsumerInv
<1> QED  BY <1>1, ConsumerInvariant, PTL

-----------------------------------------------------------------------------
(* Channels: which events are in them, and at which place of what is owed  *)

Message == Record \cup {Control}

\* The events up to a place are finitely many, and none of them is counted
\* before its own place or after the last one.
LEMMA CountType ==
  ASSUME NEW s \in Seq(Message), NEW i \in Nat
  PROVE  /\ IsFiniteSet({j \in EventPlaces(s) : j <= i})
         /\ EventCount(s, i) \in Nat
<1>1. Len(s) \in Nat
  OBVIOUS
<1>2. IsFiniteSet(1..Len(s))
  BY <1>1, FS_Interval
<1>3. {j \in EventPlaces(s) : j <= i} \in SUBSET (1..Len(s))
  BY DEF EventPlaces
<1>4. IsFiniteSet({j \in EventPlaces(s) : j <= i})
  BY <1>2, <1>3, FS_Subset
<1> QED  BY <1>4, FS_CardinalityType DEF EventCount

LEMMA CountBounds ==
  ASSUME NEW s \in Seq(Message), NEW i \in EventPlaces(s)
  PROVE  /\ i \in 1..Len(s) /\ Len(s) \in Nat
         /\ EventCount(s, i) \in 1..EventCount(s, Len(s))
<1>1. i \in 1..Len(s) /\ Len(s) \in Nat
  BY DEF EventPlaces
<1> DEFINE upTo(k) == {j \in EventPlaces(s) : j <= k}
<1>2. /\ IsFiniteSet(upTo(i)) /\ IsFiniteSet(upTo(Len(s)))
      /\ EventCount(s, i) \in Nat /\ EventCount(s, Len(s)) \in Nat
  BY <1>1, CountType
<1>3. upTo(i) \in SUBSET upTo(Len(s))
  BY <1>1 DEF EventPlaces
<1>4. i \in upTo(i)
  BY <1>1
<1>5. Cardinality(upTo(i)) # 0
  BY <1>2, <1>4, FS_EmptySet
<1>6. Cardinality(upTo(i)) <= Cardinality(upTo(Len(s)))
  BY <1>2, <1>3, FS_Subset
<1>7. EventCount(s, i) = Cardinality(upTo(i))
      /\ EventCount(s, Len(s)) = Cardinality(upTo(Len(s)))
  BY DEF EventCount
<1> HIDE DEF upTo
<1> QED  BY <1>1, <1>2, <1>5, <1>6, <1>7

\* A message at the end of a channel moves none of those before it.
LEMMA CountAppend ==
  ASSUME NEW s \in Seq(Message), NEW m \in Message
  PROVE  LET t == Append(s, m)
         IN  /\ \A i \in 1..Len(s) : EventCount(t, i) = EventCount(s, i)
             /\ EventPlaces(t) = EventPlaces(s) \cup (IF IsEvent(m) THEN {Len(t)} ELSE {})
             /\ EventCount(t, Len(t)) =
                  EventCount(s, Len(s)) + (IF IsEvent(m) THEN 1 ELSE 0)
<1> DEFINE t == Append(s, m)
<1>1. /\ Len(s) \in Nat /\ t \in Seq(Message) /\ Len(t) = Len(s) + 1
      /\ t[Len(s) + 1] = m
      /\ \A i \in 1..Len(s) : t[i] = s[i]
  OBVIOUS
<1> HIDE DEF t
<1>2. EventPlaces(t) = EventPlaces(s) \cup (IF IsEvent(m) THEN {Len(t)} ELSE {})
  BY <1>1 DEF EventPlaces
<1>3. ASSUME NEW i \in 1..Len(s)
      PROVE  EventCount(t, i) = EventCount(s, i)
  <2>1. {j \in EventPlaces(t) : j <= i} = {j \in EventPlaces(s) : j <= i}
    BY <1>1, <1>2
  <2> QED  BY <2>1 DEF EventCount
<1>4. EventCount(t, Len(t)) = EventCount(s, Len(s)) + (IF IsEvent(m) THEN 1 ELSE 0)
  <2> DEFINE E == {j \in EventPlaces(s) : j <= Len(s)}
             F == {j \in EventPlaces(t) : j <= Len(t)}
  <2>1. IsFiniteSet(E) /\ EventCount(s, Len(s)) = Cardinality(E)
        /\ EventCount(t, Len(t)) = Cardinality(F) /\ Cardinality(E) \in Nat
    BY <1>1, CountType DEF EventCount
  <2>2. CASE IsEvent(m)
    <3>1. F = E \cup {Len(t)} /\ Len(t) \notin E
      BY <1>1, <1>2, <2>2 DEF EventPlaces
    <3> HIDE DEF E, F
    <3> QED  BY <2>1, <2>2, <3>1, FS_AddElement
  <2>3. CASE ~IsEvent(m)
    <3>1. F = E
      BY <1>1, <1>2, <2>3 DEF EventPlaces
    <3> HIDE DEF E, F
    <3> QED  BY <2>1, <2>3, <3>1
  <2> QED  BY <2>2, <2>3
<1> QED  BY <1>2, <1>3, <1>4 DEF t

\* A message taken from the front of a channel moves the others one place up.
LEMMA CountTail ==
  ASSUME NEW s \in Seq(Message), s # << >>
  PROVE  LET t == Tail(s)
             n == IF IsEvent(Head(s)) THEN 1 ELSE 0
         IN  /\ t \in Seq(Message) /\ Len(t) = Len(s) - 1 /\ Len(t) \in Nat
             /\ \A i \in 1..Len(t) : t[i] = s[i + 1]
             /\ \A i \in 1..Len(t) : i \in EventPlaces(t) <=> i + 1 \in EventPlaces(s)
             /\ \A i \in 0..Len(t) : EventCount(t, i) = EventCount(s, i + 1) - n
<1> DEFINE t == Tail(s)
<1>1. /\ Len(s) \in Nat \ {0} /\ t \in Seq(Message) /\ Len(t) = Len(s) - 1 /\ Len(t) \in Nat
      /\ Head(s) = s[1]
      /\ \A i \in 1..Len(t) : t[i] = s[i + 1]
  OBVIOUS
<1> HIDE DEF t
<1>2. \A i \in 1..Len(t) : i \in EventPlaces(t) <=> i + 1 \in EventPlaces(s)
  BY <1>1 DEF EventPlaces
<1>3. ASSUME NEW i \in 0..Len(t)
      PROVE  EventCount(t, i) = EventCount(s, i + 1) - (IF IsEvent(Head(s)) THEN 1 ELSE 0)
  <2> DEFINE E == {j \in EventPlaces(s) : j <= i + 1}
             F == {j \in EventPlaces(t) : j <= i}
             up == [j \in F |-> j + 1]
  <2>1. IsFiniteSet(E) /\ IsFiniteSet(F)
        /\ EventCount(s, i + 1) = Cardinality(E) /\ EventCount(t, i) = Cardinality(F)
    BY <1>1, CountType DEF EventCount
  <2>2. 1 \in E <=> IsEvent(Head(s))
    BY <1>1 DEF EventPlaces
  <2>3. up \in Bijection(F, E \ {1})
    <3>1. \A j \in F : j + 1 \in E \ {1} /\ j \in Nat
      BY <1>1, <1>2 DEF EventPlaces
    <3>2. \A k \in E \ {1} : k - 1 \in F /\ k \in Nat
      BY <1>1, <1>2 DEF EventPlaces
    <3> HIDE DEF E, F
    <3>3. up \in [F -> E \ {1}] /\ \A j \in F : up[j] = j + 1
      BY <3>1
    <3>4. \A j, k \in F : up[j] = up[k] => j = k
      BY <3>1, <3>3
    <3>5. \A k \in E \ {1} : \E j \in F : up[j] = k
      BY <3>2, <3>3
    <3> HIDE DEF up
    <3> QED  BY <3>3, <3>4, <3>5 DEF Bijection, Surjection, Injection, IsInjective
  <2>4. Cardinality(E \ {1}) = Cardinality(F)
    <3> HIDE DEF E, F, up
    <3>1. ExistsBijection(F, E \ {1})
      BY <2>3 DEF ExistsBijection
    <3> QED  BY <2>1, <3>1, FS_Bijection
  <2>5. Cardinality(E \ {1}) = IF 1 \in E THEN Cardinality(E) - 1 ELSE Cardinality(E)
    <3> HIDE DEF E
    <3> QED  BY <2>1, FS_RemoveElement
  <2>6. Cardinality(E) \in Nat
    BY <2>1, FS_CardinalityType
  <2> HIDE DEF E, F, up
  <2> QED  BY <2>1, <2>2, <2>4, <2>5, <2>6
<1> QED  BY <1>1, <1>2, <1>3 DEF t

-----------------------------------------------------------------------------
(* What is written, in the channel and owed                                *)

LEMMA CompleteWhenNew == Complete(<< >>, << >>, << >>)
<1>1. << >> \in Seq(Message) /\ Len(<< >>) = 0
  OBVIOUS
<1>2. EventPlaces(<< >>) = {}
  BY <1>1 DEF EventPlaces
<1>3. EventCount(<< >>, 0) = 0
  BY <1>2, FS_EmptySet DEF EventCount
<1> QED  BY <1>1, <1>2, <1>3 DEF Complete

\* A control message in the channel is owed to nobody.
LEMMA CompleteControl ==
  ASSUME NEW written \in Seq(Record), NEW channel \in Seq(Message),
         NEW due \in Seq(Record), Complete(written, channel, due)
  PROVE  Complete(written, Append(channel, Control), due)
<1> DEFINE next == Append(channel, Control)
<1>1. Control \in Message /\ ~IsEvent(Control)
  BY DEF Message, IsEvent
<1>2. /\ EventPlaces(next) = EventPlaces(channel)
      /\ EventCount(next, Len(next)) = EventCount(channel, Len(channel)) + 0
      /\ \A i \in 1..Len(channel) : EventCount(next, i) = EventCount(channel, i)
  <2>1. /\ \A i \in 1..Len(channel) : EventCount(next, i) = EventCount(channel, i)
        /\ EventPlaces(next) =
             EventPlaces(channel) \cup (IF IsEvent(Control) THEN {Len(next)} ELSE {})
        /\ EventCount(next, Len(next)) =
             EventCount(channel, Len(channel)) + (IF IsEvent(Control) THEN 1 ELSE 0)
    BY <1>1, CountAppend
  <2> HIDE DEF next
  <2> QED  BY <1>1, <2>1
<1>3. \A i \in EventPlaces(channel) : i \in 1..Len(channel) /\ next[i] = channel[i]
  BY DEF EventPlaces
<1>4. EventCount(channel, Len(channel)) \in Nat
  <2>1. Len(channel) \in Nat
    OBVIOUS
  <2> QED  BY <2>1, CountType
<1> HIDE DEF next
<1>5. Complete(written, next, due)
  BY <1>2, <1>3, <1>4 DEF Complete
<1> QED  BY <1>5 DEF next

\* An event that is owed and put into the channel becomes the last of both.
LEMMA CompleteEvent ==
  ASSUME NEW written \in Seq(Record), NEW channel \in Seq(Message),
         NEW due \in Seq(Record), Complete(written, channel, due),
         NEW r \in Record
  PROVE  Complete(written, Append(channel, r), Append(due, r))
<1> DEFINE next == Append(channel, r)
           owes == Append(due, r)
<1>1. r \in Message /\ IsEvent(r)
  BY RecordsAreEvents DEF Message
<1>2. /\ EventPlaces(next) = EventPlaces(channel) \cup {Len(next)}
      /\ EventCount(next, Len(next)) = EventCount(channel, Len(channel)) + 1
      /\ \A i \in 1..Len(channel) : EventCount(next, i) = EventCount(channel, i)
  <2>1. /\ \A i \in 1..Len(channel) : EventCount(next, i) = EventCount(channel, i)
        /\ EventPlaces(next) =
             EventPlaces(channel) \cup (IF IsEvent(r) THEN {Len(next)} ELSE {})
        /\ EventCount(next, Len(next)) =
             EventCount(channel, Len(channel)) + (IF IsEvent(r) THEN 1 ELSE 0)
    BY <1>1, CountAppend
  <2> HIDE DEF next
  <2> QED  BY <1>1, <2>1
<1>3. /\ Len(written) \in Nat /\ EventCount(channel, Len(channel)) \in Nat
      /\ Len(due) = Len(written) + EventCount(channel, Len(channel))
  <2>1. Len(channel) \in Nat /\ Len(written) \in Nat
    OBVIOUS
  <2>2. EventCount(channel, Len(channel)) \in Nat
    BY <2>1, CountType
  <2> QED  BY <2>1, <2>2 DEF Complete
<1>4. /\ \A i \in 1..Len(channel) : next[i] = channel[i]
      /\ Len(channel) \in Nat /\ Len(next) = Len(channel) + 1 /\ next[Len(next)] = r
  BY <1>1
<1>5. /\ \A i \in 1..Len(due) : owes[i] = due[i]
      /\ Len(due) \in Nat /\ Len(owes) = Len(due) + 1 /\ owes[Len(due) + 1] = r
  OBVIOUS
<1> HIDE DEF next, owes
<1>6. Len(owes) = Len(written) + EventCount(next, Len(next))
  BY <1>2, <1>3, <1>5
<1>7. \A i \in 1..Len(written) : written[i] = owes[i]
  BY <1>3, <1>5 DEF Complete
<1>8. ASSUME NEW i \in EventPlaces(next)
      PROVE  next[i] = owes[Len(written) + EventCount(next, i)]
  <2>1. CASE i \in EventPlaces(channel)
    <3>1. i \in 1..Len(channel) /\ EventCount(channel, i) \in 1..EventCount(channel, Len(channel))
      BY <2>1, CountBounds
    <3>2. channel[i] = due[Len(written) + EventCount(channel, i)]
      BY <2>1 DEF Complete
    <3>3. Len(written) + EventCount(channel, i) \in 1..Len(due)
      BY <3>1, <1>3
    <3> QED  BY <3>1, <3>2, <3>3, <1>2, <1>4, <1>5
  <2>2. CASE i = Len(next)
    <3>1. Len(written) + EventCount(next, i) = Len(due) + 1
      BY <2>2, <1>2, <1>3
    <3> QED  BY <2>2, <3>1, <1>4, <1>5
  <2> QED  BY <1>2, <2>1, <2>2
<1> QED  BY <1>6, <1>7, <1>8 DEF Complete, next, owes

\* The writer takes the first message: a control message is gone, an event is
\* the next one owed.
LEMMA CompleteWrite ==
  ASSUME NEW written \in Seq(Record), NEW channel \in Seq(Message), channel # << >>,
         NEW due \in Seq(Record), Complete(written, channel, due)
  PROVE  Complete(IF IsEvent(Head(channel)) THEN Append(written, Head(channel)) ELSE written,
                  Tail(channel), due)
<1> DEFINE rest == Tail(channel)
           n == IF IsEvent(Head(channel)) THEN 1 ELSE 0
           got == IF IsEvent(Head(channel)) THEN Append(written, Head(channel)) ELSE written
<1>1. /\ rest \in Seq(Message) /\ Len(rest) = Len(channel) - 1 /\ Len(rest) \in Nat
      /\ \A i \in 1..Len(rest) : rest[i] = channel[i + 1]
      /\ \A i \in 1..Len(rest) : i \in EventPlaces(rest) <=> i + 1 \in EventPlaces(channel)
      /\ \A i \in 0..Len(rest) : EventCount(rest, i) = EventCount(channel, i + 1) - n
  BY CountTail
<1>2. Len(channel) \in Nat \ {0} /\ Head(channel) = channel[1]
  OBVIOUS
<1>3. EventCount(rest, 0) = 0
  <2>1. {j \in EventPlaces(rest) : j <= 0} = {}
    BY DEF EventPlaces
  <2> QED  BY <2>1, FS_EmptySet DEF EventCount
<1>4. \A i \in Nat : EventCount(channel, i) \in Nat
  BY CountType
<1>5. EventCount(channel, 1) = n
  <2>1. n \in {0, 1}
    OBVIOUS
  <2> HIDE DEF rest, n
  <2>2. EventCount(rest, 0) = EventCount(channel, 0 + 1) - n
    BY <1>1
  <2> QED  BY <1>3, <1>4, <2>1, <2>2
<1>6. n = 1 => channel[1] = due[Len(written) + 1]
  <2> SUFFICES ASSUME n = 1 PROVE channel[1] = due[Len(written) + 1]
    OBVIOUS
  <2>1. 1 \in EventPlaces(channel)
    BY <1>2 DEF EventPlaces
  <2> QED  BY <2>1, <1>5 DEF Complete
<1>7. /\ Len(written) \in Nat /\ Len(got) = Len(written) + n
      /\ \A i \in 1..Len(written) : got[i] = written[i]
      /\ n = 1 => got[Len(written) + 1] = channel[1]
  <2>1. CASE IsEvent(Head(channel))
    <3>1. got = Append(written, Head(channel))
      BY <2>1
    <3>2. Len(written) \in Nat /\ Len(got) = Len(written) + 1
      BY <3>1
    <3>3. /\ \A i \in 1..Len(written) : got[i] = written[i]
          /\ got[Len(written) + 1] = Head(channel)
      BY <3>1
    <3> QED  BY <2>1, <3>2, <3>3, <1>2
  <2>2. CASE ~IsEvent(Head(channel))
    BY <2>2
  <2> QED  BY <2>1, <2>2
<1>8. n \in {0, 1}
  OBVIOUS
<1>9. Len(due) = Len(written) + EventCount(channel, Len(channel))
  BY DEF Complete
<1> HIDE DEF rest, got, n
<1>10. Len(due) = Len(got) + EventCount(rest, Len(rest))
  <2>1. EventCount(rest, Len(rest)) = EventCount(channel, Len(channel)) - n
    BY <1>1, <1>2
  <2> QED  BY <2>1, <1>2, <1>4, <1>7, <1>8, <1>9
<1>11. \A i \in 1..Len(got) : got[i] = due[i]
  <2> SUFFICES ASSUME NEW i \in 1..Len(got) PROVE got[i] = due[i]
    OBVIOUS
  <2>1. CASE i \in 1..Len(written)
    BY <2>1, <1>7 DEF Complete
  <2>2. CASE n = 1 /\ i = Len(written) + 1
    BY <2>2, <1>6, <1>7
  <2> QED  BY <2>1, <2>2, <1>7, <1>8
<1>12. ASSUME NEW i \in EventPlaces(rest)
       PROVE  rest[i] = due[Len(got) + EventCount(rest, i)]
  <2>1. i \in 1..Len(rest)
    BY DEF EventPlaces
  <2>2. i + 1 \in EventPlaces(channel) /\ rest[i] = channel[i + 1]
        /\ EventCount(rest, i) = EventCount(channel, i + 1) - n
    BY <2>1, <1>1
  <2>3. channel[i + 1] = due[Len(written) + EventCount(channel, i + 1)]
    BY <2>2 DEF Complete
  <2>4. Len(got) + EventCount(rest, i) = Len(written) + EventCount(channel, i + 1)
    BY SMTT(30), <2>1, <2>2, <1>1, <1>4, <1>7, <1>8
  <2> QED  BY <2>2, <2>3, <2>4
<1>13. Complete(got, rest, due)
  BY <1>10, <1>11, <1>12 DEF Complete
<1> QED  BY <1>13 DEF got, rest

-----------------------------------------------------------------------------
(* NoSilentGap                                                             *)

\* The inductive invariant of the connections.  It speaks of every connection,
\* not only of the hub's clients: one that is not authenticated yet has to
\* start with nothing written, nothing in its channel and nothing owed.
Gapless ==
  \A c \in Client \ (cancelled \cup dropping) : Complete(received[c], send[c], owed[c])

\* What the lemmas about channels ask of the state.
LEMMA ChannelTypes ==
  ASSUME TypeOK, NEW c \in Client
  PROVE  /\ received[c] \in Seq(Record) /\ send[c] \in Seq(Message)
         /\ owed[c] \in Seq(Record)
BY DEF TypeOK, Message

\* A step that leaves what is written, in the channel and owed as it is keeps
\* the connections without gaps, if it lifts no cancellation.
LEMMA GaplessUnchanged ==
  ASSUME Gapless, UNCHANGED <<send, received, owed>>,
         cancelled \cup dropping \subseteq cancelled' \cup dropping'
  PROVE  Gapless'
BY DEF Gapless

LEMMA SendJSONGapless ==
  ASSUME TypeOK, Gapless, NEW c \in Client, SendJSON(c),
         UNCHANGED <<received, owed, dropping>>
  PROVE  Gapless'
<1>1. CASE Len(send[c]) < QueueSize
  <2>1. send' = [send EXCEPT ![c] = Append(@, Control)] /\ cancelled' = cancelled
    BY <1>1 DEF SendJSON
  <2> SUFFICES ASSUME NEW d \in Client \ (cancelled \cup dropping)
               PROVE  Complete(received[d], send'[d], owed[d])
    BY <2>1 DEF Gapless
  <2>2. Complete(received[d], send[d], owed[d])
    BY DEF Gapless
  <2>3. CASE d = c
    <3>1. send'[d] = Append(send[d], Control)
      BY <2>1, <2>3 DEF TypeOK
    <3> QED  BY <2>2, <3>1, ChannelTypes, CompleteControl
  <2>4. CASE d # c
    BY <2>1, <2>2, <2>4 DEF TypeOK
  <2> QED  BY <2>3, <2>4
<1>2. CASE ~(Len(send[c]) < QueueSize)
  BY <1>2, GaplessUnchanged DEF SendJSON
<1> QED  BY <1>1, <1>2

\* Nothing is written, in the channel or owed of a connection that is forgotten.
LEMMA ForgetGapless ==
  ASSUME TypeOK, Gapless, NEW C \in SUBSET Client, Forget(C)
  PROVE  Gapless'
<1> SUFFICES ASSUME NEW c \in Client, c \notin cancelled', c \notin dropping'
             PROVE  Complete(received'[c], send'[c], owed'[c])
  BY DEF Gapless
<1>1. CASE c \in C
  BY <1>1, CompleteWhenNew DEF Forget
<1>2. CASE c \notin C
  BY <1>2 DEF Forget, Gapless
<1> QED  BY <1>1, <1>2

LEMMA ClientStepGapless ==
  ASSUME TypeOK, Gapless, NEW c \in Client, ClientStep(c)
  PROVE  Gapless'
<1>1. ASSUME Accept(c) \/ PingExpired(c) \/ Expire(c) \/ CancelSlow(c) PROVE Gapless'
  BY <1>1, GaplessUnchanged DEF Accept, PingExpired, Expire, CancelSlow
<1>2. ASSUME Authenticate(c) \/ Reauthenticate(c) \/ RejectMessage(c) PROVE Gapless'
  BY <1>2, SendJSONGapless DEF Authenticate, Reauthenticate, RejectMessage
<1>3. ASSUME NEW p \in Project, Subscribe(c, p) PROVE Gapless'
  BY <1>3, SendJSONGapless DEF Subscribe
<1>4. ASSUME NEW p \in Project, Unsubscribe(c, p) PROVE Gapless'
  BY <1>4, GaplessUnchanged DEF Unsubscribe
<1>5. ASSUME ReaderReturns(c) PROVE Gapless'
  BY <1>5, ForgetGapless DEF ReaderReturns
<1>6. ASSUME Write(c) PROVE Gapless'
  <2> SUFFICES ASSUME NEW d \in Client \ (cancelled \cup dropping)
               PROVE  Complete(received'[d], send'[d], owed[d])
    BY <1>6 DEF Gapless, Write
  <2>1. Complete(received[d], send[d], owed[d])
    BY DEF Gapless
  <2>2. CASE d = c
    <3>1. /\ send[d] # << >> /\ send'[d] = Tail(send[d])
          /\ received'[d] = IF IsEvent(Head(send[d])) THEN Append(received[d], Head(send[d]))
                            ELSE received[d]
      BY <1>6, <2>2 DEF TypeOK, Write
    <3> QED  BY <2>1, <3>1, ChannelTypes, CompleteWrite
  <2>3. CASE d # c
    BY <1>6, <2>1, <2>3 DEF TypeOK, Write
  <2> QED  BY <2>2, <2>3
<1>7. ASSUME WriterReturns(c) PROVE Gapless'
  <2> SUFFICES ASSUME NEW d \in Client \ (cancelled \cup dropping), d # c
               PROVE  Complete(received[d], send'[d], owed[d])
    BY <1>7 DEF Gapless, WriterReturns
  <2>1. send'[d] = send[d]
    BY <1>7 DEF TypeOK, WriterReturns
  <2> QED  BY <2>1 DEF Gapless
<1> QED  BY <1>1, <1>2, <1>3, <1>4, <1>5, <1>6, <1>7 DEF ClientStep

\* A broadcast puts the event into the channel of each subscriber it is owed
\* to, or else marks the subscriber as slow.
LEMMA ProcessRecordGapless ==
  ASSUME TypeOK, Gapless, NEW p \in Project, ProcessRecord(p)
  PROVE  Gapless'
<1> DEFINE r == [project |-> p, offset |-> position[p] + 1]
<1>1. r \in Record
  BY ConstantsAssumption DEF TypeOK, ProcessRecord, Record
<1>2. /\ dropping = {} /\ received' = received /\ cancelled' = cancelled
      /\ \/ UNCHANGED <<send, dropping, owed>>
         \/ Broadcast(r)
  BY DEF ProcessRecord
<1> HIDE DEF r
<1>3. CASE UNCHANGED <<send, dropping, owed>>
  BY <1>2, <1>3, GaplessUnchanged
<1>4. CASE Broadcast(r)
  <2> SUFFICES ASSUME NEW c \in Client, c \notin cancelled, c \notin dropping'
               PROVE  Complete(received[c], send'[c], owed'[c])
    BY <1>2 DEF Gapless
  <2>1. Complete(received[c], send[c], owed[c])
    BY <1>2 DEF Gapless
  <2>2. CASE c \in Subscribers(r.project)
    <3>1. send'[c] = Append(send[c], r) /\ owed'[c] = Append(owed[c], r)
      BY <1>4, <2>2 DEF Broadcast
    <3> QED  BY <1>1, <2>1, <3>1, ChannelTypes, CompleteEvent
  <2>3. CASE c \notin Subscribers(r.project)
    BY <1>4, <2>1, <2>3 DEF Broadcast
  <2> QED  BY <2>2, <2>3
<1> QED  BY <1>2, <1>3, <1>4

LEMMA NextGapless == TypeOK /\ Gapless /\ [Next]_vars => Gapless'
<1> SUFFICES ASSUME TypeOK, Gapless, [Next]_vars PROVE Gapless'
  OBVIOUS
<1>1. ASSUME NEW p \in Project, Produce(p) PROVE Gapless'
  BY <1>1, GaplessUnchanged DEF Produce, clientVars
<1>2. ASSUME CommitRecords \/ Rejoin PROVE Gapless'
  BY <1>2, GaplessUnchanged DEF CommitRecords, Rejoin, clientVars
<1>3. ASSUME Crash PROVE Gapless'
  BY <1>3, ForgetGapless DEF Crash
<1>4. ASSUME UNCHANGED vars PROVE Gapless'
  BY <1>4, GaplessUnchanged DEF vars, clientVars
<1> QED  BY <1>1, <1>2, <1>3, <1>4, ClientStepGapless, ProcessRecordGapless DEF Next

\* Whatever the reader, the writer and the consumer do in which order, through
\* full channels and rejoins: a connection that is neither cancelled nor about
\* to be has missed none of the events it is owed, and got them in order.
THEOREM ConnectionsHaveNoGap == Spec => []NoSilentGap
<1>1. Init => Gapless
  BY CompleteWhenNew DEF Init, Gapless
<1>2. ConsumerInv => TypeOK
  BY DEF ConsumerInv
<1>3. ConsumerInv /\ Gapless => NoSilentGap
  BY DEF ConsumerInv, TypeOK, Gapless, NoSilentGap
<1> QED  BY <1>1, <1>2, <1>3, NextGapless, ConsumerInvariant, PTL DEF Spec
=============================================================================
