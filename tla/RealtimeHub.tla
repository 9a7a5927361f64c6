---------------------------- MODULE RealtimeHub ----------------------------
(***************************************************************************)
(* The realtime service (internal/realtime/hub.go, cmd/realtime/main.go):  *)
(* one consumer goroutine reads the Kafka topic and broadcasts each event, *)
(* and every WebSocket connection has a reader goroutine (ServeHTTP) and a *)
(* writer goroutine (writeLoop) around a bounded channel.                  *)
(*                                                                         *)
(* A record is known by its project, which is its key and so its           *)
(* partition, and its place there.  A Broadcast is one step up to the      *)
(* release of the lock, because each client takes or refuses the payload   *)
(* independently; the cancellations that follow are steps of their own.    *)
(***************************************************************************)
EXTENDS Integers, Sequences, FiniteSets

CONSTANTS
  Client,      \* connections that can be open at once
  Project,
  QueueSize,   \* capacity of client.send
  MaxRecords,  \* bound: records of each project
  MaxTopic,    \* bound: records of all projects together
  MaxOwed,     \* bound: events owed to a connection when the consumer rejoins
  Corrupt,     \* records that events.Decode rejects
  NULL

Record == [project : Project, offset : 1..MaxRecords]

\* ready, authenticated, subscribed and error messages
Control == [project |-> NULL, offset |-> 0]

ASSUME ConstantsAssumption ==
  /\ QueueSize \in Nat \ {0}
  /\ {MaxRecords, MaxTopic} \subseteq Nat
  /\ MaxOwed \in Nat
  /\ Corrupt \subseteq Record
  /\ NULL \notin Project

VARIABLES
  topic,          \* records of each project in Kafka
  position,       \* records of each project the consumer has gone through
  committed,      \* offsets committed for the consumer group
  broadcast,      \* records Broadcast was called with, over all restarts
  conn,           \* each connection: closed, handshake or serving
  clients,        \* Hub.clients
  subscriptions,  \* client.subscriptions
  send,           \* client.send
  writers,        \* clients whose writeLoop has not returned
  cancelled,      \* clients whose context is cancelled
  dropping,       \* slow clients the current Broadcast has still to cancel
  expired,        \* clients whose expiresAt has passed
  received,       \* events written to each open connection
  owed            \* events broadcast to each open connection's subscriptions

kafkaVars  == <<topic, position, committed, broadcast>>
clientVars == <<conn, clients, subscriptions, send, writers, cancelled, dropping,
                expired, received, owed>>
vars       == <<kafkaVars, clientVars>>

\* Types; Hub.clients is the set of authenticated open connections, and no
\* channel exceeds its capacity although Broadcast and sendJSON both fill it.
TypeOK ==
  /\ topic \in [Project -> 0..MaxRecords]
  /\ position \in [Project -> 0..MaxRecords]
  /\ committed \in [Project -> 0..MaxRecords]
  /\ broadcast \subseteq Record
  /\ conn \in [Client -> {"closed", "handshake", "serving"}]
  /\ clients = {c \in Client : conn[c] = "serving"}
  /\ subscriptions \in [Client -> SUBSET Project]
  /\ send \in [Client -> Seq(Record \cup {Control})]
  /\ \A c \in Client : Len(send[c]) <= QueueSize
  /\ writers \subseteq Client
  /\ cancelled \subseteq Client
  /\ dropping \subseteq clients
  /\ expired \subseteq Client
  /\ received \in [Client -> Seq(Record)]
  /\ owed \in [Client -> Seq(Record)]

Init ==
  /\ topic = [p \in Project |-> 0]
  /\ position = [p \in Project |-> 0]
  /\ committed = [p \in Project |-> 0]
  /\ broadcast = {}
  /\ conn = [c \in Client |-> "closed"]
  /\ clients = {}
  /\ subscriptions = [c \in Client |-> {}]
  /\ send = [c \in Client |-> << >>]
  /\ writers = {}
  /\ cancelled = {}
  /\ dropping = {}
  /\ expired = {}
  /\ received = [c \in Client |-> << >>]
  /\ owed = [c \in Client |-> << >>]

-----------------------------------------------------------------------------
(* ServeHTTP: one connection's reader                                      *)

\* The upgrade: a fresh client, its writer started, nothing subscribed.
Accept(c) ==
  /\ conn[c] = "closed"
  /\ conn' = [conn EXCEPT ![c] = "handshake"]
  /\ writers' = writers \cup {c}
  /\ UNCHANGED <<kafkaVars, clients, subscriptions, send, cancelled, dropping,
                 expired, received, owed>>

\* The deferred cancel, remove and CloseNow.  The client is garbage; what the
\* connection received is forgotten with it.
Forget(C) ==
  /\ conn' = [c \in Client |-> IF c \in C THEN "closed" ELSE conn[c]]
  /\ clients' = clients \ C
  /\ subscriptions' = [c \in Client |-> IF c \in C THEN {} ELSE subscriptions[c]]
  /\ send' = [c \in Client |-> IF c \in C THEN << >> ELSE send[c]]
  /\ writers' = writers \ C
  /\ cancelled' = cancelled \ C
  /\ dropping' = dropping \ C
  /\ expired' = expired \ C
  /\ received' = [c \in Client |-> IF c \in C THEN << >> ELSE received[c]]
  /\ owed' = [c \in Client |-> IF c \in C THEN << >> ELSE owed[c]]

\* The non-blocking send of sendJSON.
SendJSON(c) ==
  IF Len(send[c]) < QueueSize
  THEN send' = [send EXCEPT ![c] = Append(@, Control)] /\ UNCHANGED cancelled
  ELSE cancelled' = cancelled \cup {c} /\ UNCHANGED send

\* The first message authenticates: add, then "ready".
Authenticate(c) ==
  /\ conn[c] = "handshake"
  /\ conn' = [conn EXCEPT ![c] = "serving"]
  /\ clients' = clients \cup {c}
  /\ SendJSON(c)
  /\ UNCHANGED <<kafkaVars, subscriptions, writers, dropping, expired, received, owed>>

\* A later authenticate message extends the session.
Reauthenticate(c) ==
  /\ conn[c] = "serving"
  /\ expired' = expired \ {c}
  /\ SendJSON(c)
  /\ UNCHANGED <<kafkaVars, conn, clients, subscriptions, writers, dropping,
                 received, owed>>

\* The set is replaced: one project per connection.
Subscribe(c, p) ==
  /\ conn[c] = "serving"
  /\ subscriptions' = [subscriptions EXCEPT ![c] = {p}]
  /\ SendJSON(c)
  /\ UNCHANGED <<kafkaVars, conn, clients, writers, dropping, expired, received, owed>>

Unsubscribe(c, p) ==
  /\ conn[c] = "serving"
  /\ subscriptions' = [subscriptions EXCEPT ![c] = @ \ {p}]
  /\ UNCHANGED <<kafkaVars, conn, clients, send, writers, cancelled, dropping,
                 expired, received, owed>>

\* A project_id below 1 or an unknown type.
RejectMessage(c) ==
  /\ conn[c] = "serving"
  /\ SendJSON(c)
  /\ UNCHANGED <<kafkaVars, conn, clients, subscriptions, writers, dropping,
                 expired, received, owed>>

\* Mutant: the reader does not read under the client's context.
ReaderReturnsOnError(c) ==
  /\ conn[c] # "closed"
  /\ c \notin cancelled
  /\ Forget({c})
  /\ UNCHANGED kafkaVars

\* The reader returns: no or a bad first message, a denied token, a closed
\* connection, or its context is cancelled.
ReaderReturns(c) ==
  /\ conn[c] # "closed"
  /\ Forget({c})
  /\ UNCHANGED kafkaVars

-----------------------------------------------------------------------------
(* writeLoop                                                               *)

IsEvent(m) == m # Control

\* A payload is written; after a cancellation select may still choose it.
Write(c) ==
  /\ c \in writers
  /\ send[c] # << >>
  /\ send' = [send EXCEPT ![c] = Tail(@)]
  /\ received' = [received EXCEPT ![c] =
                    IF IsEvent(Head(send[c])) THEN Append(@, Head(send[c])) ELSE @]
  /\ UNCHANGED <<kafkaVars, conn, clients, subscriptions, writers, cancelled,
                 dropping, expired, owed>>

\* The write or a ping fails or takes longer than writeWithin, the token is
\* found expired at a ping, or the context is done.
WriterReturns(c) ==
  /\ c \in writers
  /\ writers' = writers \ {c}
  /\ cancelled' = cancelled \cup {c}
  /\ send' = [send EXCEPT ![c] = IF @ = << >> THEN @ ELSE Tail(@)] \/ UNCHANGED send
  /\ UNCHANGED <<kafkaVars, conn, clients, subscriptions, dropping, expired,
                 received, owed>>

\* Mutant: the ping does not look at expiresAt.
PingAnyway(c) ==
  /\ c \in writers \cap expired
  /\ UNCHANGED vars

\* The ping of a client whose token has expired.
PingExpired(c) ==
  /\ c \in writers \cap expired
  /\ writers' = writers \ {c}
  /\ cancelled' = cancelled \cup {c}
  /\ UNCHANGED <<kafkaVars, conn, clients, subscriptions, send, dropping, expired,
                 received, owed>>

Expire(c) ==
  /\ c \in clients \ expired
  /\ expired' = expired \cup {c}
  /\ UNCHANGED <<kafkaVars, conn, clients, subscriptions, send, writers, cancelled,
                 dropping, received, owed>>

-----------------------------------------------------------------------------
(* consume                                                                 *)

\* The relay appends a record of project p.
Produce(p) ==
  /\ topic[p] < MaxRecords
  /\ Cardinality({r \in Record : r.offset <= topic[r.project]}) < MaxTopic
  /\ topic' = [topic EXCEPT ![p] = @ + 1]
  /\ UNCHANGED <<position, committed, broadcast, clientVars>>

Subscribers(p) == {c \in clients : p \in subscriptions[c]}

\* Mutant: a client whose channel is full is skipped and kept.
BroadcastSkipping(r) ==
  LET full == {c \in Subscribers(r.project) : Len(send[c]) >= QueueSize}
  IN  /\ send' = [c \in Client |-> IF c \in Subscribers(r.project) \ full
                                   THEN Append(send[c], r) ELSE send[c]]
      /\ dropping' = {}
      /\ owed' = [c \in Client |-> IF c \in Subscribers(r.project)
                                   THEN Append(owed[c], r) ELSE owed[c]]
      /\ broadcast' = broadcast \cup {r}

\* Broadcast under the read lock: a full channel marks its client as slow.
Broadcast(r) ==
  LET full == {c \in Subscribers(r.project) : Len(send[c]) >= QueueSize}
  IN  /\ send' = [c \in Client |-> IF c \in Subscribers(r.project) \ full
                                   THEN Append(send[c], r) ELSE send[c]]
      /\ dropping' = full
      /\ owed' = [c \in Client |-> IF c \in Subscribers(r.project)
                                   THEN Append(owed[c], r) ELSE owed[c]]
      /\ broadcast' = broadcast \cup {r}

\* processRecord on the next record of a fetch.
ProcessRecord(p) ==
  LET r == [project |-> p, offset |-> position[p] + 1]
  IN  /\ dropping = {}
      /\ position[p] < topic[p]
      /\ position' = [position EXCEPT ![p] = @ + 1]
      /\ IF r \in Corrupt
         THEN UNCHANGED <<send, dropping, owed, broadcast>>
         ELSE Broadcast(r)
      /\ UNCHANGED <<topic, committed, conn, clients, subscriptions, writers,
                     cancelled, expired, received>>

\* The loop over dropped, after the lock is released.
CancelSlow(c) ==
  /\ c \in dropping
  /\ dropping' = dropping \ {c}
  /\ cancelled' = cancelled \cup {c}
  /\ UNCHANGED <<kafkaVars, conn, clients, subscriptions, send, writers, expired,
                 received, owed>>

\* Mutant: a fetch is committed before its records are processed.
CommitFetched ==
  /\ committed # topic
  /\ committed' = topic
  /\ UNCHANGED <<topic, position, broadcast, clientVars>>

\* All records of the fetch have been processed.  A commit that fails is only
\* logged: the next one covers it.
CommitRecords ==
  /\ dropping = {}
  /\ committed # position
  /\ committed' = position
  /\ UNCHANGED <<topic, position, broadcast, clientVars>>

\* The process ends and is restarted: every connection is lost, and the group
\* resumes at its committed offsets.
Crash ==
  /\ position' = committed
  /\ Forget(Client)
  /\ UNCHANGED <<topic, committed, broadcast>>

\* Mutant: the consumer resumes at the end of the topic.
RejoinAtEnd ==
  /\ position' = topic
  /\ UNCHANGED <<topic, committed, broadcast, clientVars>>

\* The consumer loses its group session and rejoins: it resumes at its
\* committed offsets under connections that stay open, so what was broadcast
\* and not committed is broadcast to them again.
Rejoin ==
  /\ dropping = {}
  /\ position # committed
  /\ \A c \in Client : Len(owed[c]) <= MaxOwed
  /\ position' = committed
  /\ UNCHANGED <<topic, committed, broadcast, clientVars>>

ClientStep(c) ==
  \/ Accept(c)
  \/ Authenticate(c)
  \/ Reauthenticate(c)
  \/ \E p \in Project : Subscribe(c, p) \/ Unsubscribe(c, p)
  \/ RejectMessage(c)
  \/ ReaderReturns(c)
  \/ Write(c)
  \/ WriterReturns(c)
  \/ PingExpired(c)
  \/ Expire(c)
  \/ CancelSlow(c)

Next ==
  \/ \E c \in Client : ClientStep(c)
  \/ \E p \in Project : Produce(p) \/ ProcessRecord(p)
  \/ CommitRecords
  \/ Crash
  \/ Rejoin

Spec == Init /\ [][Next]_vars

\* Scheduling: goroutines whose context is cancelled, ready tickers and the
\* consumer get their turn, and the process does not crash, nor its group
\* session break, for ever.
Fairness ==
  /\ \A c \in Client :
       /\ WF_vars(c \in cancelled /\ ReaderReturns(c))
       /\ WF_vars(PingExpired(c))
       /\ WF_vars(CancelSlow(c))
  /\ \A p \in Project : WF_vars(ProcessRecord(p))
  /\ <>[][~(Crash \/ Rejoin)]_vars

FairSpec == Spec /\ Fairness

-----------------------------------------------------------------------------
(* Properties                                                              *)

\* Where the events among the messages of a channel are, and how many there are
\* up to the i-th message.
EventPlaces(s) == {i \in 1..Len(s) : IsEvent(s[i])}
EventCount(s, i) == Cardinality({j \in EventPlaces(s) : j <= i})

\* What was written, followed by the events of the channel, is exactly what is
\* owed, in order.
Complete(written, channel, due) ==
  /\ Len(due) = Len(written) + EventCount(channel, Len(channel))
  /\ \A i \in 1..Len(written) : written[i] = due[i]
  /\ \A i \in EventPlaces(channel) :
       channel[i] = due[Len(written) + EventCount(channel, i)]

\* A connection that misses an event does not survive it: as long as a client
\* is neither cancelled nor about to be, it was sent, or has in its channel,
\* exactly the events broadcast to its subscriptions, in order.  A browser
\* that stays connected may therefore trust its stream.
NoSilentGap ==
  \A c \in clients \ (cancelled \cup dropping) : Complete(received[c], send[c], owed[c])

\* Offsets are committed only for records that were broadcast, although the
\* commit covers a whole fetch, may fail, and crashes come between.
CommittedWasBroadcast ==
  \A r \in Record \ Corrupt : r.offset <= committed[r.project] => r \in broadcast

\* What holds of every state of the gateway: the channels keep within their
\* bounds, and what is committed was broadcast.
HubInv == TypeOK /\ CommittedWasBroadcast

\* No record is skipped: when one is broadcast, the decodable records before
\* it in its partition have been, in this process or an earlier one.  Crashes
\* and rejoins repeat records, they never jump over one.
NoRecordSkipped ==
  \A r \in broadcast : \A k \in 1..(r.offset - 1) :
    [r EXCEPT !.offset = k] \in broadcast \cup Corrupt

\* A client that fell behind or was cancelled leaves the hub, so its browser
\* gets to know that it has to reload.
CancelledClientsLeave ==
  \A c \in Client : (c \in cancelled \cup dropping) ~> (c \notin cancelled \cup dropping)

\* A session whose token has expired ends, unless it authenticates again.
ExpiredSessionsEnd == \A c \in Client : (c \in expired) ~> (c \notin expired)

\* Every decodable record in the topic is eventually broadcast, through crashes,
\* rejoins and commits that fail.
EveryRecordBroadcast ==
  \A r \in Record \ Corrupt : (r.offset <= topic[r.project]) ~> (r \in broadcast)
=============================================================================
