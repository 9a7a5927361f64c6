----------------------- MODULE BrowserSessionProofs ------------------------
(***************************************************************************)
(* Proofs about BrowserSession, for any lifetime of the tokens, any        *)
(* refresh margin and any number of waiting calls, former sockets and      *)
(* messages on the way: SessionInv is inductive.                           *)
(***************************************************************************)
EXTENDS BrowserSession, SequenceTheorems, TLAPS

\* What TypeOK says of each socket.
IsSocket(s) == s \in Socket /\ (s.state # "open" => s.mail = << >> /\ s.auth = NULL)

-----------------------------------------------------------------------------
(* Facts about the operators of the model                                  *)

LEMMA NULLIsNoTime == NULL \notin Left /\ Left \subseteq Nat /\ Life \in Left /\ 0 \in Left
BY ConstantsAssumption DEF Left

LEMMA LaterType ==
  /\ \A n \in Left : Later(n) \in Left
  /\ Later(NULL) = NULL
BY ConstantsAssumption DEF Left, Later

LEMMA InStateType ==
  ASSUME NEW state \in {"none", "connecting", "open", "closed"}
  PROVE  /\ IsSocket(InState(state))
         /\ InState(state).state = state
         /\ InState(state).mail = << >>
         /\ InState(state).auth = NULL
<1>1. << >> \in Seq(Left)
  OBVIOUS
<1> QED  BY <1>1 DEF InState, IsSocket, Socket

\* Taking the first of several messages leaves the last one.
LEMMA TailKeepsLast ==
  ASSUME NEW q \in Seq(Left), q # << >>
  PROVE  /\ Tail(q) \in Seq(Left) /\ Head(q) \in Left /\ Head(q) = q[1]
         /\ Tail(q) = << >> => Len(q) = 1
         /\ Tail(q) # << >> => Tail(q)[Len(Tail(q))] = q[Len(q)]
<1> DEFINE t == Tail(q)
<1>1. /\ Len(q) \in Nat \ {0} /\ t \in Seq(Left) /\ Len(t) = Len(q) - 1
      /\ Head(q) \in Left /\ Head(q) = q[1]
      /\ \A i \in 1..(Len(q) - 1) : t[i] = q[i + 1]
  OBVIOUS
<1> HIDE DEF t
<1>2. t = << >> => Len(t) = 0
  OBVIOUS
<1>3. t # << >> => Len(t) \in Nat \ {0}
  BY <1>1, EmptySeq
<1>4. t # << >> => t[Len(t)] = q[Len(q)]
  BY <1>1, <1>3
<1> QED  BY <1>1, <1>2, <1>4 DEF t

\* A socket that is told a token has it as its last message.
LEMMA AuthenticatedType ==
  ASSUME NEW s \in Socket, NEW t \in Left
  PROVE  LET a == Authenticated(s, t)
         IN  /\ a \in Socket /\ a.state = s.state
             /\ a.mail # << >> /\ a.mail[Len(a.mail)] = t
<1>1. s.mail \in Seq(Left)
  BY DEF Socket
<1>2. /\ Append(s.mail, t) \in Seq(Left) /\ Append(s.mail, t) # << >>
      /\ Append(s.mail, t)[Len(Append(s.mail, t))] = t
  BY <1>1
<1>3. Authenticated(s, t) = [state |-> s.state, mail |-> Append(s.mail, t), auth |-> s.auth]
  BY DEF Authenticated, Socket
<1> QED  BY <1>2, <1>3 DEF Socket

\* A verified message is the hub's record until the next one arrives.
LEMMA VerifiedType ==
  ASSUME NEW s \in Socket, CanVerify(s)
  PROVE  LET v == Verified(s)
         IN  /\ v \in Socket /\ v.state = "open"
             /\ v.auth = s.mail[1]
             /\ v.mail = << >> => Len(s.mail) = 1
             /\ v.mail # << >> => v.mail[Len(v.mail)] = s.mail[Len(s.mail)]
<1>1. s.mail \in Seq(Left) /\ s.mail # << >> /\ s.state = "open"
  BY DEF Socket, CanVerify
<1>2. /\ Tail(s.mail) \in Seq(Left) /\ Head(s.mail) \in Left /\ Head(s.mail) = s.mail[1]
      /\ Tail(s.mail) = << >> => Len(s.mail) = 1
      /\ Tail(s.mail) # << >> => Tail(s.mail)[Len(Tail(s.mail))] = s.mail[Len(s.mail)]
  BY <1>1, TailKeepsLast
<1> QED  BY <1>2 DEF Verified, Socket

\* Time passes for the messages and the hub's record of a socket alike.
LEMMA AgedType ==
  ASSUME NEW s \in Socket
  PROVE  LET a == Aged(s)
         IN  /\ a \in Socket /\ a.state = s.state
             /\ a.auth = Later(s.auth)
             /\ s.mail = << >> <=> a.mail = << >>
             /\ s.mail # << >> => a.mail[Len(a.mail)] = Later(s.mail[Len(s.mail)])
<1> DEFINE mail == [i \in DOMAIN s.mail |-> Later(s.mail[i])]
<1>1. s.mail \in Seq(Left) /\ Len(s.mail) \in Nat /\ DOMAIN s.mail = 1..Len(s.mail)
  BY DEF Socket
<1>2. mail \in Seq(Left) /\ Len(mail) = Len(s.mail)
  <2>1. \A i \in 1..Len(s.mail) : s.mail[i] \in Left
    BY <1>1
  <2>2. \A i \in 1..Len(s.mail) : Later(s.mail[i]) \in Left
    BY <2>1, LaterType
  <2> QED  BY <1>1, <2>2
<1>3. \A i \in 1..Len(s.mail) : mail[i] = Later(s.mail[i])
  BY <1>1
<1>4. Aged(s) = [state |-> s.state, mail |-> mail, auth |-> Later(s.auth)]
  BY DEF Aged
<1>5. Later(s.auth) \in Left \cup {NULL}
  BY LaterType DEF Socket
<1> HIDE DEF mail
<1>6. s.mail = << >> <=> mail = << >>
  BY <1>1, <1>2
<1>7. s.mail # << >> => mail[Len(mail)] = Later(s.mail[Len(s.mail)])
  BY <1>1, <1>2, <1>3
<1> QED  BY <1>2, <1>4, <1>5, <1>6, <1>7 DEF Socket

-----------------------------------------------------------------------------
(* SessionInv is inductive                                                 *)

\* The parts of TypeOK, so that an action needs to be looked at only for what
\* it changes.
Sockets == IsSocket(current) /\ stale \in [Old -> Socket] /\ \A o \in Old : IsSocket(stale[o])

Tokens ==
  /\ page \in {"live", "leaving", "gone"}
  /\ stopping \in BOOLEAN
  /\ left \in Left /\ real \in Left
  /\ calls \in [Slot -> [purpose : {"none", "api", "connect"}, token : Left \cup {NULL}]]
  /\ timer \in BOOLEAN

LEMMA TypeParts == TypeOK <=> Tokens /\ Sockets
BY DEF TypeOK, Tokens, Sockets, IsSocket

LEMMA TypePartsNext == TypeOK' <=> Tokens' /\ Sockets'
BY DEF TypeOK, Tokens, Sockets, IsSocket

LEMMA InitSession == Init => SessionInv
<1> SUFFICES ASSUME Init PROVE SessionInv
  OBVIOUS
<1>1. Tokens
  BY NULLIsNoTime DEF Init, Tokens, Free
<1>2. Sockets
  BY InStateType DEF Init, Sockets, IsSocket
<1>3. HubHasCurrentToken
  BY InStateType DEF Init, HubHasCurrentToken
<1> QED  BY <1>1, <1>2, <1>3, TypeParts DEF SessionInv

LEMMA TickSession == ASSUME SessionInv, Tick PROVE SessionInv'
<1>1. Tokens /\ Sockets
  BY TypeParts DEF SessionInv
<1>2. Tokens'
  <2>1. \A n \in Left \cup {NULL} : Later(n) \in Left \cup {NULL}
    BY LaterType
  <2> QED  BY <1>1, <2>1, LaterType DEF Tick, Tokens
<1>3. ASSUME NEW s, IsSocket(s)
      PROVE  IsSocket(Aged(s))
  <2>1. s \in Socket /\ Aged(s) \in Socket /\ Aged(s).state = s.state
        /\ Aged(s).auth = Later(s.auth)
        /\ (s.mail = << >> => Aged(s).mail = << >>)
    BY <1>3, AgedType DEF IsSocket
  <2> QED  BY <1>3, <2>1, LaterType DEF IsSocket
<1>4. Sockets'
  <2>1. current' = Aged(current) /\ stale' = [o \in Old |-> Aged(stale[o])]
    BY DEF Tick
  <2>2. \A o \in Old : stale'[o] = Aged(stale[o]) /\ IsSocket(Aged(stale[o]))
    BY <1>1, <1>3, <2>1 DEF Sockets
  <2>3. stale' \in [Old -> Socket]
    BY <2>1, <2>2 DEF IsSocket
  <2> QED  BY <1>1, <1>3, <2>1, <2>2, <2>3 DEF Sockets
<1>5. HubHasCurrentToken'
  <2> SUFFICES ASSUME current'.state = "open"
               PROVE  \/ current'.mail # << >> /\ current'.mail[Len(current'.mail)] = real'
                      \/ current'.mail = << >> /\ current'.auth \in {real', NULL}
    BY DEF HubHasCurrentToken
  <2>1. current \in Socket /\ current' = Aged(current) /\ real' = Later(real)
    BY <1>1 DEF Sockets, IsSocket, Tick
  <2>2. /\ current.state = "open" /\ current'.auth = Later(current.auth)
        /\ current.mail = << >> <=> current'.mail = << >>
        /\ current.mail # << >> =>
             current'.mail[Len(current'.mail)] = Later(current.mail[Len(current.mail)])
    BY <2>1, AgedType
  <2> QED  BY <2>1, <2>2, LaterType DEF SessionInv, HubHasCurrentToken
<1> QED  BY <1>2, <1>4, <1>5, TypePartsNext DEF SessionInv

\* A new generation starts without messages; the socket before it is kept as a
\* former one.
LEMMA NewSocketSession ==
  ASSUME Sockets, NEW replaced, IsSocket(replaced), NewSocket(replaced)
  PROVE  Sockets' /\ HubHasCurrentToken' /\ timer' = FALSE
<1>1. /\ current' = InState("connecting") /\ timer' = FALSE
      /\ \/ stale' = stale
         \/ \E o \in Old : stale' = [stale EXCEPT ![o] = replaced]
  BY DEF NewSocket
<1>2. IsSocket(current') /\ current'.state = "connecting"
  BY <1>1, InStateType
<1>3. stale' \in [Old -> Socket] /\ \A o \in Old : IsSocket(stale'[o])
  BY <1>1 DEF Sockets, IsSocket
<1> QED  BY <1>1, <1>2, <1>3 DEF Sockets, HubHasCurrentToken

\* A call that waits changes neither the tokens nor the sockets.
LEMMA AwaitTokens ==
  ASSUME Tokens, NEW purpose \in {"api", "connect"}, Await(purpose)
  PROVE  calls' \in [Slot -> [purpose : {"none", "api", "connect"}, token : Left \cup {NULL}]]
BY DEF Tokens, Await

LEMMA ConnectSession == ASSUME SessionInv, ConnectRealtime PROVE SessionInv'
<1>1. Tokens /\ Sockets
  BY TypeParts DEF SessionInv
<1>2. CASE left > Margin /\ NewSocket(current) /\ UNCHANGED calls
  <2>1. Sockets' /\ HubHasCurrentToken' /\ timer' = FALSE
    BY <1>1, <1>2, NewSocketSession DEF Sockets
  <2>2. Tokens'
    BY <1>1, <1>2, <2>1 DEF ConnectRealtime, Tokens
  <2> QED  BY <2>1, <2>2, TypePartsNext DEF SessionInv
<1>3. CASE Await("connect") /\ timer' = FALSE /\ UNCHANGED <<current, stale>>
  <2>1. Tokens'
    BY <1>1, <1>3, AwaitTokens DEF ConnectRealtime, Tokens
  <2>2. Sockets' /\ HubHasCurrentToken'
    BY <1>1, <1>3 DEF ConnectRealtime, Sockets, SessionInv, HubHasCurrentToken
  <2> QED  BY <2>1, <2>2, TypePartsNext DEF SessionInv
<1> QED  BY <1>2, <1>3 DEF ConnectRealtime

\* An action that changes neither a socket nor the tab's token.
LEMMA SocketsUnchanged ==
  ASSUME SessionInv, Tokens', UNCHANGED <<real, current, stale>>
  PROVE  SessionInv'
<1>1. Sockets /\ HubHasCurrentToken
  BY TypeParts DEF SessionInv
<1>2. Sockets' /\ HubHasCurrentToken'
  BY <1>1 DEF Sockets, HubHasCurrentToken
<1> QED  BY <1>2, TypePartsNext DEF SessionInv

LEMMA WaitingSession ==
  ASSUME SessionInv,
         \/ OnlineBeforeTimer
         \/ CallApi
         \/ \E c \in Slot : TokenIssued(c) \/ RefreshFails(c)
  PROVE  SessionInv'
<1>1. Tokens
  BY TypeParts DEF SessionInv
<1>2. CASE OnlineBeforeTimer
  <2>1. Tokens'
    BY <1>1, <1>2, AwaitTokens DEF OnlineBeforeTimer, Tokens
  <2> QED  BY <1>2, <2>1, SocketsUnchanged DEF OnlineBeforeTimer
<1>3. CASE CallApi
  <2>1. Tokens'
    BY <1>1, <1>3, AwaitTokens DEF CallApi, Tokens
  <2> QED  BY <1>3, <2>1, SocketsUnchanged DEF CallApi
<1>4. ASSUME NEW c \in Slot, TokenIssued(c)
      PROVE  SessionInv'
  <2>1. Tokens'
    BY <1>1, <1>4, NULLIsNoTime DEF TokenIssued, Tokens
  <2> QED  BY <1>4, <2>1, SocketsUnchanged DEF TokenIssued
<1>5. ASSUME NEW c \in Slot, RefreshFails(c)
      PROVE  SessionInv'
  <2>1. Tokens'
    BY <1>1, <1>5 DEF RefreshFails, Tokens, Free
  <2> QED  BY <1>5, <2>1, SocketsUnchanged DEF RefreshFails
<1> QED  BY <1>2, <1>3, <1>4, <1>5

\* An action that puts another socket of the right kind in the place of the
\* tab's, or of a former one, and keeps the tokens.
LEMMA SocketReplaced ==
  ASSUME SessionInv, Tokens', HubHasCurrentToken',
         IsSocket(current'),
         \/ stale' = stale
         \/ \E o \in Old : \E s : IsSocket(s) /\ stale' = [stale EXCEPT ![o] = s]
         \/ stale' = [o \in Old |-> InState("closed")]
  PROVE  SessionInv'
<1>1. Sockets
  BY TypeParts DEF SessionInv
<1>2. IsSocket(InState("closed"))
  BY InStateType
<1>3. stale' \in [Old -> Socket] /\ \A o \in Old : IsSocket(stale'[o])
  BY <1>1, <1>2 DEF Sockets, IsSocket
<1>4. Sockets'
  BY <1>3 DEF Sockets
<1> QED  BY <1>4, TypePartsNext DEF SessionInv

LEMMA ClosesSession ==
  ASSUME SessionInv, CurrentCloses \/ \E o \in Old : StaleCloses(o)
  PROVE  SessionInv'
<1>1. Tokens /\ Sockets /\ HubHasCurrentToken
  BY TypeParts DEF SessionInv
<1>2. IsSocket(InState("closed")) /\ InState("closed").state = "closed"
  BY InStateType
<1>3. CASE CurrentCloses
  <2>1. Tokens'
    BY <1>1, <1>3 DEF CurrentCloses, Tokens
  <2>2. HubHasCurrentToken' /\ IsSocket(current') /\ stale' = stale
    BY <1>2, <1>3 DEF CurrentCloses, HubHasCurrentToken
  <2> QED  BY <2>1, <2>2, SocketReplaced
<1>4. ASSUME NEW o \in Old, StaleCloses(o)
      PROVE  SessionInv'
  <2>1. Tokens' /\ HubHasCurrentToken' /\ IsSocket(current')
    BY <1>1, <1>4 DEF StaleCloses, Tokens, HubHasCurrentToken, Sockets
  <2>2. stale' = [stale EXCEPT ![o] = InState("closed")]
    BY <1>4 DEF StaleCloses
  <2> QED  BY <1>2, <2>1, <2>2, SocketReplaced
<1> QED  BY <1>3, <1>4

LEMMA SocketOpensSession == ASSUME SessionInv, SocketOpens PROVE SessionInv'
<1>1. Tokens /\ Sockets
  BY TypeParts DEF SessionInv
<1>2. InState("open") \in Socket /\ InState("open").state = "open" /\ real \in Left
  BY <1>1, InStateType DEF IsSocket, Tokens
<1>3. /\ current' \in Socket /\ current'.state = "open"
      /\ current'.mail # << >> /\ current'.mail[Len(current'.mail)] = real
  BY <1>2, AuthenticatedType DEF SocketOpens
<1>4. Tokens' /\ stale' = stale /\ real' = real
  BY <1>1 DEF SocketOpens, Tokens
<1>5. IsSocket(current') /\ HubHasCurrentToken'
  BY <1>3, <1>4 DEF IsSocket, HubHasCurrentToken
<1> QED  BY <1>4, <1>5, SocketReplaced

LEMMA HubVerifiesSession == ASSUME SessionInv, HubVerifies PROVE SessionInv'
<1>1. Tokens /\ Sockets /\ HubHasCurrentToken
  BY TypeParts DEF SessionInv
<1>2. Tokens' /\ real' = real
  BY <1>1 DEF HubVerifies, Tokens
<1>3. CASE CanVerify(current) /\ current' = Verified(current) /\ UNCHANGED stale
  <2>1. current \in Socket
    BY <1>1 DEF Sockets, IsSocket
  <2>2. /\ current' \in Socket /\ current'.state = "open"
        /\ current'.auth = current.mail[1]
        /\ current'.mail = << >> => Len(current.mail) = 1
        /\ current'.mail # << >> =>
             current'.mail[Len(current'.mail)] = current.mail[Len(current.mail)]
    BY <2>1, <1>3, VerifiedType
  <2>3. current.state = "open" /\ current.mail # << >>
    BY <1>3 DEF CanVerify
  <2>4. current.mail[Len(current.mail)] = real
    BY <1>1, <2>3 DEF HubHasCurrentToken
  <2>5. IsSocket(current') /\ HubHasCurrentToken'
    BY <2>2, <2>4, <1>2 DEF IsSocket, HubHasCurrentToken
  <2> QED  BY <1>2, <1>3, <2>5, SocketReplaced
<1>4. ASSUME NEW o \in Old, CanVerify(stale[o]),
             stale' = [stale EXCEPT ![o] = Verified(@)], UNCHANGED current
      PROVE  SessionInv'
  <2>1. stale[o] \in Socket /\ stale \in [Old -> Socket]
    BY <1>1 DEF Sockets
  <2>2. IsSocket(Verified(stale[o]))
    BY <2>1, <1>4, VerifiedType DEF IsSocket
  <2>3. stale' = [stale EXCEPT ![o] = Verified(stale[o])]
    BY <1>4, <2>1
  <2>4. HubHasCurrentToken' /\ IsSocket(current')
    BY <1>1, <1>2, <1>4 DEF HubHasCurrentToken, Sockets
  <2> QED  BY <1>2, <2>2, <2>3, <2>4, SocketReplaced
<1> QED  BY <1>3, <1>4 DEF HubVerifies

\* Whatever the call was for, an open socket is told the new token before
\* anything else happens to it.
LEMMA TokenArrivesSession ==
  ASSUME SessionInv, NEW c \in Slot, TokenArrives(c)
  PROVE  SessionInv'
<1>1. Tokens /\ Sockets /\ HubHasCurrentToken
  BY TypeParts DEF SessionInv
<1> DEFINE token == calls[c].token
           told == IF current.state = "open" THEN Authenticated(current, token) ELSE current
<1>2. token \in Left /\ current \in Socket /\ IsSocket(current)
  BY <1>1 DEF Tokens, Sockets, IsSocket, TokenArrives
<1>3. /\ IsSocket(told)
      /\ told.state = "open" => told.mail # << >> /\ told.mail[Len(told.mail)] = token
  <2>1. CASE current.state = "open"
    <3> HIDE DEF token
    <3>1. /\ told \in Socket /\ told.state = "open"
          /\ told.mail # << >> /\ told.mail[Len(told.mail)] = token
      BY <2>1, <1>2, AuthenticatedType
    <3> QED  BY <3>1 DEF IsSocket
  <2>2. CASE current.state # "open"
    BY <2>2, <1>2
  <2> QED  BY <2>1, <2>2
<1>4. /\ left' = Life /\ real' = token
      /\ \/ current' = told /\ UNCHANGED <<timer, stale>>
         \/ NewSocket(told)
  BY DEF TokenArrives, applyTokens
<1>5. calls' \in [Slot -> [purpose : {"none", "api", "connect"}, token : Left \cup {NULL}]]
  BY <1>1 DEF TokenArrives, Tokens, Free
<1> HIDE DEF token, told
<1>6. CASE current' = told /\ UNCHANGED <<timer, stale>>
  <2>1. Tokens'
    BY <1>1, <1>2, <1>4, <1>5, <1>6, NULLIsNoTime DEF TokenArrives, Tokens
  <2>2. HubHasCurrentToken' /\ IsSocket(current')
    BY <1>3, <1>4, <1>6 DEF HubHasCurrentToken
  <2> QED  BY <2>1, <2>2, <1>6, SocketReplaced
<1>7. CASE NewSocket(told)
  <2>1. Sockets' /\ HubHasCurrentToken' /\ timer' = FALSE
    BY <1>1, <1>3, <1>7, NewSocketSession
  <2>2. Tokens'
    BY <1>1, <1>2, <1>4, <1>5, <2>1, NULLIsNoTime DEF TokenArrives, Tokens
  <2> QED  BY <2>1, <2>2, TypePartsNext DEF SessionInv
<1> QED  BY <1>4, <1>6, <1>7

LEMMA LeavesSession == ASSUME SessionInv, logout \/ Unload PROVE SessionInv'
<1>1. Tokens /\ Sockets /\ HubHasCurrentToken
  BY TypeParts DEF SessionInv
<1>2. IsSocket(InState("closed")) /\ InState("closed").state = "closed"
  BY InStateType
<1>3. CASE logout
  <2>1. Tokens' /\ stale' = stale
    BY <1>1, <1>3 DEF logout, Tokens
  <2>2. IsSocket(current') /\ current'.state # "open"
    BY <1>1, <1>2, <1>3 DEF logout, Sockets
  <2> QED  BY <2>1, <2>2, SocketReplaced DEF HubHasCurrentToken
<1>4. CASE Unload
  <2>1. Tokens'
    BY <1>1, <1>4 DEF Unload, Tokens, Free
  <2>2. /\ IsSocket(current') /\ current'.state # "open"
        /\ stale' = [o \in Old |-> InState("closed")]
    BY <1>2, <1>4 DEF Unload
  <2> QED  BY <2>1, <2>2, SocketReplaced DEF HubHasCurrentToken
<1> QED  BY <1>3, <1>4

LEMMA NextSession == SessionInv /\ [Next]_vars => SessionInv'
<1> SUFFICES ASSUME SessionInv, [Next]_vars PROVE SessionInv'
  OBVIOUS
<1>1. ASSUME UNCHANGED vars PROVE SessionInv'
  <2>1. Tokens'
    BY <1>1, TypeParts DEF vars, SessionInv, Tokens
  <2> QED  BY <1>1, <2>1, SocketsUnchanged DEF vars
<1>2. ASSUME Online \/ TimerFires PROVE SessionInv'
  BY <1>2, ConnectSession DEF Online, TimerFires
<1>3. ASSUME ConnectionLost \/ HubCloses \/ \E o \in Old : StaleOpens(o) PROVE SessionInv'
  BY <1>3, ClosesSession DEF ConnectionLost, HubCloses, StaleOpens
<1> QED  BY <1>1, <1>2, <1>3, TickSession, WaitingSession, SocketOpensSession,
            HubVerifiesSession, TokenArrivesSession, LeavesSession DEF Next

\* Whichever of several waiting calls gets its token first, and whether the
\* socket opens before, between or after them: the hub has, or is being sent as
\* its last authenticate message, the token the tab has.
THEOREM SessionInvariant == Spec => []SessionInv
BY InitSession, NextSession, PTL DEF Spec
=============================================================================
