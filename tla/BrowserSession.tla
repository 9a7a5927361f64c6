-------------------------- MODULE BrowserSession ---------------------------
(***************************************************************************)
(* The tokens and sockets of a browser tab (internal/app/web/app.js), with *)
(* the realtime service's side of them (internal/realtime/hub.go).         *)
(* connectRealtime and api both await a token refresh first: several of    *)
(* these calls can wait at once, each with a request of its own, so that a *)
(* tab may get several sockets.  Callbacks of another than the last one    *)
(* know that by its generation; here such sockets are in stale.            *)
(*                                                                         *)
(* Durations are kept relative to now, and Tick passes one unit.           *)
(***************************************************************************)
EXTENDS Integers, Sequences

CONSTANTS
  Life,      \* expires_in of an access token
  Margin,    \* refreshTokenIfNeeded asks for a token this long ahead (30 s)
  MaxCalls,  \* bound: calls that await a token at once
  MaxStale,  \* bound: sockets of former generations that are not closed
  MaxMail,   \* bound: authenticate messages on one socket
  NULL

ASSUME ConstantsAssumption ==
  /\ Life \in Nat \ {0}
  /\ Margin \in 0..(Life - 1)
  /\ {MaxCalls, MaxStale, MaxMail} \subseteq Nat \ {0}
  /\ NULL \notin Nat

Slot == 1..MaxCalls
Old  == 1..MaxStale
Left == 0..Life

VARIABLES
  page,      \* live; leaving for the login or logout page; gone
  stopping,  \* state.realtime.stopping
  left,      \* state.auth.expiresAt, as time from now
  real,      \* time until state.auth.accessToken expires
  calls,     \* calls that await a token: what for, and the answer or NULL
  timer,     \* state.realtime.timer is set
  current,   \* state.realtime.socket
  stale      \* sockets of former generations

vars == <<page, stopping, left, real, calls, timer, current, stale>>

\* mail: authenticate messages on their way, as the time their token has left;
\* auth: c.expiresAt of the hub's client, or NULL before it is authenticated.
Socket == [state : {"none", "connecting", "open", "closed"},
           mail : Seq(Left), auth : Left \cup {NULL}]

InState(state) == [state |-> state, mail |-> << >>, auth |-> NULL]
Free == [purpose |-> "none", token |-> NULL]

\* Tokens, calls and sockets have their types; only an open socket has
\* messages on it or a client at the hub.
TypeOK ==
  /\ page \in {"live", "leaving", "gone"}
  /\ stopping \in BOOLEAN
  /\ left \in Left /\ real \in Left
  /\ calls \in [Slot -> [purpose : {"none", "api", "connect"}, token : Left \cup {NULL}]]
  /\ timer \in BOOLEAN
  /\ current \in Socket
  /\ stale \in [Old -> Socket]
  /\ \A s \in {current} \cup {stale[o] : o \in Old} :
       s.state # "open" => s.mail = << >> /\ s.auth = NULL

\* Signed in, the first load of the board under way.
Init ==
  /\ page = "live"
  /\ stopping = FALSE
  /\ left = Life
  /\ real = Life
  /\ calls = [c \in Slot |-> Free]
  /\ timer = FALSE
  /\ current = InState("none")
  /\ stale = [o \in Old |-> InState("closed")]

Later(n) == IF n = NULL \/ n = 0 THEN n ELSE n - 1

Aged(s) == [state |-> s.state,
            mail |-> [i \in DOMAIN s.mail |-> Later(s.mail[i])],
            auth |-> Later(s.auth)]

Tick ==
  /\ left' = Later(left)
  /\ real' = Later(real)
  /\ calls' = [c \in Slot |-> [calls[c] EXCEPT !.token = Later(@)]]
  /\ current' = Aged(current)
  /\ stale' = [o \in Old |-> Aged(stale[o])]
  /\ UNCHANGED <<page, stopping, timer>>

\* A token is on its way when its time ends: to the tab, to the hub, or to the
\* end of the handshake after which it is sent.
TokenOutrun ==
  /\ \/ \E c \in Slot : calls[c].token = 1
     \/ current.state = "connecting" /\ real = 1
     \/ \E i \in DOMAIN current.mail : current.mail[i] = 1
  /\ Tick

-----------------------------------------------------------------------------
(* Sockets                                                                 *)

\* authenticateRealtime, with the token t, when the socket is open.
Authenticated(s, t) == [s EXCEPT !.mail = Append(@, t)]

\* connectRealtime after its await: a new generation takes over, and the socket
\* before it is stale.
NewSocket(replaced) ==
  /\ timer' = FALSE
  /\ current' = InState("connecting")
  /\ IF replaced.state \in {"none", "closed"} THEN UNCHANGED stale
     ELSE \E o \in Old : /\ stale[o].state = "closed"
                         /\ stale' = [stale EXCEPT ![o] = replaced]

\* A call of refreshTokenIfNeeded that has to wait.
Await(purpose) ==
  \E c \in Slot : /\ calls[c] = Free
                  /\ \A d \in 1..(c - 1) : calls[d] # Free
                  /\ calls' = [calls EXCEPT ![c].purpose = purpose]

\* connectRealtime, called by start, the timer or the online event.
ConnectRealtime ==
  /\ page # "gone"
  /\ ~stopping
  /\ \/ /\ left > Margin
        /\ NewSocket(current)
        /\ UNCHANGED calls
     \/ /\ left <= Margin
        /\ Await("connect")
        /\ timer' = FALSE
        /\ UNCHANGED <<current, stale>>
  /\ UNCHANGED <<page, stopping, left, real>>

\* The first connection of start, or the browser is online again.
Online ==
  /\ current.state \in {"none", "closed"}
  /\ ~timer
  /\ ConnectRealtime

\* The browser is online again while the timer is set and stays set: the call
\* waits, and clears the timer only afterwards.
OnlineBeforeTimer ==
  /\ page # "gone"
  /\ ~stopping
  /\ current.state = "closed"
  /\ timer
  /\ left <= Margin
  /\ Await("connect")
  /\ UNCHANGED <<page, stopping, left, real, timer, current, stale>>

\* Mutant: the timer calls only when the token is still good.
TimerWithToken == timer /\ left > Margin /\ ConnectRealtime

TimerFires == timer /\ ConnectRealtime

\* The open event; a socket of a former generation is closed at once.
SocketOpens ==
  /\ current.state = "connecting"
  /\ current' = Authenticated(InState("open"), real)
  /\ UNCHANGED <<page, stopping, left, real, calls, timer, stale>>

\* The close event of the current socket sets the timer.
CurrentCloses ==
  /\ current' = InState("closed")
  /\ timer' = (timer \/ ~stopping)
  /\ UNCHANGED <<page, stopping, left, real, calls, stale>>

StaleCloses(o) ==
  /\ stale' = [stale EXCEPT ![o] = InState("closed")]
  /\ UNCHANGED <<page, stopping, left, real, calls, timer, current>>

StaleOpens(o) ==
  /\ stale[o].state = "connecting"
  /\ StaleCloses(o)

\* Mutant: the ping does not look at the expiry.
NeverExpired(s) == s.state = "open" /\ s.mail = << >> /\ s.auth = NULL

\* What makes the hub close a connection: no authenticate message in time, one
\* with an expired token, or a ping that finds the token expired.
HubGivesUp(s) ==
  /\ s.state = "open"
  /\ \/ s.mail = << >> /\ s.auth = NULL
     \/ s.mail # << >> /\ Head(s.mail) = 0
     \/ s.auth = 0

\* The hub verifies a token and keeps its expiry.
Verified(s) == [state |-> "open", mail |-> Tail(s.mail), auth |-> Head(s.mail)]

HubCloses ==
  \/ HubGivesUp(current) /\ CurrentCloses
  \/ \E o \in Old : HubGivesUp(stale[o]) /\ StaleCloses(o)

\* The network, or the hub on shutdown or for a slow client, ends a connection
\* that the hub would keep.  What it does to one that the hub gives up, or to a
\* stale socket before it opens, is the step of HubCloses or of StaleOpens.
ConnectionLost ==
  \/ current.state = "connecting" /\ CurrentCloses
  \/ current.state = "open" /\ ~HubGivesUp(current) /\ CurrentCloses
  \/ \E o \in Old : stale[o].state = "open" /\ ~HubGivesUp(stale[o]) /\ StaleCloses(o)

CanVerify(s) == s.state = "open" /\ s.mail # << >> /\ Head(s.mail) > 0

HubVerifies ==
  /\ \/ /\ CanVerify(current)
        /\ current' = Verified(current)
        /\ UNCHANGED stale
     \/ \E o \in Old : /\ CanVerify(stale[o])
                       /\ stale' = [stale EXCEPT ![o] = Verified(@)]
                       /\ UNCHANGED current
  /\ UNCHANGED <<page, stopping, left, real, calls, timer>>

-----------------------------------------------------------------------------
(* Tokens                                                                  *)

\* api() with a token that is about to expire; with a better one it does not
\* wait.
CallApi ==
  /\ page # "gone"
  /\ left <= Margin
  /\ Await("api")
  /\ UNCHANGED <<page, stopping, left, real, timer, current, stale>>

TokenIssued(c) ==
  /\ calls[c].purpose # "none"
  /\ calls[c].token = NULL
  /\ calls' = [calls EXCEPT ![c].token = Life]
  /\ UNCHANGED <<page, stopping, left, real, timer, current, stale>>

\* Mutant: the socket is not told of the new token.
applyTokensOnly(token) ==
  /\ left' = Life
  /\ real' = token
  /\ current' = current

\* applyTokens ends with authenticateRealtime.
applyTokens(token) ==
  /\ left' = Life
  /\ real' = token
  /\ current' = IF current.state = "open" THEN Authenticated(current, token) ELSE current

\* The answer arrives; a connectRealtime that waited for it goes on.
TokenArrives(c) ==
  /\ page # "gone"
  /\ calls[c].token # NULL
  /\ Len(current.mail) < MaxMail
  /\ calls' = [calls EXCEPT ![c] = Free]
  /\ UNCHANGED <<page, stopping>>
  /\ \/ /\ calls[c].purpose = "api"
        /\ applyTokens(calls[c].token)
        /\ UNCHANGED <<timer, stale>>
     \/ /\ calls[c].purpose = "connect"
        /\ left' = Life
        /\ real' = calls[c].token
        /\ NewSocket(IF current.state = "open"
                     THEN Authenticated(current, calls[c].token) ELSE current)

\* The refresh fails, for whatever reason: beginLogin navigates away.
RefreshFails(c) ==
  /\ page # "gone"
  /\ calls[c].purpose # "none"
  /\ calls' = [calls EXCEPT ![c] = Free]
  /\ page' = "leaving"
  /\ UNCHANGED <<stopping, left, real, timer, current, stale>>

logout ==
  /\ page = "live"
  /\ page' = "leaving"
  /\ stopping' = TRUE
  /\ timer' = FALSE
  /\ current' = IF current.state = "none" THEN current ELSE InState("closed")
  /\ UNCHANGED <<left, real, calls, stale>>

\* The next page replaces this one, whose sockets close with it.
Unload ==
  /\ page = "leaving"
  /\ page' = "gone"
  /\ timer' = FALSE
  /\ calls' = [c \in Slot |-> Free]
  /\ current' = InState("closed")
  /\ stale' = [o \in Old |-> InState("closed")]
  /\ UNCHANGED <<stopping, left, real>>

Next ==
  \/ Tick
  \/ Online
  \/ OnlineBeforeTimer
  \/ TimerFires
  \/ SocketOpens
  \/ \E o \in Old : StaleOpens(o)
  \/ ConnectionLost
  \/ HubCloses
  \/ HubVerifies
  \/ CallApi
  \/ \E c \in Slot : TokenIssued(c) \/ TokenArrives(c) \/ RefreshFails(c)
  \/ logout
  \/ Unload

Spec == Init /\ [][Next]_vars

\* Scheduling: time passes, timers fire and callbacks run; the hub reads, pings
\* and gives up on connections; the identity provider answers or the request
\* fails.  Strong fairness makes up for the bounds and for tokens that another
\* call renews; the timer, which waits less than 40 seconds, does not fire only
\* in the moments when a token that came late has expired already and the tab
\* does not know.  The network stops breaking connections that the hub would
\* keep, and tokens stop expiring on their way; the hub's own closing, with every
\* token that expires in an idle tab or came late, goes on for ever.
Fairness ==
  /\ WF_vars(Tick)
  /\ SF_vars(TimerFires /\ (real > 0 \/ left <= Margin))
  /\ WF_vars(SocketOpens)
  /\ \A o \in Old : WF_vars(StaleOpens(o))
  /\ \A o \in Old : WF_vars(HubGivesUp(stale[o]) /\ StaleCloses(o))
  /\ WF_vars(HubCloses) /\ SF_vars(HubVerifies)
  /\ \A c \in Slot : WF_vars(TokenIssued(c)) /\ SF_vars(TokenArrives(c) \/ RefreshFails(c))
  /\ <>[][~ConnectionLost]_vars
  /\ <>[][~TokenOutrun]_vars

FairSpec == Spec /\ Fairness

-----------------------------------------------------------------------------
(* Properties                                                              *)

\* The last authenticate message on an open socket, or the hub's record when
\* none is on its way, is the tab's token: a refresh by whatever call, before,
\* while or after the socket opens, keeps the connection as long as the token.
HubHasCurrentToken ==
  current.state = "open" =>
    \/ current.mail # << >> /\ current.mail[Len(current.mail)] = real
    \/ current.mail = << >> /\ current.auth \in {real, NULL}

\* What holds of every state of the tab: its fields have their types, and the
\* hub of its open socket gets the token it has.
SessionInv == TypeOK /\ HubHasCurrentToken

\* Two calls that waited for a token give the tab two sockets.  The one that is
\* replaced gets no further token, and so its connection ends.
StaleSocketsEnd ==
  \A o \in Old : (stale[o].state = "open") ~> (stale[o].state = "closed")

\* A tab without a connection gets an authenticated one, or is on its way to
\* another page: also when the hub has closed it because its token expired, when
\* the tab first tries a token that has expired without its knowing, and when
\* this happens again and again.
ReconnectsOrLeaves ==
  (current.state = "closed" /\ page = "live")
    ~> (page # "live" \/ (current.state = "open" /\ current.auth # NULL))
=============================================================================
