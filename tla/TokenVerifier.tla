--------------------------- MODULE TokenVerifier ---------------------------
(***************************************************************************)
(* The verifier of access tokens (internal/auth/verifier.go) that the API  *)
(* and the realtime service share among their requests.  It checks tokens  *)
(* against a cache of the issuer's signing keys; a request that misses the *)
(* cache, or finds it old, fetches the key set and replaces the cache.     *)
(* Fetches of concurrent requests overlap, and nothing orders their        *)
(* answers.                                                                *)
(*                                                                         *)
(* Time passes in Tick and is kept relative to now.  Only fetches take     *)
(* time, at most Timeout each: the client's timeout covers the answer and  *)
(* its body, and what follows is a few instructions.                       *)
(***************************************************************************)
EXTENDS Integers, Sequences

CONSTANTS
  Request,      \* concurrent calls of Verify
  Kid,          \* key identifiers; a kid names one key for ever
  Unusable,     \* keys of the issuer that are no RSA signing keys
  FirstKeys,    \* the key set published first
  Audience,     \* config.Audience
  Token,        \* tokens that may be presented
  Window,       \* how long the cache is fresh (5 minutes)
  Timeout,      \* how long a fetch may take (5 seconds)
  MaxRevision,  \* bound: key sets the issuer publishes
  NULL

Grace == Window + Timeout

\* What Verify reads of a token.  signed: the signature is that of key kid;
\* named: issuer and subject are as configured; left, wait: time until the
\* expiry and the start of validity.
AccessToken == [kid : Kid, signed : BOOLEAN, named : BOOLEAN,
                aud : SUBSET {Audience, NULL}, left : Nat, wait : Nat]

ASSUME ConstantsAssumption ==
  /\ Unusable \subseteq Kid
  /\ FirstKeys \subseteq Kid
  /\ Token \subseteq AccessToken
  /\ Window \in Nat \ {0}
  /\ Timeout \in Nat \ {0}
  /\ MaxRevision \in Nat \ {0}
  /\ NULL # Audience
  /\ NULL \notin Kid \cup AccessToken
  /\ {"none", "error"} \cap Kid = {}

VARIABLES
  jwks,     \* the key sets the issuer has published so far, the last one now
  gone,     \* how long each key has not been published, up to Grace
  cached,   \* the key set in v.keys, an index of jwks, or 0 for none
  age,      \* time since v.fetched, up to Window
  pc,       \* each request: idle, fetching, answered, stored
  token,    \* the token it verifies, or NULL
  waited,   \* how long its fetch has taken
  answer,   \* the key set it was answered with, an index of jwks, or 0
  overtaken, \* history: requests whose stored answer an older one replaced
  reply     \* its last result: the kid of the accepted token, or error

issuerVars  == <<jwks, gone>>
cacheVars   == <<cached, age>>
requestVars == <<pc, token, waited, answer, overtaken, reply>>
vars        == <<issuerVars, cacheVars, requestVars>>

published == jwks[Len(jwks)]

\* refresh keeps the RSA keys for signatures.
SigningKeys(document) == document \ Unusable

keys == IF cached = 0 THEN {} ELSE SigningKeys(jwks[cached])

\* Cache and requests refer to key sets that were published, and a request has
\* a token exactly while it is under way.
TypeOK ==
  /\ jwks \in Seq(SUBSET Kid) /\ Len(jwks) \in 1..MaxRevision
  /\ gone \in [Kid -> 0..Grace]
  /\ cached \in 0..Len(jwks)
  /\ age \in 0..Window
  /\ pc \in [Request -> {"idle", "fetching", "answered", "stored"}]
  /\ token \in [Request -> AccessToken \cup {NULL}]
  /\ \A r \in Request : pc[r] = "idle" <=> token[r] = NULL
  /\ waited \in [Request -> 0..Timeout]
  /\ answer \in [Request -> 0..Len(jwks)]
  /\ \A r \in Request : pc[r] \in {"answered", "stored"} => answer[r] > 0
  /\ overtaken \in SUBSET Request
  /\ reply \in [Request -> Kid \cup {"none", "error"}]

\* NewVerifier: no keys, fetched long ago.
Init ==
  /\ jwks = <<FirstKeys>>
  /\ gone = [k \in Kid |-> IF k \in FirstKeys THEN 0 ELSE Grace]
  /\ cached = 0
  /\ age = Window
  /\ pc = [r \in Request |-> "idle"]
  /\ token = [r \in Request |-> NULL]
  /\ waited = [r \in Request |-> 0]
  /\ answer = [r \in Request |-> 0]
  /\ overtaken = {}
  /\ reply = [r \in Request |-> "none"]

-----------------------------------------------------------------------------
(* The issuer and time                                                     *)

\* The issuer publishes a key or withdraws one.
Rotate(k) ==
  /\ Len(jwks) < MaxRevision
  /\ jwks' = Append(jwks, IF k \in published THEN published \ {k}
                          ELSE published \cup {k})
  /\ gone' = [gone EXCEPT ![k] = 0]
  /\ UNCHANGED <<cacheVars, requestVars>>

Capped(n, bound) == IF n < bound THEN n + 1 ELSE n

\* One unit of time.  A fetch does not outlast its timeout.
Tick ==
  /\ \A r \in Request : /\ pc[r] # "stored"
                        /\ pc[r] # "idle" => waited[r] < Timeout
  /\ gone' = [k \in Kid |-> IF k \in published THEN 0 ELSE Capped(gone[k], Grace)]
  /\ age' = Capped(age, Window)
  /\ waited' = [r \in Request |-> IF pc[r] = "idle" THEN 0 ELSE waited[r] + 1]
  /\ token' = [r \in Request |->
                 IF pc[r] = "idle" THEN NULL
                 ELSE [token[r] EXCEPT !.left = IF @ > 0 THEN @ - 1 ELSE 0,
                                       !.wait = IF @ > 0 THEN @ - 1 ELSE 0]]
  /\ UNCHANGED <<jwks, cached, pc, answer, overtaken, reply>>

-----------------------------------------------------------------------------
(* Verify                                                                  *)

hasAudience(t) == Audience \in t.aud

\* The signature and the claims, at the time they are checked.
Valid(t) ==
  /\ t.signed
  /\ t.named
  /\ t.left > 0
  /\ t.wait = 0
  /\ hasAudience(t)

Result(t) == IF Valid(t) THEN t.kid ELSE "error"

\* No bearer token, or one whose segments, algorithm or kid are not right.
Malformed(r) ==
  /\ pc[r] = "idle"
  /\ reply' = [reply EXCEPT ![r] = "error"]
  /\ UNCHANGED <<issuerVars, cacheVars, pc, token, waited, answer, overtaken>>

\* Mutant: a key that is known is taken however old the cache is.
HitWhenKnown(t) == t.kid \in keys

Hit(t) == t.kid \in keys /\ age < Window

\* key finds the key in the cache; the rest of Verify reads no shared state.
VerifyCached(r, t) ==
  /\ pc[r] = "idle"
  /\ Hit(t)
  /\ reply' = [reply EXCEPT ![r] = Result(t)]
  /\ UNCHANGED <<issuerVars, cacheVars, pc, token, waited, answer, overtaken>>

\* key misses and refresh sends its request.
StartRefresh(r, t) ==
  /\ pc[r] = "idle"
  /\ ~Hit(t)
  /\ pc' = [pc EXCEPT ![r] = "fetching"]
  /\ token' = [token EXCEPT ![r] = t]
  /\ UNCHANGED <<issuerVars, cacheVars, waited, answer, overtaken, reply>>

\* The issuer answers with the key set it publishes now.
ServeJWKS(r) ==
  /\ pc[r] = "fetching"
  /\ pc' = [pc EXCEPT ![r] = "answered"]
  /\ answer' = [answer EXCEPT ![r] = Len(jwks)]
  /\ UNCHANGED <<issuerVars, cacheVars, token, waited, overtaken, reply>>

\* Verify returns.
Finish(r, result) ==
  /\ pc' = [pc EXCEPT ![r] = "idle"]
  /\ token' = [token EXCEPT ![r] = NULL]
  /\ waited' = [waited EXCEPT ![r] = 0]
  /\ answer' = [answer EXCEPT ![r] = 0]
  /\ overtaken' = overtaken \ {r}
  /\ reply' = [reply EXCEPT ![r] = result]

\* refresh returns an error: the request fails or times out, or the answer has
\* another status, cannot be decoded or has no signing key.
RefreshFails(r) ==
  /\ pc[r] \in {"fetching", "answered"}
  /\ Finish(r, "error")
  /\ UNCHANGED <<issuerVars, cacheVars>>

\* Mutant: a cache that has been filled is kept.
StoreOnce(r) ==
  /\ pc[r] = "answered"
  /\ SigningKeys(jwks[answer[r]]) # {}
  /\ pc' = [pc EXCEPT ![r] = "stored"]
  /\ cached' = IF cached = 0 THEN answer[r] ELSE cached
  /\ age' = 0
  /\ overtaken' = overtaken \cup {q \in Request : /\ pc[q] = "stored"
                                                 /\ answer[r] < answer[q]}
  /\ UNCHANGED <<issuerVars, token, waited, answer, reply>>

\* refresh replaces the cache.
Store(r) ==
  /\ pc[r] = "answered"
  /\ SigningKeys(jwks[answer[r]]) # {}
  /\ pc' = [pc EXCEPT ![r] = "stored"]
  /\ cached' = answer[r]
  /\ age' = 0
  /\ overtaken' = overtaken \cup {q \in Request : /\ pc[q] = "stored"
                                                 /\ answer[r] < answer[q]}
  /\ UNCHANGED <<issuerVars, token, waited, answer, reply>>

\* key reads the cache again, whoever has filled it by now.
Conclude(r) ==
  /\ pc[r] = "stored"
  /\ Finish(r, IF token[r].kid \in keys THEN Result(token[r]) ELSE "error")
  /\ UNCHANGED <<issuerVars, cacheVars>>

Next ==
  \/ \E k \in Kid : Rotate(k)
  \/ Tick
  \/ \E r \in Request :
       \/ Malformed(r)
       \/ \E t \in Token : VerifyCached(r, t) \/ StartRefresh(r, t)
       \/ ServeJWKS(r)
       \/ RefreshFails(r)
       \/ Store(r)
       \/ Conclude(r)

Spec == Init /\ [][Next]_vars

\* Scheduling: requests run to their end and time passes.  Clients come back
\* with a valid token of each key they hold, and the issuer's endpoint does not
\* fail each time.
Fairness ==
  /\ WF_vars(Tick)
  /\ \A r \in Request :
       /\ WF_vars(Store(r) \/ RefreshFails(r))
       /\ WF_vars(Conclude(r))
       /\ SF_vars(ServeJWKS(r))
       /\ SF_vars(Store(r))
  /\ \A t \in {u \in Token : Valid(u) /\ u.left > Timeout} :
       /\ SF_vars(\E r \in Request : VerifyCached(r, t))
       /\ SF_vars(\E r \in Request : StartRefresh(r, t))

FairSpec == Spec /\ Fairness

-----------------------------------------------------------------------------
(* Properties                                                              *)

\* What keeps a withdrawn key from lasting: the keys of an answer were
\* published when its request was served, those of a fresh cache at most Timeout
\* before it was stored, and a request that has stored finds the cache fresh.
KeysAreRecent ==
  /\ \A k \in published : gone[k] = 0
  /\ \A r \in Request : pc[r] = "answered" =>
       \A k \in jwks[answer[r]] : gone[k] <= waited[r]
  /\ cached > 0 /\ age < Window => \A k \in jwks[cached] : gone[k] <= age + Timeout
  /\ \A r \in Request : pc[r] = "stored" => age = 0 /\ cached > 0

\* The inductive invariant: types, and no key of the cache or of an answer is
\* older than the caching of refresh allows.
VerifierInv == TypeOK /\ KeysAreRecent

Accepts(r) == reply'[r] \in Kid /\ reply'[r] # reply[r]

\* A withdrawn key ends: no token is accepted under a key that has not been
\* published for Window + Timeout, although the re-read of key does not look at
\* the age of the cache and an old answer sets fetched to now.
WithdrawnKeysEnd ==
  [][\A r \in Request : Accepts(r) =>
       /\ gone[reply'[r]] < Grace
       /\ reply'[r] \notin Unusable]_vars

\* The key sets between the answer of r and the one published now all have k.
PublishedSince(r, k) == \A i \in answer[r]..Len(jwks) : k \in SigningKeys(jwks[i])

\* A valid token under a key that is published all along is refused only when
\* the fetch fails, or when an older answer has been stored over the answer of
\* this very request (nothing orders the writes of concurrent refreshes).
RefusedOnlyWhenOvertaken ==
  [][\A r \in Request :
       /\ pc[r] = "stored" /\ pc'[r] = "idle" /\ reply'[r] = "error"
       /\ Valid(token[r]) /\ PublishedSince(r, token[r].kid)
       => r \in overtaken]_vars

\* A key that stays published is accepted sooner or later, whatever answers
\* overtook each other before: the refusals above do not last.
PublishedKeysWork ==
  \A k \in {t.kid : t \in {u \in Token : Valid(u) /\ u.left > Timeout}} \ Unusable :
    (k \in published) ~> (k \notin published \/ \E r \in Request : reply[r] = k)
=============================================================================
