------------------------ MODULE TokenVerifierProofs ------------------------
(***************************************************************************)
(* Proofs about TokenVerifier, for any number of requests and keys, any    *)
(* tokens, and any freshness window and fetch timeout: VerifierInv is      *)
(* inductive, no withdrawn key outlasts Window + Timeout, and a valid      *)
(* token is refused only after an older answer was stored over a newer.    *)
(***************************************************************************)
EXTENDS TokenVerifier, TLAPS

\* Publishing a key set changes none of the earlier ones.
LEMMA AppendKeepsSets ==
  ASSUME TypeOK, NEW document \in SUBSET Kid, jwks' = Append(jwks, document)
  PROVE  /\ jwks' \in Seq(SUBSET Kid)
         /\ Len(jwks) \in Nat
         /\ Len(jwks') = Len(jwks) + 1
         /\ published' = document
         /\ \A i \in 1..Len(jwks) : jwks'[i] = jwks[i]
BY DEF TypeOK, published

LEMMA InitInv == Init => VerifierInv
<1> SUFFICES ASSUME Init PROVE VerifierInv
  OBVIOUS
<1>1. jwks \in Seq(SUBSET Kid) /\ Len(jwks) = 1 /\ published = FirstKeys
  BY ConstantsAssumption DEF Init, published
<1>2. TypeOK
  BY <1>1, ConstantsAssumption DEF Init, TypeOK, Grace
<1>3. KeysAreRecent
  BY <1>1, ConstantsAssumption DEF Init, KeysAreRecent
<1> QED  BY <1>2, <1>3 DEF VerifierInv

LEMMA RotateInv ==
  ASSUME VerifierInv, NEW k \in Kid, Rotate(k)
  PROVE  VerifierInv'
<1> DEFINE document == IF k \in published THEN published \ {k} ELSE published \cup {k}
<1>0. published \subseteq Kid
  BY DEF VerifierInv, TypeOK, published
<1>1. /\ jwks' \in Seq(SUBSET Kid)
      /\ Len(jwks) \in Nat
      /\ Len(jwks') = Len(jwks) + 1
      /\ published' = document
      /\ \A i \in 1..Len(jwks) : jwks'[i] = jwks[i]
  <2>1. TypeOK /\ document \in SUBSET Kid /\ jwks' = Append(jwks, document)
    BY <1>0 DEF VerifierInv, Rotate
  <2> HIDE DEF document
  <2> QED  BY <2>1, AppendKeepsSets
<1>2. TypeOK'
  BY <1>1, ConstantsAssumption
     DEF VerifierInv, TypeOK, Rotate, cacheVars, requestVars, Grace
<1>3. \A j \in Kid : gone'[j] \in Nat /\ gone'[j] <= gone[j]
  BY ConstantsAssumption DEF VerifierInv, TypeOK, Rotate, Grace
<1>4. KeysAreRecent'
  <2>1. \A j \in published' : gone'[j] = 0
    BY <1>1, <1>0 DEF VerifierInv, KeysAreRecent, TypeOK, Rotate
  <2>2. \A r \in Request : pc[r] = "answered" =>
          \A j \in jwks'[answer[r]] : gone'[j] <= waited[r]
    <3> SUFFICES ASSUME NEW r \in Request, pc[r] = "answered",
                        NEW j \in jwks'[answer[r]]
                 PROVE  gone'[j] <= waited[r]
      OBVIOUS
    <3>1. answer[r] \in 1..Len(jwks) /\ jwks'[answer[r]] = jwks[answer[r]]
      BY <1>1 DEF VerifierInv, TypeOK
    <3>2. j \in Kid /\ gone[j] \in Nat /\ waited[r] \in Nat
      BY <3>1, ConstantsAssumption DEF VerifierInv, TypeOK, Grace
    <3> QED  BY <3>1, <3>2, <1>3 DEF VerifierInv, KeysAreRecent
  <2>3. cached > 0 /\ age < Window => \A j \in jwks'[cached] : gone'[j] <= age + Timeout
    <3> SUFFICES ASSUME cached > 0, age < Window, NEW j \in jwks'[cached]
                 PROVE  gone'[j] <= age + Timeout
      OBVIOUS
    <3>1. cached \in 1..Len(jwks) /\ jwks'[cached] = jwks[cached]
      BY <1>1 DEF VerifierInv, TypeOK
    <3>2. j \in Kid /\ gone[j] \in Nat /\ age \in Nat
      BY <3>1, ConstantsAssumption DEF VerifierInv, TypeOK, Grace
    <3> QED  BY <3>1, <3>2, <1>3, ConstantsAssumption DEF VerifierInv, KeysAreRecent
  <2> QED  BY <2>1, <2>2, <2>3
           DEF VerifierInv, KeysAreRecent, Rotate, cacheVars, requestVars
<1> QED  BY <1>2, <1>4 DEF VerifierInv

\* A capped count stays in its range and grows by at most one.
LEMMA CappedRange ==
  ASSUME NEW bound \in Nat, NEW n \in 0..bound
  PROVE  Capped(n, bound) \in 0..bound /\ Capped(n, bound) <= n + 1
BY DEF Capped

LEMMA TickInv ==
  ASSUME VerifierInv, Tick
  PROVE  VerifierInv'
<1>0. /\ \A r \in Request : waited[r] \in Nat /\ (pc[r] # "idle" => waited[r] < Timeout)
      /\ \A j \in Kid : gone[j] \in 0..Grace
      /\ age \in 0..Window
      /\ jwks' = jwks /\ cached' = cached /\ pc' = pc /\ answer' = answer
      /\ published' = published
      /\ published \subseteq Kid
      /\ Grace \in Nat /\ Window \in Nat \ {0} /\ Timeout \in Nat \ {0}
  <2>1. Grace \in Nat /\ Window \in Nat \ {0} /\ Timeout \in Nat \ {0}
    BY ConstantsAssumption DEF Grace
  <2>2. published \subseteq Kid
    BY DEF VerifierInv, TypeOK, published
  <2>3. jwks' = jwks /\ cached' = cached /\ pc' = pc /\ answer' = answer
    BY DEF Tick
  <2>4. published' = published
    BY <2>3 DEF published
  <2>5. \A r \in Request : waited[r] \in Nat /\ (pc[r] # "idle" => waited[r] < Timeout)
    <3>1. \A r \in Request : waited[r] \in 0..Timeout
      BY DEF VerifierInv, TypeOK
    <3>2. \A r \in Request : pc[r] # "idle" => waited[r] < Timeout
      BY DEF Tick
    <3>3. ASSUME NEW r \in Request
          PROVE  waited[r] \in Nat
      <4>1. waited[r] \in 0..Timeout
        BY <3>1
      <4>2. 0..Timeout \subseteq Nat
        BY <2>1
      <4> QED  BY <4>1, <4>2
    <3> QED  BY <3>2, <3>3
  <2>6. (\A j \in Kid : gone[j] \in 0..Grace) /\ age \in 0..Window
    BY DEF VerifierInv, TypeOK
  <2> QED  BY <2>1, <2>2, <2>3, <2>4, <2>5, <2>6
<1>1. TypeOK'
  <2>1. gone' \in [Kid -> 0..Grace] /\ age' \in 0..Window
    <3>1. \A j \in Kid : Capped(gone[j], Grace) \in 0..Grace
      BY <1>0, CappedRange
    <3>2. 0 \in 0..Grace
      BY <1>0
    <3>3. gone' \in [Kid -> 0..Grace]
      BY <3>1, <3>2 DEF Tick
    <3>4. age' \in 0..Window
      BY <1>0, CappedRange DEF Tick
    <3> QED  BY <3>3, <3>4
  <2>2. waited' \in [Request -> 0..Timeout]
    <3>1. \A r \in Request : pc[r] # "idle" => waited[r] + 1 \in 0..Timeout
      BY <1>0
    <3>2. 0 \in 0..Timeout
      BY <1>0
    <3> QED  BY <3>1, <3>2 DEF Tick
  <2>3. /\ token' \in [Request -> AccessToken \cup {NULL}]
        /\ \A r \in Request : pc[r] = "idle" <=> token'[r] = NULL
    <3>1. token' = [r \in Request |-> token'[r]]
      BY DEF Tick
    <3>2. ASSUME NEW r \in Request, pc[r] # "idle"
          PROVE  token'[r] \in AccessToken /\ token'[r] # NULL
      <4>1. token[r] \in AccessToken
        BY <3>2 DEF VerifierInv, TypeOK
      <4>2. token'[r] = [token[r] EXCEPT !.left = IF @ > 0 THEN @ - 1 ELSE 0,
                                         !.wait = IF @ > 0 THEN @ - 1 ELSE 0]
        BY <3>2 DEF Tick
      <4> DEFINE l == IF token[r].left > 0 THEN token[r].left - 1 ELSE 0
                 w == IF token[r].wait > 0 THEN token[r].wait - 1 ELSE 0
      <4>3. l \in Nat /\ w \in Nat
        BY <4>1 DEF AccessToken
      <4>4. token'[r] = [token[r] EXCEPT !.left = l, !.wait = w]
        BY <4>2
      <4> HIDE DEF l, w
      <4>5. token'[r] \in AccessToken
        BY <4>1, <4>3, <4>4 DEF AccessToken
      <4> QED  BY <4>5, ConstantsAssumption
    <3>3. ASSUME NEW r \in Request, pc[r] = "idle"
          PROVE  token'[r] = NULL
      BY <3>3 DEF Tick
    <3> QED  BY <3>1, <3>2, <3>3
  <2> QED  BY <2>1, <2>2, <2>3, <1>0 DEF VerifierInv, TypeOK, Tick
<1>2. \A j \in Kid : gone'[j] \in Nat /\ gone'[j] <= gone[j] + 1
  <2>1. ASSUME NEW j \in Kid
        PROVE  gone[j] \in Nat /\ Capped(gone[j], Grace) \in Nat
                 /\ Capped(gone[j], Grace) <= gone[j] + 1
    <3>1. gone[j] \in 0..Grace /\ Grace \in Nat
      BY <1>0
    <3>2. /\ Capped(gone[j], Grace) \in 0..Grace
          /\ Capped(gone[j], Grace) <= gone[j] + 1
      BY <3>1, CappedRange
    <3> QED  BY <3>1, <3>2
  <2>2. \A j \in Kid : gone'[j] = IF j \in published THEN 0 ELSE Capped(gone[j], Grace)
    BY DEF Tick
  <2> QED  BY <2>1, <2>2
<1>3. \A j \in published : gone'[j] = 0
  BY <1>0 DEF Tick
<1>4. \A r \in Request : pc[r] = "answered" =>
        \A j \in jwks[answer[r]] : gone'[j] <= waited'[r]
  <2> SUFFICES ASSUME NEW r \in Request, pc[r] = "answered", NEW j \in jwks[answer[r]]
               PROVE  gone'[j] <= waited'[r]
    OBVIOUS
  <2>1. gone[j] <= waited[r]
    BY DEF VerifierInv, KeysAreRecent
  <2>2. waited'[r] = waited[r] + 1
    BY DEF Tick
  <2>3. j \in Kid
    BY DEF VerifierInv, TypeOK
  <2> QED  BY <2>1, <2>2, <2>3, <1>0, <1>2
<1>5. cached > 0 /\ age' < Window => \A j \in jwks[cached] : gone'[j] <= age' + Timeout
  <2> SUFFICES ASSUME cached > 0, age' < Window, NEW j \in jwks[cached]
               PROVE  gone'[j] <= age' + Timeout
    OBVIOUS
  <2>1. age' = age + 1 /\ age < Window
    BY <1>0 DEF Tick, Capped
  <2>2. gone[j] <= age + Timeout
    BY <2>1 DEF VerifierInv, KeysAreRecent
  <2>3. j \in Kid
    BY DEF VerifierInv, TypeOK
  <2> QED  BY <2>1, <2>2, <2>3, <1>0, <1>2
<1>6. \A r \in Request : pc[r] # "stored"
  BY DEF Tick
<1> QED  BY <1>0, <1>1, <1>3, <1>4, <1>5, <1>6 DEF VerifierInv, KeysAreRecent

LEMMA StartRefreshInv ==
  ASSUME VerifierInv, NEW r \in Request, NEW t \in Token, StartRefresh(r, t)
  PROVE  VerifierInv'
<1>1. t \in AccessToken /\ t # NULL
  BY ConstantsAssumption
<1>2. TypeOK'
  BY <1>1 DEF VerifierInv, TypeOK, StartRefresh, issuerVars, cacheVars
<1>3. KeysAreRecent'
  BY DEF VerifierInv, KeysAreRecent, TypeOK, StartRefresh, issuerVars, cacheVars, published
<1> QED  BY <1>2, <1>3 DEF VerifierInv

LEMMA ServeJWKSInv ==
  ASSUME VerifierInv, NEW r \in Request, ServeJWKS(r)
  PROVE  VerifierInv'
<1>1. Len(jwks) \in Nat \ {0} /\ published \subseteq Kid
  BY DEF VerifierInv, TypeOK, published
<1>2. TypeOK'
  BY <1>1 DEF VerifierInv, TypeOK, ServeJWKS, issuerVars, cacheVars
<1>3. \A q \in Request : pc'[q] = "answered" =>
        \A j \in jwks[answer'[q]] : gone[j] <= waited[q]
  <2>1. \A j \in jwks[answer'[r]] : gone[j] <= waited[r]
    BY DEF VerifierInv, TypeOK, KeysAreRecent, ServeJWKS, published
  <2> QED  BY <2>1 DEF VerifierInv, TypeOK, KeysAreRecent, ServeJWKS
<1>4. KeysAreRecent'
  BY <1>3 DEF VerifierInv, TypeOK, KeysAreRecent, ServeJWKS, issuerVars, cacheVars, published
<1> QED  BY <1>2, <1>4 DEF VerifierInv

LEMMA FinishInv ==
  ASSUME VerifierInv, NEW r \in Request, NEW result \in Kid \cup {"none", "error"},
         Finish(r, result), UNCHANGED <<issuerVars, cacheVars>>
  PROVE  VerifierInv'
<1>1. TypeOK'
  BY ConstantsAssumption DEF VerifierInv, TypeOK, Finish, issuerVars, cacheVars
<1>2. KeysAreRecent'
  BY DEF VerifierInv, TypeOK, KeysAreRecent, Finish, issuerVars, cacheVars, published
<1> QED  BY <1>1, <1>2 DEF VerifierInv

LEMMA StoreInv ==
  ASSUME VerifierInv, NEW r \in Request, Store(r)
  PROVE  VerifierInv'
<1>1. /\ answer[r] \in 1..Len(jwks)
      /\ waited[r] \in 0..Timeout
      /\ \A j \in jwks[answer[r]] : j \in Kid /\ gone[j] <= waited[r]
  BY DEF VerifierInv, TypeOK, KeysAreRecent, Store
<1>2. TypeOK'
  BY <1>1, ConstantsAssumption DEF VerifierInv, TypeOK, Store, issuerVars
<1>3. \A j \in jwks[cached'] : gone[j] <= age' + Timeout
  BY <1>1, ConstantsAssumption DEF VerifierInv, TypeOK, Store, Grace
<1>4. age' = 0 /\ cached' > 0
  BY <1>1 DEF Store
<1>5. KeysAreRecent'
  BY <1>3, <1>4 DEF VerifierInv, TypeOK, KeysAreRecent, Store, issuerVars, published
<1> QED  BY <1>2, <1>5 DEF VerifierInv

LEMMA ResultType ==
  ASSUME NEW t \in AccessToken
  PROVE  Result(t) \in Kid \cup {"none", "error"} /\ (Result(t) \in Kid => Result(t) = t.kid)
BY ConstantsAssumption DEF Result, AccessToken

\* Verify against the cache changes nothing but the reply.
LEMMA ReplyInv ==
  ASSUME VerifierInv, NEW r \in Request, NEW result \in Kid \cup {"none", "error"},
         reply' = [reply EXCEPT ![r] = result],
         UNCHANGED <<issuerVars, cacheVars, pc, token, waited, answer, overtaken>>
  PROVE  VerifierInv'
BY DEF VerifierInv, TypeOK, KeysAreRecent, issuerVars, cacheVars, published

LEMMA StutterInv ==
  ASSUME VerifierInv, UNCHANGED vars
  PROVE  VerifierInv'
BY DEF VerifierInv, TypeOK, KeysAreRecent, published, vars, issuerVars, cacheVars, requestVars

LEMMA NextInv ==
  ASSUME VerifierInv, [Next]_vars
  PROVE  VerifierInv'
<1>1. ASSUME NEW r \in Request, Malformed(r)  PROVE VerifierInv'
  BY <1>1, ReplyInv DEF Malformed
<1>2. ASSUME NEW r \in Request, NEW t \in Token, VerifyCached(r, t)  PROVE VerifierInv'
  <2>1. Result(t) \in Kid \cup {"none", "error"}
    BY ResultType, ConstantsAssumption
  <2> QED  BY <1>2, <2>1, ReplyInv DEF VerifyCached
<1>3. ASSUME NEW r \in Request, RefreshFails(r)  PROVE VerifierInv'
  BY <1>3, FinishInv DEF RefreshFails
<1>4. ASSUME NEW r \in Request, Conclude(r)  PROVE VerifierInv'
  <2>1. token[r] \in AccessToken
    BY <1>4 DEF VerifierInv, TypeOK, Conclude
  <2> DEFINE result == IF token[r].kid \in keys THEN Result(token[r]) ELSE "error"
  <2>2. result \in Kid \cup {"none", "error"}
    BY <2>1, ResultType
  <2>3. Finish(r, result) /\ UNCHANGED <<issuerVars, cacheVars>>
    BY <1>4 DEF Conclude
  <2> HIDE DEF result
  <2> QED  BY <2>2, <2>3, FinishInv
<1> QED  BY <1>1, <1>2, <1>3, <1>4, RotateInv, TickInv, StartRefreshInv, ServeJWKSInv,
            StoreInv, StutterInv DEF Next

\* The cache and the answers under way never hold a key older than the
\* caching of refresh allows.
THEOREM VerifierInvariant == Spec => []VerifierInv
BY InitInv, NextInv, PTL DEF Spec

-----------------------------------------------------------------------------
(* WithdrawnKeysEnd                                                        *)

\* A key found in a fresh cache was published less than Grace ago and is an
\* RSA signing key.
LEMMA FreshKeys ==
  ASSUME VerifierInv, age < Window, NEW k \in keys
  PROVE  k \in Kid /\ gone[k] < Grace /\ k \notin Unusable
<1>1. cached \in 1..Len(jwks) /\ k \in jwks[cached] /\ k \notin Unusable
  BY DEF VerifierInv, TypeOK, keys, SigningKeys
<1>2. k \in Kid /\ gone[k] \in Nat /\ age \in Nat
  BY <1>1, ConstantsAssumption DEF VerifierInv, TypeOK, Grace
<1>3. gone[k] <= age + Timeout
  BY <1>1 DEF VerifierInv, KeysAreRecent
<1> QED  BY <1>1, <1>2, <1>3, ConstantsAssumption DEF Grace

LEMMA StepAcceptsFreshKeys ==
  ASSUME VerifierInv, [Next]_vars, NEW r \in Request, Accepts(r)
  PROVE  gone[reply'[r]] < Grace /\ reply'[r] \notin Unusable
<1>0. "error" \notin Kid /\ reply'[r] \in Kid /\ reply'[r] # reply[r]
  BY ConstantsAssumption DEF Accepts
<1>1. ASSUME NEW q \in Request, NEW t \in Token, VerifyCached(q, t)
      PROVE  gone[reply'[r]] < Grace /\ reply'[r] \notin Unusable
  <2>1. q = r /\ reply'[r] = Result(t)
    BY <1>0, <1>1 DEF VerifyCached, VerifierInv, TypeOK
  <2>2. reply'[r] = t.kid
    BY <2>1, <1>0, ResultType, ConstantsAssumption
  <2> QED  BY <1>1, <2>2, FreshKeys DEF VerifyCached, Hit
<1>2. ASSUME NEW q \in Request, Conclude(q)
      PROVE  gone[reply'[r]] < Grace /\ reply'[r] \notin Unusable
  <2>1. /\ q = r
        /\ reply'[r] = IF token[r].kid \in keys THEN Result(token[r]) ELSE "error"
    BY <1>0, <1>2 DEF Conclude, Finish, VerifierInv, TypeOK
  <2>2. token[r] \in AccessToken
    BY <1>2, <2>1 DEF VerifierInv, TypeOK, Conclude
  <2>3. token[r].kid \in keys /\ reply'[r] = token[r].kid
    BY <2>1, <2>2, <1>0, ResultType
  <2>4. age < Window
    BY <1>2, <2>1, ConstantsAssumption DEF Conclude, VerifierInv, KeysAreRecent
  <2> QED  BY <2>3, <2>4, FreshKeys
<1>3. ASSUME NEW q \in Request, Malformed(q) \/ RefreshFails(q)
      PROVE  FALSE
  BY <1>3, <1>0 DEF Malformed, RefreshFails, Finish, VerifierInv, TypeOK
<1>4. reply' # reply
  BY <1>0
<1> QED  BY <1>1, <1>2, <1>3, <1>4 DEF Next, Rotate, Tick, StartRefresh, ServeJWKS, Store,
            vars, requestVars

\* No token is accepted under a key withdrawn Window + Timeout ago, or under
\* one that is no RSA signing key, whatever order the refreshes end in.
THEOREM WithdrawnKeysDoEnd == Spec => WithdrawnKeysEnd
<1>1. VerifierInv /\ [Next]_vars =>
        [\A r \in Request : Accepts(r) =>
           /\ gone[reply'[r]] < Grace
           /\ reply'[r] \notin Unusable]_vars
  BY StepAcceptsFreshKeys
<1> QED  BY <1>1, VerifierInvariant, PTL DEF Spec, WithdrawnKeysEnd

-----------------------------------------------------------------------------
(* RefusedOnlyWhenOvertaken                                                *)

\* The cache holds the answer a request has stored or a newer one, unless an
\* older one was stored over it, and that is on record.
OvertakenIsRecorded ==
  \A r \in Request : pc[r] = "stored" => answer[r] <= cached \/ r \in overtaken

LEMMA OvertakenStep ==
  ASSUME VerifierInv, OvertakenIsRecorded, [Next]_vars
  PROVE  OvertakenIsRecorded'
<1> SUFFICES ASSUME NEW q \in Request, pc'[q] = "stored"
             PROVE  answer'[q] <= cached' \/ q \in overtaken'
  BY DEF OvertakenIsRecorded
<1>0. pc[q] = "stored" => answer[q] <= cached \/ q \in overtaken
  BY DEF OvertakenIsRecorded
<1>1. ASSUME NEW r \in Request, Store(r) PROVE answer'[q] <= cached' \/ q \in overtaken'
  <2>1. /\ cached' = answer[r] /\ answer' = answer
        /\ overtaken' = overtaken \cup {p \in Request : pc[p] = "stored" /\ answer[r] < answer[p]}
        /\ q # r => pc[q] = "stored"
        /\ answer[r] \in Nat /\ answer[q] \in Nat
    BY <1>1 DEF Store, VerifierInv, TypeOK
  <2>2. CASE q = r
    BY <2>1, <2>2
  <2>3. CASE q # r
    BY <2>1, <2>3
  <2> QED  BY <2>2, <2>3
<1>2. ASSUME NEW r \in Request, NEW result, Finish(r, result), cached' = cached
      PROVE  answer'[q] <= cached' \/ q \in overtaken'
  <2>1. q # r
    BY <1>2 DEF Finish, VerifierInv, TypeOK
  <2>2. pc[q] = "stored" /\ answer'[q] = answer[q]
    BY <1>2, <2>1 DEF Finish, VerifierInv, TypeOK
  <2>3. q \in overtaken => q \in overtaken'
    BY <1>2, <2>1 DEF Finish
  <2> QED  BY <1>0, <1>2, <2>2, <2>3
<1>3. ASSUME NEW r \in Request, RefreshFails(r) \/ Conclude(r)
      PROVE  answer'[q] <= cached' \/ q \in overtaken'
  BY <1>2, <1>3 DEF RefreshFails, Conclude, cacheVars
<1>4. ASSUME NEW r \in Request, ServeJWKS(r) PROVE answer'[q] <= cached' \/ q \in overtaken'
  <2>1. q # r
    BY <1>4 DEF ServeJWKS, VerifierInv, TypeOK
  <2> QED  BY <1>0, <1>4, <2>1 DEF ServeJWKS, VerifierInv, TypeOK, cacheVars
<1>5. ASSUME NEW r \in Request, NEW t \in Token, StartRefresh(r, t)
      PROVE  answer'[q] <= cached' \/ q \in overtaken'
  <2>1. q # r
    BY <1>5 DEF StartRefresh, VerifierInv, TypeOK
  <2> QED  BY <1>0, <1>5, <2>1 DEF StartRefresh, VerifierInv, TypeOK, cacheVars
<1>6. ASSUME UNCHANGED <<pc, answer, cached, overtaken>>
      PROVE  answer'[q] <= cached' \/ q \in overtaken'
  BY <1>0, <1>6
<1> QED  BY <1>1, <1>3, <1>4, <1>5, <1>6
         DEF Next, Rotate, Tick, Malformed, VerifyCached, vars, cacheVars, requestVars

\* A refused request whose own answer the cache still covers was refused for
\* its token.
LEMMA RefusalIsExplained ==
  ASSUME VerifierInv, OvertakenIsRecorded, [Next]_vars, NEW r \in Request,
         pc[r] = "stored", pc'[r] = "idle", reply'[r] = "error",
         Valid(token[r]), PublishedSince(r, token[r].kid)
  PROVE  r \in overtaken
<1> SUFFICES ASSUME answer[r] <= cached PROVE FALSE
  BY DEF OvertakenIsRecorded
<1>1. Conclude(r)
  <2>1. ASSUME NEW q \in Request, RefreshFails(q) \/ Conclude(q) PROVE q = r /\ Conclude(r)
    BY <2>1 DEF RefreshFails, Conclude, Finish, VerifierInv, TypeOK
  <2>2. ASSUME NEW q \in Request, Store(q) \/ ServeJWKS(q) \/ \E t \in Token : StartRefresh(q, t)
        PROVE  FALSE
    BY <2>2 DEF Store, ServeJWKS, StartRefresh, VerifierInv, TypeOK
  <2>3. pc' # pc
    OBVIOUS
  <2> QED  BY <2>1, <2>2, <2>3 DEF Next, Rotate, Tick, Malformed, VerifyCached, vars, requestVars
<1>2. reply'[r] = IF token[r].kid \in keys THEN Result(token[r]) ELSE "error"
  BY <1>1 DEF Conclude, Finish, VerifierInv, TypeOK
<1>3. token[r] \in AccessToken /\ token[r].kid # "error"
  BY ConstantsAssumption DEF VerifierInv, TypeOK, AccessToken
<1>4. token[r].kid \in keys
  <2>1. cached \in answer[r]..Len(jwks) /\ cached # 0
    BY DEF VerifierInv, TypeOK
  <2> QED  BY <2>1 DEF PublishedSince, keys
<1> QED  BY <1>2, <1>3, <1>4 DEF Result

\* Nothing orders the writes of concurrent refreshes, and that is the only way
\* in which a valid token under a key published all along is refused by a
\* fetch that succeeds (key and refresh of verifier.go).
THEOREM RefusalsAreOvertaken == Spec => RefusedOnlyWhenOvertaken
<1>1. Init => OvertakenIsRecorded
  BY DEF Init, OvertakenIsRecorded
<1>2. VerifierInv /\ OvertakenIsRecorded /\ [Next]_vars => OvertakenIsRecorded'
  BY OvertakenStep
<1>3. VerifierInv /\ OvertakenIsRecorded /\ [Next]_vars =>
        [\A r \in Request :
           /\ pc[r] = "stored" /\ pc'[r] = "idle" /\ reply'[r] = "error"
           /\ Valid(token[r]) /\ PublishedSince(r, token[r].kid)
           => r \in overtaken]_vars
  BY RefusalIsExplained
<1> QED  BY <1>1, <1>2, <1>3, VerifierInvariant, PTL DEF Spec, RefusedOnlyWhenOvertaken
=============================================================================
