------------------------ MODULE AuthenticationProofs ------------------------
(***************************************************************************)
(* Theorems about Authentication, for any number of concurrent requests,   *)
(* any key sets and any durations: who reaches a handler, how long a       *)
(* withdrawn key is used and a published one refused, and how often the    *)
(* provider is asked.                                                      *)
(***************************************************************************)
EXTENDS Authentication, TLAPS

-----------------------------------------------------------------------------
(* Invariants *)

Steps == {"idle", "look", "wait", "fetch", "receive", "reread", "serve"}
Asked == Requests \cup {None, [kind |-> "prime"]}
CallRecord == [at : Steps, req : Asked, doc : Documents \cup {<<>>}]

\* The histories agree with the set published now.
Presence ==
  \A k \in Kids :
    IF ParseJWKS(published)[k] # None THEN absent[k] = 0 ELSE present[k] = 0

\* ServedGenuine for one token.
Genuine(token) ==
  /\ token.claims = "valid"
  /\ \E doc \in Documents : \E i \in DOMAIN doc :
       /\ doc[i].kid = token.kid /\ doc[i].material = token.signer
       /\ doc[i].use # "enc" /\ doc[i].alg \in {"", token.alg}

\* A request under way names a known identifier; one that fetches holds the lock; a set
\* that has been received was published no longer ago than its fetch began; one that
\* comes back from refresh finds a recent set unless a refresh failed.
CallOK(c) ==
  /\ ~At(c, "idle") /\ call[c].req.kind = "api" => Kid(c) \in Kids
  /\ call[c].at \in {"fetch", "receive"} => fetchMu = c
  /\ At(c, "receive") =>
       /\ call[c].doc \in Documents
       /\ \A k \in Kids :
            IF ParseJWKS(call[c].doc)[k] # None THEN absent[k] <= fetchAge ELSE present[k] <= fetchAge
  /\ At(c, "reread") => lastFailed \/ (Fetched /\ sinceFetch < MinInterval)
  /\ At(c, "serve") => Genuine(call[c].req.token)

Calls == call \in [Callers -> CallRecord] /\ \A c \in Callers : CallOK(c)

\* So was the cached one, as long as its age is told apart.
Installed ==
  Fetched /\ sinceFetch < KeyCache =>
    \A k \in Kids :
      IF keys[k] # None THEN absent[k] <= sinceFetch + FetchTimeout
                        ELSE present[k] <= sinceFetch + FetchTimeout

\* The last attempt, when it ended and did not fail, brought the cached set.
Attempted == ~lastFailed /\ fetchMu = None /\ Throttled => Fetched /\ sinceFetch <= sinceAttempt

\* Every cached key was in some published set, offered for signing.
Offered(kid, material, alg) ==
  \E doc \in Documents : \E i \in DOMAIN doc :
    /\ doc[i].kid = kid /\ doc[i].material = material /\ doc[i].use # "enc" /\ doc[i].alg = alg
Sources == \A k \in Kids : keys[k] # None => Offered(k, keys[k].material, keys[k].alg)

AuthInv == TypeOK /\ Calls /\ Presence /\ Installed /\ Attempted /\ Sources

-----------------------------------------------------------------------------
(* What the operators do. *)

\* A key parseJWKS returns is one of the set's, for signing.
LEMMA ParseSource ==
  ASSUME NEW doc \in Documents, NEW k \in Kids, ParseJWKS(doc)[k] # None
  PROVE  Offered(k, ParseJWKS(doc)[k].material, ParseJWKS(doc)[k].alg)
<1> DEFINE used == {i \in DOMAIN doc : Considered(doc[i])}
           i0 == CHOOSE i \in used : doc[i].kid = k
<1>1. /\ \E i \in used : doc[i].kid = k
      /\ ParseJWKS(doc)[k] = [material |-> doc[i0].material, kty |-> doc[i0].kty, alg |-> doc[i0].alg]
  BY DEF ParseJWKS, NoKeys
<1>2. i0 \in used /\ doc[i0].kid = k
  BY <1>1
<1>3. i0 \in DOMAIN doc /\ doc[i0].use # "enc"
  BY <1>2 DEF Considered
<1>4. ParseJWKS(doc)[k].material = doc[i0].material /\ ParseJWKS(doc)[k].alg = doc[i0].alg
  BY <1>1
<1> HIDE DEF used, i0
<1> QED
  BY <1>2, <1>3, <1>4 DEF Offered

LEMMA GoEffect ==
  ASSUME call \in [Callers -> CallRecord], NEW c \in Callers, NEW a \in Steps, NEW req \in Asked,
         Go(c, a, req)
  PROVE  /\ call' \in [Callers -> CallRecord] /\ call'[c].at = a /\ call'[c].req = req
         /\ \A d \in Callers : d # c => call'[d] = call[d]
<1> DEFINE r == [Idle EXCEPT !.at = a, !.req = req]
<1>1. r \in CallRecord /\ r.at = a /\ r.req = req
  BY DEF CallRecord, Idle, Asked, Steps
<1> HIDE DEF r
<1>2. call' = [call EXCEPT ![c] = r]
  BY DEF Go, r
<1> QED
  BY <1>1, <1>2

LEMMA EndEffect ==
  ASSUME call \in [Callers -> CallRecord], NEW c \in Callers, End(c)
  PROVE  /\ call' \in [Callers -> CallRecord] /\ call'[c].at = "idle"
         /\ \A d \in Callers : d # c => call'[d] = call[d]
<1>1. Idle \in CallRecord /\ Idle.at = "idle"
  BY DEF CallRecord, Idle, Asked, Steps
<1> QED
  BY <1>1 DEF End

LEMMA AuthenticateEffect ==
  ASSUME NEW c \in Callers, NEW req, NEW key, Authenticate(c, req, key)
  PROVE  End(c) \/ (Go(c, "serve", req) /\ Verifies(key, req.token))
BY DEF Authenticate, Accepts

LEMMA FetchEffect ==
  ASSUME call \in [Callers -> CallRecord], published \in Documents, NEW c \in Callers, Fetch(c)
  PROVE  /\ call' \in [Callers -> CallRecord] /\ call'[c].at = "receive"
         /\ call'[c].req = call[c].req /\ call'[c].doc = published
         /\ \A d \in Callers : d # c => call'[d] = call[d]
<1> DEFINE r == [call[c] EXCEPT !.at = "receive", !.doc = published]
<1>1. call[c] \in CallRecord
  OBVIOUS
<1>2. r \in CallRecord /\ r.at = "receive" /\ r.req = call[c].req /\ r.doc = published
  BY <1>1 DEF CallRecord, Steps
<1>3. call' = [call EXCEPT ![c] = r]
  BY DEF Fetch
<1> HIDE DEF r
<1> QED
  BY <1>2, <1>3

\* An age grows by at most one, and stops where it is no longer told apart.
LEMMA OlderAge ==
  ASSUME NEW limit \in Nat, NEW age \in {None} \cup 0..limit
  PROVE  /\ Older(age, limit) \in {None} \cup 0..limit
         /\ (Older(age, limit) = None) = (age = None)
         /\ age # None => Older(age, limit) \in 0..limit /\ Older(age, limit) <= age + 1
         /\ age # None /\ age < limit => Older(age, limit) = age + 1
         /\ age = limit => Older(age, limit) = limit
BY AuthenticationAssumptions DEF Older

-----------------------------------------------------------------------------
(* Every step preserves the invariant. *)

\* A step of one request that leaves the cache and the provider alone.
LEMMA CallStep ==
  ASSUME AuthInv, NEW c \in Callers, UNCHANGED <<cache, provider>>, call' \in [Callers -> CallRecord],
         \A d \in Callers : d # c => call'[d] = call[d], CallOK(c)'
  PROVE  AuthInv'
<1>1. /\ UNCHANGED <<keys, sinceFetch, sinceAttempt, fetchMu, fetchAge, lastFailed>>
      /\ UNCHANGED <<published, present, absent>>
  BY DEF cache, provider
<1>2. TypeOK' /\ Presence' /\ Installed' /\ Attempted' /\ Sources'
  BY <1>1 DEF AuthInv, TypeOK, Presence, Installed, Attempted, Sources, Fetched, Throttled
<1>3. ASSUME NEW d \in Callers, d # c PROVE CallOK(d)'
  <2>1. CallOK(d) /\ call'[d] = call[d]
    BY <1>3 DEF AuthInv, Calls
  <2> QED
    BY <1>1, <2>1 DEF CallOK, At, Kid, Fetched
<1> QED
  BY <1>2, <1>3 DEF AuthInv, Calls

\* The request is answered, or goes on to a step that needs no more than its identifier.
LEMMA EndOK ==
  ASSUME NEW c \in Callers, call'[c].at = "idle"
  PROVE  CallOK(c)'
BY DEF CallOK, At

LEMMA GoOK ==
  ASSUME NEW c \in Callers, call'[c].at \in {"look", "wait"},
         call'[c].req.kind = "api" => call'[c].req.token.kid \in Kids
  PROVE  CallOK(c)'
BY DEF CallOK, At, Kid

LEMMA EndStep ==
  ASSUME AuthInv, NEW c \in Callers, UNCHANGED <<cache, provider>>, End(c)
  PROVE  AuthInv'
BY EndEffect, EndOK, CallStep DEF AuthInv, Calls

LEMMA GoStep ==
  ASSUME AuthInv, NEW c \in Callers, UNCHANGED <<cache, provider>>, NEW a \in {"look", "wait"},
         NEW req \in Asked, Go(c, a, req), req.kind = "api" => req.token.kid \in Kids
  PROVE  AuthInv'
<1>1. /\ call' \in [Callers -> CallRecord] /\ call'[c].at = a /\ call'[c].req = req
      /\ \A d \in Callers : d # c => call'[d] = call[d]
  BY GoEffect DEF AuthInv, Calls, Steps
<1>2. CallOK(c)'
  BY <1>1, GoOK
<1> QED
  BY <1>1, <1>2, CallStep

\* A token is accepted only with the key cached under its identifier.
LEMMA GenuineKey ==
  ASSUME AuthInv, NEW token, token.kid \in Kids, keys[token.kid] # None, Verifies(keys[token.kid], token)
  PROVE  Genuine(token)
<1> DEFINE key == keys[token.kid]
<1>1. Offered(token.kid, key.material, key.alg)
  BY DEF AuthInv, Sources
<1>2. key.alg \in {"", token.alg} /\ token.signer = key.material /\ token.claims = "valid"
  BY DEF Verifies
<1> HIDE DEF key
<1> QED
  BY <1>1, <1>2 DEF Offered, Genuine

LEMMA AuthenticateStep ==
  ASSUME AuthInv, NEW c \in Callers, UNCHANGED <<cache, provider>>, ~At(c, "idle"),
         call[c].req.kind = "api", keys[Kid(c)] # None,
         Authenticate(c, call[c].req, keys[Kid(c)])
  PROVE  AuthInv'
<1>1. CASE End(c)
  BY <1>1, EndStep
<1>2. CASE Go(c, "serve", call[c].req) /\ Verifies(keys[Kid(c)], call[c].req.token)
  <2>1. Kid(c) \in Kids /\ call[c].req \in Asked
    BY DEF AuthInv, Calls, CallOK, CallRecord
  <2>2. Genuine(call[c].req.token)
    BY <1>2, <2>1, GenuineKey DEF Kid
  <2>3. /\ call' \in [Callers -> CallRecord] /\ call'[c].at = "serve" /\ call'[c].req = call[c].req
        /\ \A d \in Callers : d # c => call'[d] = call[d]
    BY <1>2, <2>1, GoEffect DEF AuthInv, Calls, Steps
  <2>4. CallOK(c)'
    BY <2>1, <2>2, <2>3 DEF CallOK, At, Kid
  <2> QED
    BY <2>3, <2>4, CallStep
<1> QED
  BY <1>1, <1>2, AuthenticateEffect

\* What a request that looks at the cache finds when it is decided there and then.
LEMMA LookEffect ==
  ASSUME AuthInv, NEW c \in Callers, Look(c)
  PROVE  /\ At(c, "look") /\ UNCHANGED <<cache, provider>>
         /\ IF call[c].req.kind = "api"
              THEN \/ /\ keys[Kid(c)] # None /\ (~Stale \/ Throttled)
                      /\ Authenticate(c, call[c].req, keys[Kid(c)])
                   \/ Go(c, "wait", call[c].req)
                   \/ keys[Kid(c)] = None /\ Throttled /\ End(c)
              ELSE End(c) \/ Go(c, "wait", call[c].req)
BY DEF Look, KeyFor, Endpoints, Kid

LEMMA LookStep ==
  ASSUME AuthInv, NEW c \in Callers, Look(c)
  PROVE  AuthInv'
<1>1. call[c].req \in Asked /\ (call[c].req.kind = "api" => call[c].req.token.kid \in Kids) /\ ~At(c, "idle")
  BY LookEffect DEF AuthInv, Calls, CallOK, CallRecord, Kid, At
<1>2. CASE Go(c, "wait", call[c].req)
  BY <1>1, <1>2, LookEffect, GoStep
<1>3. CASE End(c)
  BY <1>3, LookEffect, EndStep
<1>4. CASE call[c].req.kind = "api" /\ keys[Kid(c)] # None /\ Authenticate(c, call[c].req, keys[Kid(c)])
  BY <1>1, <1>4, LookEffect, AuthenticateStep
<1> QED
  BY <1>2, <1>3, <1>4, LookEffect

LEMMA RereadStep ==
  ASSUME AuthInv, NEW c \in Callers, Reread(c)
  PROVE  AuthInv'
<1>1. UNCHANGED <<cache, provider>> /\ ~At(c, "idle")
  BY DEF Reread, At
<1>2. CASE End(c)
  BY <1>1, <1>2, EndStep
<1>3. CASE call[c].req.kind = "api" /\ keys[Kid(c)] # None /\ Authenticate(c, call[c].req, keys[Kid(c)])
  BY <1>1, <1>3, AuthenticateStep
<1> QED
  BY <1>2, <1>3 DEF Reread, Kid

LEMMA StartStep ==
  ASSUME AuthInv, NEW c \in Callers, Prime(c) \/ \E req \in Requests : Arrive(c, req)
  PROVE  AuthInv'
<1>1. CASE Prime(c)
  <2>1. Go(c, "wait", [kind |-> "prime"]) /\ UNCHANGED <<cache, provider>>
    BY <1>1 DEF Prime, Go
  <2>2. [kind |-> "prime"].kind # "api" /\ [kind |-> "prime"] \in Asked
    BY DEF Asked
  <2> QED
    BY <2>1, <2>2, GoStep
<1>2. ASSUME NEW req \in Requests, Arrive(c, req) PROVE AuthInv'
  <2>1. Go(c, "look", req) /\ UNCHANGED <<cache, provider>>
    BY <1>2 DEF Arrive
  <2>2. req \in Asked /\ (req.kind = "api" => req.token.kid \in Kids)
    BY AuthenticationAssumptions DEF Asked
  <2> QED
    BY <2>1, <2>2, GoStep
<1> QED
  BY <1>1, <1>2

LEMMA FetchStep ==
  ASSUME AuthInv, NEW c \in Callers, Fetch(c)
  PROVE  AuthInv'
<1>1. /\ call' \in [Callers -> CallRecord] /\ call'[c].at = "receive"
      /\ call'[c].req = call[c].req /\ call'[c].doc = published
      /\ \A d \in Callers : d # c => call'[d] = call[d]
  BY FetchEffect DEF AuthInv, Calls, TypeOK
<1>2. /\ call[c].at = "fetch" /\ UNCHANGED <<cache, provider>> /\ CallOK(c)
      /\ UNCHANGED <<fetchMu, fetchAge, published, present, absent>>
  BY DEF Fetch, At, cache, provider, AuthInv, Calls
<1>3. \A k \in Kids : IF ParseJWKS(published)[k] # None THEN absent[k] <= fetchAge ELSE present[k] <= fetchAge
  BY DEF AuthInv, Presence, TypeOK
<1>4. CallOK(c)'
  BY <1>1, <1>2, <1>3 DEF CallOK, At, Kid, AuthInv, TypeOK
<1> QED
  BY <1>1, <1>2, <1>4, CallStep

LEMMA BeginStep ==
  ASSUME AuthInv, NEW c \in Callers, Begin(c)
  PROVE  AuthInv'
<1>1. call[c].at = "wait" /\ fetchMu = None /\ UNCHANGED provider /\ CallOK(c)
  BY DEF Begin, At, AuthInv, Calls
<1>2. call[c].req \in Asked /\ (call[c].req.kind = "api" => call[c].req.token.kid \in Kids)
  BY <1>1 DEF CallOK, AuthInv, Calls, CallRecord, At, Kid
<1>3. CASE Fetched /\ sinceFetch < MinInterval /\ Move(c, "reread") /\ UNCHANGED cache
  <2>1. /\ call' \in [Callers -> CallRecord] /\ call'[c].at = "reread" /\ call'[c].req = call[c].req
        /\ \A d \in Callers : d # c => call'[d] = call[d]
    BY <1>2, <1>3, GoEffect DEF AuthInv, Calls, Steps, Move
  <2>2. CallOK(c)'
    BY <1>2, <1>3, <2>1 DEF CallOK, At, Kid, cache, Fetched
  <2> QED
    BY <1>1, <1>3, <2>1, <2>2, CallStep
<1>4. CASE /\ fetchMu' = c /\ sinceAttempt' = 0 /\ fetchAge' = 0 /\ Move(c, "fetch")
           /\ UNCHANGED <<keys, sinceFetch, lastFailed>>
  <2>1. /\ call' \in [Callers -> CallRecord] /\ call'[c].at = "fetch" /\ call'[c].req = call[c].req
        /\ \A d \in Callers : d # c => call'[d] = call[d]
    BY <1>2, <1>4, GoEffect DEF AuthInv, Calls, Steps, Move
  <2>2. UNCHANGED <<published, present, absent>>
    BY <1>1 DEF provider
  <2>3. TypeOK' /\ Presence' /\ Installed' /\ Attempted' /\ Sources'
    BY <1>4, <2>2, AuthenticationAssumptions
       DEF AuthInv, TypeOK, Presence, Installed, Attempted, Sources, Fetched
  <2>4. ASSUME NEW d \in Callers PROVE CallOK(d)'
    <3>1. CASE d = c
      BY <1>2, <1>4, <2>1, <3>1 DEF CallOK, At, Kid
    <3>2. CASE d # c
      <4>1. CallOK(d) /\ call'[d] = call[d] /\ call[d].at \notin {"fetch", "receive"}
        BY <1>1, <2>1, <3>2, AuthenticationAssumptions DEF AuthInv, Calls, CallOK
      <4> QED
        BY <1>4, <2>2, <4>1 DEF CallOK, At, Kid, Fetched
    <3> QED
      BY <3>1, <3>2
  <2> QED
    BY <2>1, <2>3, <2>4 DEF AuthInv, Calls
<1> QED
  BY <1>3, <1>4 DEF Begin

\* The end of a refresh, however it ended: the lock is free and nobody else was fetching.
LEMMA RefreshEnds ==
  ASSUME AuthInv, NEW c \in Callers, call[c].at \in {"fetch", "receive"}, Move(c, "reread"),
         UNCHANGED provider, fetchMu' = None,
         lastFailed' \/ (Fetched' /\ sinceFetch' < MinInterval)
  PROVE  Calls'
<1>1. /\ call[c].req \in Asked /\ (call[c].req.kind = "api" => call[c].req.token.kid \in Kids)
      /\ fetchMu = c
  BY DEF CallOK, AuthInv, Calls, CallRecord, At, Kid
<1>2. /\ call' \in [Callers -> CallRecord] /\ call'[c].at = "reread" /\ call'[c].req = call[c].req
      /\ \A d \in Callers : d # c => call'[d] = call[d]
  BY <1>1, GoEffect DEF AuthInv, Calls, Steps, Move
<1>3. ASSUME NEW d \in Callers PROVE CallOK(d)'
  <2>1. CASE d = c
    BY <1>1, <1>2, <2>1 DEF CallOK, At, Kid
  <2>2. CASE d # c
    <3>1. CallOK(d) /\ call'[d] = call[d] /\ call[d].at \notin {"fetch", "receive"}
      BY <1>1, <1>2, <2>2 DEF AuthInv, Calls, CallOK
    <3> QED
      BY <3>1 DEF CallOK, At, Kid
  <2> QED
    BY <2>1, <2>2
<1> QED
  BY <1>2, <1>3 DEF Calls

LEMMA FetchFailsStep ==
  ASSUME AuthInv, NEW c \in Callers, FetchFails(c)
  PROVE  AuthInv'
<1>1. /\ call[c].at \in {"fetch", "receive"} /\ lastFailed' = TRUE /\ fetchMu' = None /\ fetchAge' = 0
      /\ Move(c, "reread") /\ UNCHANGED <<keys, sinceFetch, sinceAttempt, provider>>
  BY DEF FetchFails, At
<1>2. UNCHANGED <<published, present, absent>>
  BY <1>1 DEF provider
<1>3. Calls'
  BY <1>1, RefreshEnds
<1>4. TypeOK' /\ Presence' /\ Installed' /\ Attempted' /\ Sources'
  BY <1>1, <1>2, AuthenticationAssumptions
     DEF AuthInv, TypeOK, Presence, Installed, Attempted, Sources, Fetched
<1> QED
  BY <1>3, <1>4 DEF AuthInv

LEMMA InstallStep ==
  ASSUME AuthInv, NEW c \in Callers, Install(c)
  PROVE  AuthInv'
<1> DEFINE doc == call[c].doc
<1>1. /\ call[c].at = "receive" /\ lastFailed' = FALSE /\ fetchMu' = None /\ fetchAge' = 0
      /\ keys' = ParseJWKS(doc) /\ sinceFetch' = 0
      /\ Move(c, "reread") /\ UNCHANGED <<sinceAttempt, provider>>
  BY DEF Install, At
<1>2. UNCHANGED <<published, present, absent>>
  BY <1>1 DEF provider
<1>3. 0 # None /\ 0 < MinInterval /\ FetchTimeout \in Nat /\ KeyCache \in Nat /\ MinInterval \in Nat
  BY AuthenticationAssumptions
<1>4. Calls'
  BY <1>1, <1>3, RefreshEnds DEF Fetched
<1>5. /\ doc \in Documents
      /\ \A k \in Kids : IF ParseJWKS(doc)[k] # None THEN absent[k] <= fetchAge ELSE present[k] <= fetchAge
  BY <1>1 DEF AuthInv, Calls, CallOK, At
<1> HIDE DEF doc
<1>6. TypeOK' /\ Presence'
  <2>1. lastFailed' \in BOOLEAN /\ fetchMu' \in Callers \cup {None}
    BY <1>1, Zenon
  <2> QED
    BY <1>1, <1>2, <1>3, <2>1 DEF AuthInv, TypeOK, Presence
<1>7. Installed'
  BY <1>1, <1>2, <1>3, <1>5 DEF AuthInv, TypeOK, Installed
<1>8. Attempted'
  BY <1>1, <1>3 DEF AuthInv, TypeOK, Attempted, Fetched, Throttled
<1>9. Sources'
  BY <1>1, <1>5, ParseSource DEF Sources
<1> QED
  BY <1>4, <1>6, <1>7, <1>8, <1>9 DEF AuthInv

LEMMA PublishStep ==
  ASSUME AuthInv, NEW doc \in Documents, Publish(doc)
  PROVE  AuthInv'
<1>1. /\ published' = doc /\ UNCHANGED <<cache, call>>
      /\ present' = [k \in Kids |-> IF ParseJWKS(doc)[k] # None /\ ParseJWKS(published)[k] = ParseJWKS(doc)[k]
                                      THEN present[k] ELSE 0]
      /\ absent' = [k \in Kids |-> IF ParseJWKS(doc)[k] = None /\ ParseJWKS(published)[k] = None
                                     THEN absent[k] ELSE 0]
  BY DEF Publish
<1>2. UNCHANGED <<keys, sinceFetch, sinceAttempt, fetchMu, fetchAge, lastFailed, call>>
  BY <1>1 DEF cache
<1>3. /\ Limit \in Nat /\ KeyCache \in Nat /\ MinInterval \in Nat /\ FetchTimeout \in Nat
      /\ None \notin Nat
  BY AuthenticationAssumptions DEF Limit
<1>4. \A k \in Kids : /\ present'[k] <= present[k] /\ absent'[k] <= absent[k]
                      /\ present'[k] \in 0..Limit /\ absent'[k] \in 0..Limit
                      /\ present[k] \in 0..Limit /\ absent[k] \in 0..Limit
  BY <1>1, <1>3 DEF AuthInv, TypeOK
<1>5. TypeOK'
  BY <1>1, <1>2, <1>4 DEF AuthInv, TypeOK
<1>6. Presence'
  BY <1>1 DEF Presence
<1>7. Installed'
  BY <1>2, <1>3, <1>4 DEF AuthInv, TypeOK, Installed, Fetched
<1>8. Attempted' /\ Sources'
  BY <1>2 DEF AuthInv, Attempted, Sources, Fetched, Throttled
<1>9. Calls'
  <2>1. ASSUME NEW d \in Callers PROVE CallOK(d)'
    <3>1. CallOK(d) /\ fetchAge \in 0..FetchTimeout
      BY DEF AuthInv, Calls, TypeOK
    <3> QED
      BY <1>2, <1>3, <1>4, <3>1 DEF CallOK, At, Kid, Fetched
  <2> QED
    BY <1>2, <2>1 DEF AuthInv, Calls
<1> QED
  BY <1>5, <1>6, <1>7, <1>8, <1>9 DEF AuthInv

LEMMA TickStep ==
  ASSUME AuthInv, Tick
  PROVE  AuthInv'
<1>1. /\ \A c \in Callers : call[c].at \in {"idle", "wait", "fetch", "receive"}
      /\ fetchMu # None => fetchAge < FetchTimeout
      /\ fetchAge' = IF fetchMu = None THEN 0 ELSE fetchAge + 1
      /\ sinceFetch' = Older(sinceFetch, KeyCache) /\ sinceAttempt' = Older(sinceAttempt, MinInterval)
      /\ present' = [k \in Kids |-> IF ParseJWKS(published)[k] # None THEN Older(present[k], Limit) ELSE 0]
      /\ absent' = [k \in Kids |-> IF ParseJWKS(published)[k] = None THEN Older(absent[k], Limit) ELSE 0]
      /\ UNCHANGED <<keys, fetchMu, lastFailed, published, call>>
  BY DEF Tick
<1>2. /\ Limit \in Nat /\ KeyCache \in Nat /\ MinInterval \in Nat /\ FetchTimeout \in Nat
      /\ None \notin Nat /\ MinInterval <= KeyCache
  BY AuthenticationAssumptions DEF Limit
<1>3. /\ sinceFetch \in {None} \cup 0..KeyCache /\ sinceAttempt \in {None} \cup 0..MinInterval
      /\ fetchAge \in 0..FetchTimeout
  BY DEF AuthInv, TypeOK
<1>4. \A k \in Kids : /\ present[k] \in 0..Limit /\ absent[k] \in 0..Limit
                      /\ present'[k] \in 0..Limit /\ present'[k] <= present[k] + 1
                      /\ absent'[k] \in 0..Limit /\ absent'[k] <= absent[k] + 1
  <2>1. ASSUME NEW k \in Kids
        PROVE  /\ present[k] \in 0..Limit /\ absent[k] \in 0..Limit
               /\ present[k] # None /\ absent[k] # None
    BY <1>2 DEF AuthInv, TypeOK
  <2>2. ASSUME NEW a \in 0..Limit, a # None PROVE Older(a, Limit) \in 0..Limit /\ Older(a, Limit) <= a + 1
    BY <1>2, <2>2, OlderAge
  <2> HIDE DEF Limit
  <2> QED
    BY <1>1, <1>2, <2>1, <2>2
<1>5. /\ sinceFetch' \in {None} \cup 0..KeyCache /\ (Fetched' <=> Fetched)
      /\ Fetched => sinceFetch \in 0..KeyCache /\ sinceFetch' \in 0..KeyCache
      /\ Fetched /\ sinceFetch' < KeyCache => sinceFetch' = sinceFetch + 1
      /\ Fetched => sinceFetch' <= sinceFetch + 1
  BY <1>1, <1>2, <1>3 DEF Fetched, Older
<1>6. /\ sinceAttempt' \in {None} \cup 0..MinInterval
      /\ Throttled' => Throttled /\ sinceAttempt' = sinceAttempt + 1 /\ sinceAttempt \in 0..MinInterval
  BY <1>1, <1>2, <1>3 DEF Throttled, Older
<1>7. TypeOK'
  <2>1. fetchAge' \in 0..FetchTimeout
    BY <1>1, <1>2, <1>3
  <2>2. present' \in [Kids -> 0..Limit] /\ absent' \in [Kids -> 0..Limit]
    BY <1>1, <1>4
  <2> QED
    BY <1>1, <1>5, <1>6, <2>1, <2>2 DEF AuthInv, TypeOK
<1>8. Presence'
  BY <1>1 DEF Presence
<1>9. Installed'
  <2> SUFFICES ASSUME Fetched', sinceFetch' < KeyCache, NEW k \in Kids
               PROVE  IF keys[k] # None THEN absent'[k] <= sinceFetch' + FetchTimeout
                                        ELSE present'[k] <= sinceFetch' + FetchTimeout
    BY <1>1 DEF Installed
  <2>1. sinceFetch' = sinceFetch + 1 /\ Fetched /\ sinceFetch \in 0..KeyCache /\ sinceFetch < KeyCache
    BY <1>2, <1>5
  <2>2. IF keys[k] # None THEN absent[k] <= sinceFetch + FetchTimeout
                          ELSE present[k] <= sinceFetch + FetchTimeout
    BY <2>1 DEF AuthInv, Installed
  <2> QED
    BY <1>2, <1>4, <2>1, <2>2 DEF Limit
<1>10. Attempted' /\ Sources'
  <2>1. Attempted'
    BY <1>1, <1>2, <1>5, <1>6 DEF AuthInv, Attempted
  <2> QED
    BY <1>1, <2>1 DEF AuthInv, Sources
<1>11. Calls'
  <2>1. ASSUME NEW c \in Callers PROVE CallOK(c)'
    <3>1. /\ CallOK(c) /\ call'[c] = call[c] /\ call[c].at \notin {"reread", "serve"} /\ c # None
      BY <1>1, AuthenticationAssumptions DEF AuthInv, Calls
    <3>2. call[c].at = "receive" => fetchAge' = fetchAge + 1
      BY <1>1, <3>1 DEF CallOK
    <3>3. \A k \in Kids : /\ absent[k] <= fetchAge => absent'[k] <= fetchAge + 1
                          /\ present[k] <= fetchAge => present'[k] <= fetchAge + 1
      BY <1>2, <1>3, <1>4 DEF Limit
    <3> QED
      BY <1>1, <3>1, <3>2, <3>3 DEF CallOK, At, Kid
  <2> QED
    BY <1>1, <2>1 DEF AuthInv, Calls
<1> QED
  BY <1>7, <1>8, <1>9, <1>10, <1>11 DEF AuthInv

LEMMA AuthInvInit == Init => AuthInv
<1> SUFFICES ASSUME Init PROVE AuthInv
  OBVIOUS
<1>1. /\ published \in Documents /\ keys = NoKeys /\ sinceFetch = None /\ sinceAttempt = None
      /\ fetchMu = None /\ fetchAge = 0 /\ lastFailed = FALSE /\ call = [c \in Callers |-> Idle]
      /\ present = [k \in Kids |-> IF ParseJWKS(published)[k] # None THEN Limit ELSE 0]
      /\ absent = [k \in Kids |-> IF ParseJWKS(published)[k] # None THEN 0 ELSE Limit]
  BY DEF Init
<1>2. Limit \in Nat /\ FetchTimeout \in Nat
  BY AuthenticationAssumptions DEF Limit
<1>3. TypeOK
  <2>1. lastFailed \in BOOLEAN /\ fetchMu \in Callers \cup {None}
    BY <1>1, Zenon
  <2> QED
    BY <1>1, <1>2, <2>1 DEF TypeOK
<1>4. Presence /\ Installed /\ Attempted /\ Sources
  BY <1>1 DEF Presence, Installed, Attempted, Sources, NoKeys, Fetched, Throttled
<1>5. Calls
  <2>1. Idle \in CallRecord /\ Idle.at = "idle"
    BY DEF CallRecord, Idle, Asked, Steps
  <2> QED
    BY <1>1, <2>1 DEF Calls, CallOK, At
<1> QED
  BY <1>3, <1>4, <1>5 DEF AuthInv

LEMMA AuthInvStep == AuthInv /\ [Next]_vars => AuthInv'
<1> SUFFICES ASSUME AuthInv, [Next]_vars PROVE AuthInv'
  OBVIOUS
<1>1. ASSUME NEW c \in Callers, Prime(c) \/ \E req \in Requests : Arrive(c, req) PROVE AuthInv'
  BY <1>1, StartStep
<1>2. ASSUME NEW c \in Callers, Serve(c) PROVE AuthInv'
  BY <1>2, EndStep DEF Serve
<1>3. ASSUME NEW c \in Callers, Step(c) PROVE AuthInv'
  BY <1>2, <1>3, LookStep, BeginStep, FetchStep, FetchFailsStep, InstallStep, RereadStep DEF Step
<1>4. ASSUME NEW doc \in Documents, Publish(doc) PROVE AuthInv'
  BY <1>4, PublishStep
<1>5. CASE Tick
  BY <1>5, TickStep
<1>6. CASE UNCHANGED vars
  BY <1>6 DEF vars, cache, provider, AuthInv, TypeOK, Calls, CallOK, At, Kid, Presence, Installed, Attempted,
             Sources, Fetched, Throttled
<1> QED
  BY <1>1, <1>3, <1>4, <1>5, <1>6 DEF Next

LEMMA AuthInvariant == Spec => []AuthInv
BY AuthInvInit, AuthInvStep, PTL DEF Spec

-----------------------------------------------------------------------------
(* Who decides, and when. *)

\* A step of one request leaves the others where they are.
LEMMA OwnStep ==
  ASSUME AuthInv, NEW d \in Callers, Prime(d) \/ Step(d) \/ \E req \in Requests : Arrive(d, req),
         NEW c \in Callers, c # d
  PROVE  call'[c] = call[c]
<1>1. ASSUME NEW a, NEW req, Go(d, a, req) PROVE call'[c] = call[c]
  BY <1>1 DEF Go, AuthInv, Calls
<1>2. CASE End(d)
  BY <1>2 DEF End, AuthInv, Calls
<1>3. CASE Prime(d)
  BY <1>3 DEF Prime, AuthInv, Calls
<1>4. ASSUME NEW req \in Requests, Arrive(d, req) PROVE call'[c] = call[c]
  BY <1>1, <1>4 DEF Arrive
<1>5. ASSUME NEW req, NEW key, Authenticate(d, req, key) PROVE call'[c] = call[c]
  BY <1>1, <1>2, <1>5, AuthenticateEffect
<1>6. CASE Look(d)
  BY <1>1, <1>2, <1>5, <1>6, LookEffect
<1>7. CASE Begin(d) \/ FetchFails(d) \/ Install(d)
  BY <1>1, <1>7 DEF Begin, FetchFails, Install, Move
<1>8. CASE Fetch(d)
  BY <1>8 DEF Fetch, AuthInv, Calls
<1>9. CASE Reread(d)
  BY <1>2, <1>5, <1>9 DEF Reread
<1>10. CASE Serve(d)
  BY <1>2, <1>10 DEF Serve
<1> QED
  BY <1>3, <1>4, <1>6, <1>7, <1>8, <1>9, <1>10 DEF Step

\* A request is decided at its first look, with a key of a fresh set or while refreshing
\* is throttled, or after a refresh, when the set is recent or a refresh has failed.
LEMMA DecidedWhen ==
  ASSUME AuthInv, Next, NEW c \in Callers, Decides(c)
  PROVE  /\ Kid(c) \in Kids
         /\ \/ keys[Kid(c)] # None /\ ~Stale
            \/ Throttled
            \/ lastFailed
            \/ Fetched /\ sinceFetch < MinInterval
<1>1. /\ call[c].at \in {"look", "reread"} /\ call[c].req.kind = "api"
      /\ call'[c].at \in {"idle", "serve"}
  BY DEF Decides
<1>2. CallOK(c) /\ call[c].req \in Asked
  BY DEF AuthInv, Calls, CallRecord
<1>3. Kid(c) \in Kids
  BY <1>1, <1>2 DEF CallOK, At
<1>4. CASE At(c, "reread")
  BY <1>2, <1>3, <1>4 DEF CallOK
<1>5. CASE Look(c)
  <2>1. ~Go(c, "wait", call[c].req)
    BY <1>1, <1>2, GoEffect DEF AuthInv, Calls, Steps
  <2> QED
    BY <1>1, <1>3, <1>5, <2>1, LookEffect
<1>6. CASE At(c, "look") /\ ~Look(c)
  <2>1. ~(Prime(c) \/ Step(c) \/ \E req \in Requests : Arrive(c, req))
    <3>1. ~Prime(c)
      BY <1>6 DEF Prime, At, Idle
    <3> QED
      BY <1>6, <3>1 DEF Step, Arrive, Begin, Fetch, FetchFails, Install, Reread, Serve, At
  <2>2. call'[c] = call[c]
    BY <2>1, OwnStep DEF Next, Publish, Tick
  <2> QED
    BY <1>1, <1>6, <2>2 DEF At
<1> QED
  BY <1>1, <1>4, <1>5, <1>6 DEF At

\* While no refresh is under way and the last one succeeded, a request is decided on a set
\* that is fresh, and if its key is not in it, recent.
LEMMA DecidedOn ==
  ASSUME AuthInv, Next, NEW c \in Callers, Decides(c), ~lastFailed, fetchMu = None
  PROVE  /\ Kid(c) \in Kids /\ Fetched /\ sinceFetch \in Nat /\ sinceFetch < KeyCache
         /\ keys[Kid(c)] = None => sinceFetch < MinInterval
<1>1. /\ Fetched => sinceFetch \in Nat
      /\ Throttled => sinceAttempt \in Nat /\ sinceAttempt < MinInterval
      /\ MinInterval \in Nat /\ KeyCache \in Nat /\ MinInterval <= KeyCache
  BY AuthenticationAssumptions DEF AuthInv, TypeOK, Fetched, Throttled
<1>2. CASE keys[Kid(c)] # None /\ ~Stale
  BY <1>1, <1>2, DecidedWhen DEF Stale
<1>3. CASE Throttled
  <2>1. Fetched /\ sinceFetch <= sinceAttempt
    BY <1>3 DEF AuthInv, Attempted
  <2> QED
    BY <1>1, <1>3, <2>1, DecidedWhen
<1>4. CASE Fetched /\ sinceFetch < MinInterval
  BY <1>1, <1>4, DecidedWhen
<1> QED
  BY <1>2, <1>3, <1>4, DecidedWhen

-----------------------------------------------------------------------------
(* Theorems. *)

\* Every age stays within the limit past which the code no longer tells it apart, and the
\* lock is held by a request or free.
THEOREM AuthenticationTypeCorrect == Spec => []TypeOK
<1>1. AuthInv => TypeOK
  BY DEF AuthInv
<1> QED
  BY <1>1, AuthInvariant, PTL

\* Whatever keys rotate while requests are decided, a handler runs only for a token signed
\* with a key some published set offered for signing, under the token's algorithm
\* (verify, parseJWKS).
THEOREM GenuineCorrect == Spec => []ServedGenuine
<1>1. AuthInv => ServedGenuine
  BY DEF AuthInv, Calls, CallOK, ServedGenuine, Genuine
<1> QED
  BY <1>1, AuthInvariant, PTL

\* Two refreshes start within RefreshMinInterval of each other only if the first failed,
\* however many requests wait for the lock (refresh's second look under fetchMu).
THEOREM ApartCorrect == Spec => RefreshesApart
<1>1. AuthInv /\ [Next]_vars =>
        [fetchMu' # None /\ fetchMu' # fetchMu => lastFailed \/ sinceAttempt \in {None, MinInterval}]_vars
  <2> SUFFICES ASSUME AuthInv, Next, fetchMu' # None, fetchMu' # fetchMu, ~lastFailed
               PROVE  sinceAttempt \in {None, MinInterval}
    OBVIOUS
  <2>1. ASSUME NEW c \in Callers, Begin(c) PROVE sinceAttempt \in {None, MinInterval}
    <3>1. fetchMu = None /\ ~(Fetched /\ sinceFetch < MinInterval)
      BY <2>1 DEF Begin, cache
    <3>2. /\ sinceAttempt \in {None} \cup 0..MinInterval /\ sinceFetch \in {None} \cup 0..KeyCache
          /\ MinInterval \in Nat /\ KeyCache \in Nat
      BY AuthenticationAssumptions DEF AuthInv, TypeOK
    <3>3. ~Throttled
      BY <3>1, <3>2 DEF AuthInv, Attempted, Throttled, Fetched
    <3> QED
      BY <3>2, <3>3 DEF Throttled
  <2>2. ASSUME NEW c \in Callers, Look(c) \/ Fetch(c) \/ FetchFails(c) \/ Install(c) \/ Reread(c) \/ Serve(c)
        PROVE  FALSE
    BY <2>2 DEF Look, Fetch, FetchFails, Install, Reread, Serve, cache
  <2>3. ASSUME NEW c \in Callers, Prime(c) \/ \E req \in Requests : Arrive(c, req) PROVE FALSE
    BY <2>3 DEF Prime, Arrive, cache
  <2>4. ASSUME Tick \/ \E doc \in Documents : Publish(doc) PROVE FALSE
    BY <2>4 DEF Tick, Publish, cache
  <2> QED
    BY <2>1, <2>2, <2>3, <2>4 DEF Next, Step
<1> QED
  BY <1>1, AuthInvariant, PTL DEF Spec, RefreshesApart

\* A key withdrawn for longer than the cache time and a fetch is used only while a refresh
\* is under way or after one failed (keyFor).
THEOREM WithdrawnCorrect == Spec => WithdrawnKeyGoes
<1>1. AuthInv /\ [Next]_vars =>
        [\A c \in Callers : Uses(c) /\ absent[Kid(c)] >= KeyCache + FetchTimeout =>
           lastFailed \/ fetchMu # None]_vars
  <2> SUFFICES ASSUME AuthInv, Next, NEW c \in Callers, Uses(c), ~lastFailed, fetchMu = None
               PROVE  ~(absent[Kid(c)] >= KeyCache + FetchTimeout)
    OBVIOUS
  <2>1. Decides(c) /\ keys[Kid(c)] # None
    BY DEF Uses
  <2>2. Kid(c) \in Kids /\ Fetched /\ sinceFetch \in Nat /\ sinceFetch < KeyCache
    BY <2>1, DecidedOn
  <2>3. absent[Kid(c)] <= sinceFetch + FetchTimeout
    BY <2>1, <2>2 DEF AuthInv, Installed
  <2>4. absent[Kid(c)] \in Nat /\ KeyCache \in Nat /\ FetchTimeout \in Nat
    BY <2>2, AuthenticationAssumptions DEF AuthInv, TypeOK, Limit
  <2> QED
    BY <2>2, <2>3, <2>4
<1> QED
  BY <1>1, AuthInvariant, PTL DEF Spec, WithdrawnKeyGoes

\* A key published for longer than RefreshMinInterval and a fetch is called unknown only
\* while a refresh is under way or after one failed (keyFor).
THEOREM KnownCorrect == Spec => PublishedKeyKnown
<1>1. AuthInv /\ [Next]_vars =>
        [\A c \in Callers : Refuses(c) /\ present[Kid(c)] >= MinInterval + FetchTimeout =>
           lastFailed \/ fetchMu # None]_vars
  <2> SUFFICES ASSUME AuthInv, Next, NEW c \in Callers, Refuses(c), ~lastFailed, fetchMu = None
               PROVE  ~(present[Kid(c)] >= MinInterval + FetchTimeout)
    OBVIOUS
  <2>1. Decides(c) /\ keys[Kid(c)] = None
    BY DEF Refuses
  <2>2. /\ Kid(c) \in Kids /\ Fetched /\ sinceFetch \in Nat /\ sinceFetch < KeyCache
        /\ sinceFetch < MinInterval
    BY <2>1, DecidedOn
  <2>3. present[Kid(c)] <= sinceFetch + FetchTimeout
    BY <2>1, <2>2 DEF AuthInv, Installed
  <2>4. present[Kid(c)] \in Nat /\ MinInterval \in Nat /\ FetchTimeout \in Nat
    BY <2>2, AuthenticationAssumptions DEF AuthInv, TypeOK, Limit
  <2> QED
    BY <2>2, <2>3, <2>4
<1> QED
  BY <1>1, AuthInvariant, PTL DEF Spec, PublishedKeyKnown

=============================================================================
