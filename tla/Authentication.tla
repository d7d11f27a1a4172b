--------------------------- MODULE Authentication ---------------------------
(***************************************************************************)
(* Bearer-token authentication of API requests (internal/conductor/oidc,   *)
(* the middleware of internal/conductor/api): the cache of the provider's  *)
(* signing keys, refreshed by the requests themselves, and what a request  *)
(* with a given token gets.                                                *)
(*                                                                         *)
(* Requests run concurrently.  fetchMu is held over a whole refresh; mu,   *)
(* held over a few assignments only, makes those atomic.  Every duration   *)
(* the code measures is an age that stops growing where the code no longer *)
(* tells it apart, so time never ends and needs no bound.                  *)
(***************************************************************************)
EXTENDS Integers, Sequences, FiniteSets

CONSTANTS
  Callers,           \* concurrent requests
  Requests,          \* what may be asked: a token and a method, or the endpoints
  Documents,         \* key sets the provider may publish, each a sequence of JWKs
  Kids,              \* key identifiers
  None,
  MinInterval,       \* RefreshMinInterval, 1 minute
  KeyCache,          \* the configured cache time, at least 1 minute
  FetchTimeout,      \* FetchTimeout, 10 seconds
  MaxKeys            \* MaxKeys, 64

ASSUME AuthenticationAssumptions ==
  /\ None \notin Callers \cup Nat /\ MaxKeys \in Nat
  /\ \A req \in Requests : req.kind = "api" => req.token.kid \in Kids
  /\ MinInterval \in Nat \ {0} /\ KeyCache \in Nat /\ FetchTimeout \in Nat
  /\ MinInterval <= KeyCache          \* Config.validate: MinOIDCKeyCacheSeconds is 60

VARIABLES
  published,     \* the key set the provider serves
  keys,          \* cached keys: kid -> key or None
  sinceFetch,    \* age of fetchedAt, None before the first
  sinceAttempt,  \* age of lastAttempt, None before the first
  fetchMu,       \* the request that refreshes
  fetchAge,      \* how long it has been fetching
  call,          \* per caller: where its request is
  lastFailed,    \* history: the last refresh that ended failed
  present,       \* history: how long each key has been published
  absent         \* history: how long each key has not been published

cache == <<keys, sinceFetch, sinceAttempt, fetchMu, fetchAge, lastFailed>>
provider == <<published, present, absent>>
vars == <<cache, provider, call>>

---------------------------------------------------------------------------
(* Keys. *)

RSA == {"RS256", "PS256"}
EC == {"ES256"}
AlgsOf(kty) == IF kty = "RSA" THEN RSA ELSE IF kty = "EC" THEN EC ELSE {}

\* The keys parseJWKS considers: of a known type, for signing, with an identifier,
\* for no algorithm in particular or one that is accepted.
Considered(jwk) ==
  /\ jwk.kid # "" /\ jwk.use \in {"", "sig"} /\ AlgsOf(jwk.kty) # {}
  /\ jwk.alg \in {""} \cup RSA \cup EC

NoKeys == [k \in Kids |-> None]

\* parseJWKS refuses the whole set when a key it considers is malformed, is published
\* for an algorithm of the other type, or shares its identifier with another.
ParseJWKS(doc) ==
  LET used == {i \in DOMAIN doc : Considered(doc[i])}
      bad == \/ Len(doc) > MaxKeys
             \/ \E i \in used : ~doc[i].wellFormed \/ doc[i].alg \notin {""} \cup AlgsOf(doc[i].kty)
             \/ \E i, j \in used : i # j /\ doc[i].kid = doc[j].kid
  IN IF bad THEN NoKeys
     ELSE [k \in Kids |->
             IF \E i \in used : doc[i].kid = k
               THEN LET jwk == doc[CHOOSE i \in used : doc[i].kid = k]
                    IN [material |-> jwk.material, kty |-> jwk.kty, alg |-> jwk.alg]
               ELSE None]

Usable(doc) == ParseJWKS(doc) # NoKeys

\* Faulty variant of Verifies: any algorithm of the key's type will do.
VerifiesAnyAlg(key, token) ==
  /\ token.alg \in AlgsOf(key.kty)
  /\ token.signer = key.material
  /\ token.claims = "valid"

\* verify: the key is published for the token's algorithm or for none, is of its type,
\* made the signature, and the registered claims are right for this API and this time.
Verifies(key, token) ==
  /\ key.alg \in {"", token.alg}
  /\ token.alg \in AlgsOf(key.kty)
  /\ token.signer = key.material
  /\ token.claims = "valid"

\* role: admin wins over viewer.
Role(token) ==
  IF "admin" \in token.roles THEN "admin" ELSE IF "viewer" \in token.roles THEN "viewer" ELSE "none"

---------------------------------------------------------------------------
(* Requests. *)

Idle == [at |-> "idle", req |-> None, doc |-> <<>>]

Limit == KeyCache + FetchTimeout
Older(age, limit) == IF age = None \/ age >= limit THEN age ELSE age + 1

Init ==
  /\ published \in {d \in Documents : Usable(d)}
  /\ keys = NoKeys /\ sinceFetch = None /\ sinceAttempt = None
  /\ fetchMu = None /\ fetchAge = 0 /\ lastFailed = FALSE
  /\ call = [c \in Callers |-> Idle]
  /\ present = [k \in Kids |-> IF ParseJWKS(published)[k] # None THEN Limit ELSE 0]
  /\ absent = [k \in Kids |-> IF ParseJWKS(published)[k] # None THEN 0 ELSE Limit]

At(c, a) == call[c].at = a
Go(c, a, req) == call' = [call EXCEPT ![c] = [Idle EXCEPT !.at = a, !.req = req]]
Move(c, a) == Go(c, a, call[c].req)
\* The request is answered; what with is said where it is.
End(c) == call' = [call EXCEPT ![c] = Idle]

Throttled == sinceAttempt # None /\ sinceAttempt < MinInterval
Fetched == sinceFetch # None
Stale == Fetched => sinceFetch >= KeyCache

\* Prime, once, before any request is served.
Prime(c) ==
  /\ sinceAttempt = None /\ \A d \in Callers : call[d] = Idle
  /\ call' = [call EXCEPT ![c] = [Idle EXCEPT !.at = "wait", !.req = [kind |-> "prime"]]]
  /\ UNCHANGED <<cache, provider>>

Serving == sinceAttempt # None /\ \A d \in Callers : ~At(d, "idle") => call[d].req.kind # "prime"

\* The token verifies and its principal claim is a usable name.
Accepts(key, token) == Verifies(key, token) /\ token.principal

\* Authenticate with the key found, and the middleware: 401 unless the token is accepted,
\* 403 without a role or for a viewer's write; otherwise the handler runs.
Authenticate(c, req, key) ==
  LET ok == Accepts(key, req.token)
      role == Role(req.token)
      read == req.method \in {"GET", "HEAD"}
  IN \/ ~ok /\ End(c)
     \/ ok /\ role = "none" /\ End(c)
     \/ ok /\ role = "viewer" /\ ~read /\ End(c)
     \/ ok /\ (role = "admin" \/ (role = "viewer" /\ read)) /\ Go(c, "serve", req)

\* Faulty variant of KeyFor: a key that is known is never refreshed.
KeyForKnown(c, req) ==
  LET key == keys[req.token.kid]
  IN \/ key # None /\ Authenticate(c, req, key)
     \/ key = None /\ ~Throttled /\ Go(c, "wait", req)
     \/ key = None /\ Throttled /\ End(c)

\* Faulty variant of KeyFor: an unknown key waits for the cache to age.
KeyForAged(c, req) ==
  LET key == keys[req.token.kid]
  IN \/ key # None /\ (~Stale \/ Throttled) /\ Authenticate(c, req, key)
     \/ Stale /\ ~Throttled /\ Go(c, "wait", req)
     \/ key = None /\ (Throttled \/ ~Stale) /\ End(c)

\* keyFor up to its refresh: a known key of a fresh set, or of a stale one while
\* refreshing is throttled, is used; an unknown one while throttled is refused (401).
KeyFor(c, req) ==
  LET key == keys[req.token.kid]
  IN \/ key # None /\ (~Stale \/ Throttled) /\ Authenticate(c, req, key)
     \/ (key = None \/ Stale) /\ ~Throttled /\ Go(c, "wait", req)
     \/ key = None /\ Throttled /\ End(c)

\* Endpoints, which the sign-in page asks for, up to its refresh: answered, or 503.
Endpoints(c, req) ==
  \/ (Fetched \/ Throttled) /\ End(c)
  \/ ~Fetched /\ ~Throttled /\ Go(c, "wait", req)

\* A request arrives; bearerToken and splitToken take its token apart or refuse it (401).
Arrive(c, req) ==
  /\ At(c, "idle") /\ Serving
  /\ req.kind = "api" => req.token.readable
  /\ Go(c, "look", req)
  /\ UNCHANGED <<cache, provider>>

Look(c) ==
  /\ At(c, "look")
  /\ IF call[c].req.kind = "api" THEN KeyFor(c, call[c].req) ELSE Endpoints(c, call[c].req)
  /\ UNCHANGED <<cache, provider>>

---------------------------------------------------------------------------
(* refresh *)

\* Faulty variant of Begin: what another refresh brought meanwhile is not looked at.
BeginAgain(c) ==
  /\ At(c, "wait") /\ fetchMu = None
  /\ fetchMu' = c /\ sinceAttempt' = 0 /\ fetchAge' = 0 /\ Move(c, "fetch")
  /\ UNCHANGED <<keys, sinceFetch, lastFailed, provider>>

\* fetchMu is taken; another request may have refreshed while this one waited.
Begin(c) ==
  LET recent == Fetched /\ sinceFetch < MinInterval
  IN /\ At(c, "wait") /\ fetchMu = None
     /\ \/ recent /\ Move(c, "reread") /\ UNCHANGED cache
        \/ /\ ~recent /\ fetchMu' = c /\ sinceAttempt' = 0 /\ fetchAge' = 0 /\ Move(c, "fetch")
           /\ UNCHANGED <<keys, sinceFetch, lastFailed>>
     /\ UNCHANGED provider

\* The provider answers with the set it publishes at that moment.
Fetch(c) ==
  /\ At(c, "fetch")
  /\ call' = [call EXCEPT ![c].at = "receive", ![c].doc = published]
  /\ UNCHANGED <<cache, provider>>

\* Faulty variant of FetchFails: the error path returns without unlocking.
FetchFailsLocked(c) ==
  /\ At(c, "fetch") \/ At(c, "receive")
  /\ lastFailed' = TRUE /\ Move(c, "reread")
  /\ UNCHANGED <<keys, sinceFetch, sinceAttempt, fetchMu, fetchAge, provider>>

\* No answer, a wrong one, the timeout, or the request that fetches is abandoned by
\* its client: the old set stays.
FetchFails(c) ==
  /\ At(c, "fetch") \/ At(c, "receive")
  /\ lastFailed' = TRUE /\ fetchMu' = None /\ fetchAge' = 0 /\ Move(c, "reread")
  /\ UNCHANGED <<keys, sinceFetch, sinceAttempt, provider>>

Install(c) ==
  /\ At(c, "receive") /\ Usable(call[c].doc)
  /\ keys' = ParseJWKS(call[c].doc) /\ sinceFetch' = 0 /\ lastFailed' = FALSE
  /\ fetchMu' = None /\ fetchAge' = 0 /\ Move(c, "reread")
  /\ UNCHANGED <<sinceAttempt, provider>>

\* After the refresh: keyFor looks again, whatever came of it, and uses or refuses; Prime
\* and Endpoints return what refresh returned.
Reread(c) ==
  /\ At(c, "reread")
  /\ \/ call[c].req.kind # "api" /\ End(c)
     \/ /\ call[c].req.kind = "api"
        /\ LET key == keys[call[c].req.token.kid]
           IN \/ key # None /\ Authenticate(c, call[c].req, key)
              \/ key = None /\ End(c)
  /\ UNCHANGED <<cache, provider>>

\* The handler answers a request it was given.
Serve(c) == At(c, "serve") /\ End(c) /\ UNCHANGED <<cache, provider>>

---------------------------------------------------------------------------
(* The provider and time. *)

Publish(doc) ==
  /\ published' = doc
  /\ LET now == ParseJWKS(doc)
         was == ParseJWKS(published)
     IN /\ present' = [k \in Kids |-> IF now[k] # None /\ was[k] = now[k] THEN present[k] ELSE 0]
        /\ absent' = [k \in Kids |-> IF now[k] = None /\ was[k] = None THEN absent[k] ELSE 0]
  /\ UNCHANGED <<cache, call>>

\* Time passes while requests wait, for the lock or for the provider, and no request
\* is between two steps that do neither; a fetch is cut off at its timeout.
Tick ==
  /\ \A c \in Callers : call[c].at \in {"idle", "wait", "fetch", "receive"}
  /\ fetchMu # None => fetchAge < FetchTimeout
  /\ fetchAge' = IF fetchMu = None THEN 0 ELSE fetchAge + 1
  /\ sinceFetch' = Older(sinceFetch, KeyCache) /\ sinceAttempt' = Older(sinceAttempt, MinInterval)
  /\ LET now == ParseJWKS(published)
     IN /\ present' = [k \in Kids |-> IF now[k] # None THEN Older(present[k], Limit) ELSE 0]
        /\ absent' = [k \in Kids |-> IF now[k] = None THEN Older(absent[k], Limit) ELSE 0]
  /\ UNCHANGED <<keys, fetchMu, lastFailed, published, call>>

Step(c) ==
  Look(c) \/ Begin(c) \/ Fetch(c) \/ FetchFails(c) \/ Install(c) \/ Reread(c) \/ Serve(c)

Next ==
  \/ \E c \in Callers : Prime(c) \/ Step(c) \/ \E req \in Requests : Arrive(c, req)
  \/ \E doc \in Documents : Publish(doc)
  \/ Tick

Spec == Init /\ [][Next]_vars

\* A goroutine that can move does; sync.Mutex hands the lock to a waiter in the end
\* (its starvation mode), although others keep taking it; a fetch ends by its timeout.
Fairness == \A c \in Callers : WF_vars(Step(c)) /\ SF_vars(Begin(c))
FairSpec == Spec /\ Fairness

---------------------------------------------------------------------------
(* Properties. *)

TypeOK ==
  /\ published \in Documents /\ lastFailed \in BOOLEAN
  /\ sinceFetch \in {None} \cup 0..KeyCache /\ sinceAttempt \in {None} \cup 0..MinInterval
  /\ fetchMu \in Callers \cup {None} /\ fetchAge \in 0..FetchTimeout
  /\ present \in [Kids -> 0..Limit] /\ absent \in [Kids -> 0..Limit]

\* keyFor decides, at its first look or after a refresh, with the key or without.
Kid(c) == call[c].req.token.kid
Decides(c) ==
  /\ call[c].at \in {"look", "reread"} /\ call[c].req.kind = "api"
  /\ call'[c].at \in {"idle", "serve"}
Uses(c) == Decides(c) /\ keys[Kid(c)] # None
Refuses(c) == Decides(c) /\ keys[Kid(c)] = None

\* A key the provider has withdrawn for the cache time and the time of a fetch is
\* still used only while another request is refreshing, or after a refresh failed.
WithdrawnKeyGoes ==
  [][\A c \in Callers : Uses(c) /\ absent[Kid(c)] >= KeyCache + FetchTimeout =>
       lastFailed \/ fetchMu # None]_vars

\* A key rotation locks no one out for the cache time: a key published for
\* RefreshMinInterval and the time of a fetch is called unknown only while another
\* request is refreshing, or after a refresh failed.
PublishedKeyKnown ==
  [][\A c \in Callers : Refuses(c) /\ present[Kid(c)] >= MinInterval + FetchTimeout =>
       lastFailed \/ fetchMu # None]_vars

\* However many requests name unknown keys, two refreshes start within
\* RefreshMinInterval of each other only if the first one failed.
RefreshesApart ==
  [][fetchMu' # None /\ fetchMu' # fetchMu =>
       lastFailed \/ sinceAttempt \in {None, MinInterval}]_vars

\* A request reaches its handler only for a token signed with a key that some
\* published set offered for signing, under the token's algorithm, whichever keys
\* were rotated in or out while it was decided.
ServedGenuine ==
  \A c \in Callers :
    At(c, "serve") =>
      LET token == call[c].req.token
      IN /\ token.claims = "valid"
         /\ \E doc \in Documents : \E i \in DOMAIN doc :
              /\ doc[i].kid = token.kid /\ doc[i].material = token.signer
              /\ doc[i].use # "enc" /\ doc[i].alg \in {"", token.alg}

\* Every request is answered: no failure leaves fetchMu locked.
Answered == \A c \in Callers : ~At(c, "idle") ~> At(c, "idle")
=============================================================================
