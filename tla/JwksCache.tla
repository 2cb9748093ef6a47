----------------------------- MODULE JwksCache ------------------------------
(***************************************************************************)
(* JwksCacheService of nestjs-auth: the cache of Keycloak's signing keys   *)
(* that offline token validation reads.                                    *)
(*                                                                         *)
(* Concurrency is Node's: code between two awaits is one step, and the     *)
(* continuations of a settled promise are microtasks, which all run before *)
(* the next I/O event.  Other microtasks, new calls of GetKey among them,  *)
(* may run between two continuations, and the wall clock may advance at    *)
(* any point.                                                              *)
(*                                                                         *)
(* A key is named by its kid; its PEM text is a function of the key and is *)
(* left out.  The order of the keys in a response is left open.            *)
(***************************************************************************)
EXTENDS Naturals, FiniteSets

CONSTANTS
  Callers,        \* concurrent calls of GetKey
  Kids,           \* key identifiers
  FetchIds,       \* HTTP requests that may be outstanding together
  JwksCacheTtl,   \* jwksCacheTtlMs
  ValidationMode, \* options.validationMode: "online" or "offline"
  MaxTime,        \* bound on the clock
  Null            \* null, in fetchPromise and in the history of a key

ASSUME TtlAssumption == JwksCacheTtl \in Nat
ASSUME MaxTimeAssumption == MaxTime \in Nat
ASSUME ModeAssumption == ValidationMode \in {"online", "offline"}
ASSUME NullAssumption == Null \notin FetchIds /\ Null \notin Nat

VARIABLES
  now,            \* Date.now()
  published,      \* the keys Keycloak publishes at this moment
  service,        \* "starting" | "booting" | "up" | "failed"
  keyCache,       \* KeyCache: the kids with a cached key
  cacheExpiresAt, \* CacheExpiresAt
  fetchPromise,   \* FetchPromise: the fetch it stands for, or Null
  fetch,          \* fetch[f]: the progress of one DoFetch
  pc,             \* pc[c]: where caller c's GetKey is
  wanted,         \* wanted[c]: the kid c's last GetKey asked for
  awaits,         \* awaits[c]: the fetch c awaits, or Null
  result,         \* result[c]: how c's last GetKey ended
  receivedAt,     \* history: when each key was last put into the cache
  delivered       \* history: did the fetch c awaited bring the wanted key?

fetchVars  == <<keyCache, cacheExpiresAt, fetchPromise, fetch, receivedAt>>
callerVars == <<pc, wanted, awaits, result, delivered>>
vars == <<now, published, service, fetchVars, callerVars>>

-----------------------------------------------------------------------------

Phases  == {"idle", "sent", "answered", "settled"}
Answers == {"none", "keys", "malformed", "failed"}
IdleFetch == [phase |-> "idle", answer |-> "none", keys |-> {}]

Init ==
  /\ now = 0
  /\ published \in SUBSET Kids
  /\ service = "starting"
  /\ keyCache = {}
  /\ cacheExpiresAt = 0
  /\ fetchPromise = Null
  /\ fetch = [f \in FetchIds |-> IdleFetch]
  /\ pc = [c \in Callers |-> "idle"]
  /\ wanted \in [Callers -> Kids]
  /\ awaits = [c \in Callers |-> Null]
  /\ result = [c \in Callers |-> "idle"]
  /\ receivedAt = [k \in Kids |-> Null]
  /\ delivered = [c \in Callers |-> FALSE]

\* Mutant of Fresh: the expiry time is not looked at.
FreshForEver(k) == k \in keyCache

\* The test GetKey makes before and after its re-fetch.
Fresh(k) == k \in keyCache /\ now < cacheExpiresAt

\* No continuation is waiting to run: the next I/O event may be handled.
Drained ==
  /\ \A f \in FetchIds : fetch[f].phase # "settled"
  /\ \A c \in Callers : pc[c] # "resumed"

\* Mutant of StartFetch: the promise in flight is not looked at.
StartFetchUnguarded(f) ==
  /\ fetch[f].phase = "idle"
  /\ fetch' = [fetch EXCEPT ![f] = [IdleFetch EXCEPT !.phase = "sent"]]
  /\ fetchPromise' = f

\* The first half of FetchJwks when nothing is in flight: DoFetch sends its
\* request and the promise is remembered.
StartFetch(f) ==
  /\ fetchPromise = Null
  /\ fetch[f].phase = "idle"
  /\ fetch' = [fetch EXCEPT ![f] = [IdleFetch EXCEPT !.phase = "sent"]]
  /\ fetchPromise' = f

-----------------------------------------------------------------------------
(* Module start                                                            *)

\* onModuleInit: only offline mode fetches before the application listens.
OnModuleInit ==
  /\ service = "starting"
  /\ IF ValidationMode = "offline"
     THEN /\ \E f \in FetchIds : StartFetch(f)
          /\ service' = "booting"
     ELSE /\ service' = "up"
          /\ UNCHANGED <<fetch, fetchPromise>>
  /\ UNCHANGED <<now, published, keyCache, cacheExpiresAt, receivedAt, callerVars>>

-----------------------------------------------------------------------------
(* GetKey                                                                  *)

\* The key is cached and the cache has not expired: no await at all.
GetKeyHit(c, k) ==
  /\ service = "up"
  /\ pc[c] = "idle"
  /\ Fresh(k)
  /\ wanted' = [wanted EXCEPT ![c] = k]
  /\ result' = [result EXCEPT ![c] = "found"]
  /\ UNCHANGED <<now, published, service, fetchVars, pc, awaits, delivered>>

\* A miss awaits a fetch: the one in flight ...
AwaitFetch(c, k, f) ==
  /\ pc' = [pc EXCEPT ![c] = "awaiting"]
  /\ wanted' = [wanted EXCEPT ![c] = k]
  /\ awaits' = [awaits EXCEPT ![c] = f]
  /\ delivered' = [delivered EXCEPT ![c] = FALSE]
  /\ UNCHANGED result

GetKeyJoin(c, k) ==
  /\ service = "up"
  /\ pc[c] = "idle"
  /\ ~ Fresh(k)
  /\ fetchPromise # Null
  /\ AwaitFetch(c, k, fetchPromise)
  /\ UNCHANGED <<now, published, service, fetchVars>>

\* Mutant of GetKeyFetch: the cache is cleared when the request is sent.
GetKeyFetchClears(c, k) ==
  /\ service = "up"
  /\ pc[c] = "idle"
  /\ ~ Fresh(k)
  /\ \E f \in FetchIds : StartFetch(f) /\ AwaitFetch(c, k, f)
  /\ keyCache' = {}
  /\ UNCHANGED <<now, published, service, cacheExpiresAt, receivedAt>>

\* ... or one of its own.
GetKeyFetch(c, k) ==
  /\ service = "up"
  /\ pc[c] = "idle"
  /\ ~ Fresh(k)
  /\ \E f \in FetchIds : StartFetch(f) /\ AwaitFetch(c, k, f)
  /\ UNCHANGED <<now, published, service, keyCache, cacheExpiresAt, receivedAt>>

\* The caller continues after its await and tests the cache once more.
Recheck(c) ==
  /\ pc[c] = "resumed"
  /\ pc' = [pc EXCEPT ![c] = "idle"]
  /\ awaits' = [awaits EXCEPT ![c] = Null]
  /\ result' = [result EXCEPT ![c] = IF Fresh(wanted[c]) THEN "found" ELSE "unauthorized"]
  /\ UNCHANGED <<now, published, service, fetchVars, wanted, delivered>>

-----------------------------------------------------------------------------
(* DoFetch                                                                 *)

\* The response is thrown away before the cache is touched: a network error,
\* a status other than 2xx, a body that is not JSON or has no array of keys.
FetchFails(f) ==
  /\ fetch[f].answer = "failed"
  /\ UNCHANGED <<keyCache, cacheExpiresAt, receivedAt>>

\* Put the converted keys into an emptied cache.
Refill(keys) ==
  /\ keyCache' = keys
  /\ receivedAt' = [k \in Kids |-> IF k \in keys THEN now ELSE receivedAt[k]]

FetchStores(f) ==
  /\ fetch[f].answer = "keys"
  /\ Refill(fetch[f].keys)
  /\ cacheExpiresAt' = now + JwksCacheTtl

\* createPublicKey throws at a malformed key: the cache is already emptied and
\* holds the keys converted before it, and the expiry time is the old one.
FetchStoresSome(f) ==
  /\ fetch[f].answer = "malformed"
  /\ \E converted \in SUBSET fetch[f].keys : Refill(converted)
  /\ UNCHANGED cacheExpiresAt

\* Mutant of FetchSettles: a failed response settles nothing.
FetchSettlesStored(f) ==
  /\ fetch[f].phase = "answered"
  /\ Drained
  /\ FetchStores(f) \/ FetchStoresSome(f)
  /\ fetch' = [fetch EXCEPT ![f].phase = "settled"]
  /\ UNCHANGED <<now, published, service, fetchPromise, callerVars>>

FetchSettles(f) ==
  /\ fetch[f].phase = "answered"
  /\ Drained
  /\ FetchFails(f) \/ FetchStores(f) \/ FetchStoresSome(f)
  /\ fetch' = [fetch EXCEPT ![f].phase = "settled"]
  /\ UNCHANGED <<now, published, service, fetchPromise, callerVars>>

Waiters(f) == {c \in Callers : pc[c] = "awaiting" /\ awaits[c] = f}

\* The callback of finally, and the continuations it releases.  At module start
\* the one that waits is onModuleInit, whose failure ends the start.
FetchFinally(f) ==
  /\ fetch[f].phase = "settled"
  /\ fetchPromise' = Null
  /\ fetch' = [fetch EXCEPT ![f] = IdleFetch]
  /\ pc' = [c \in Callers |-> IF c \in Waiters(f) THEN "resumed" ELSE pc[c]]
  /\ delivered' = [c \in Callers |->
                     IF c \in Waiters(f)
                     THEN fetch[f].answer = "keys" /\ wanted[c] \in fetch[f].keys
                     ELSE delivered[c]]
  /\ service' = IF service # "booting" THEN service
                ELSE IF fetch[f].answer = "keys" THEN "up" ELSE "failed"
  /\ UNCHANGED <<now, published, keyCache, cacheExpiresAt, receivedAt, wanted, awaits, result>>

-----------------------------------------------------------------------------
(* The environment: Keycloak and the clock                                 *)

\* Keycloak composes its answer from the keys it publishes at that moment, or
\* the request fails.
KeycloakAnswers(f) ==
  /\ fetch[f].phase = "sent"
  /\ \E a \in {"keys", "malformed", "failed"} :
       fetch' = [fetch EXCEPT ![f] =
                   [phase |-> "answered", answer |-> a,
                    keys |-> IF a = "failed" THEN {} ELSE published]]
  /\ UNCHANGED <<now, published, service, keyCache, cacheExpiresAt, fetchPromise,
                 receivedAt, callerVars>>

RotateKeys ==
  /\ published' \in SUBSET Kids
  /\ published' # published
  /\ UNCHANGED <<now, service, fetchVars, callerVars>>

Tick ==
  /\ now < MaxTime
  /\ now' = now + 1
  /\ UNCHANGED <<published, service, fetchVars, callerVars>>

-----------------------------------------------------------------------------

Next ==
  \/ OnModuleInit
  \/ \E c \in Callers :
       \/ Recheck(c)
       \/ \E k \in Kids : GetKeyHit(c, k) \/ GetKeyJoin(c, k) \/ GetKeyFetch(c, k)
  \/ \E f \in FetchIds : KeycloakAnswers(f) \/ FetchSettles(f) \/ FetchFinally(f)
  \/ RotateKeys
  \/ Tick

\* The runtime runs every continuation, and fetch() settles at the latest by
\* the HTTP client's own timeout.  Nobody has to call GetKey.
Fairness ==
  /\ \A c \in Callers : WF_vars(Recheck(c))
  /\ \A f \in FetchIds :
       WF_vars(KeycloakAnswers(f)) /\ WF_vars(FetchSettles(f)) /\ WF_vars(FetchFinally(f))

Spec == Init /\ [][Next]_vars
FairSpec == Spec /\ Fairness
-----------------------------------------------------------------------------
(* Properties                                                              *)

\* Every variable holds a value of its kind.
TypeOK ==
  /\ now \in Nat
  /\ published \in SUBSET Kids
  /\ service \in {"starting", "booting", "up", "failed"}
  /\ keyCache \in SUBSET Kids
  /\ cacheExpiresAt \in Nat
  /\ fetchPromise \in FetchIds \cup {Null}
  /\ fetch \in [FetchIds -> [phase : Phases, answer : Answers, keys : SUBSET Kids]]
  /\ pc \in [Callers -> {"idle", "awaiting", "resumed"}]
  /\ wanted \in [Callers -> Kids]
  /\ awaits \in [Callers -> FetchIds \cup {Null}]
  /\ result \in [Callers -> {"idle", "found", "unauthorized"}]
  /\ receivedAt \in [Kids -> Nat \cup {Null}]
  /\ delivered \in [Callers -> BOOLEAN]

\* "Prevents concurrent fetches to avoid stampedes" (the class comment): the
\* requests outstanding are the one FetchPromise stands for and no other.  It
\* also says that FetchPromise never outlives its request, which would leave
\* every later lookup without a refresh.
SingleFlight ==
  {f \in FetchIds : fetch[f].phase # "idle"} = {fetchPromise} \ {Null}

\* Nobody waits for a promise that nothing will settle: the callers awaiting a
\* fetch await the one in flight.
WaitersAwaitTheFlight ==
  \A c \in Callers : pc[c] = "awaiting" => awaits[c] = fetchPromise /\ awaits[c] # Null

\* The one expiry time of the cache is right for each key in it: it is never
\* later than that key's own reception plus the TTL, also after a refresh that
\* failed halfway through a malformed response.
ExpiryCoversKeys ==
  \A k \in keyCache :
    receivedAt[k] # Null /\ cacheExpiresAt <= receivedAt[k] + JwksCacheTtl

\* A lookup whose fetch brought the wanted key still finds it in the cache when
\* it continues, whatever other lookups did in between: it is only refused when
\* the TTL has run out meanwhile.
FetchedKeyStays ==
  \A c \in Callers : pc[c] = "resumed" /\ delivered[c] => wanted[c] \in keyCache

\* The cache as a lease holder (module KeyLease): a lookup is answered with a
\* key only while the lease that began with the key's reception runs.
Lease == INSTANCE KeyLease WITH
  Ttl <- JwksCacheTtl,
  leasedAt <- receivedAt,
  lookup <- [c \in Callers |-> IF pc[c] = "idle" THEN result[c] ELSE "pending"]

ServedUnderLease == Lease!Spec

\* Every lookup is answered, by a key or by a refusal.
LookupsEnd == \A c \in Callers : pc[c] # "idle" ~> pc[c] = "idle"
=============================================================================
