-------------------------- MODULE JwksCache_proofs --------------------------
(***************************************************************************)
(* Theorems about JwksCache, for every set of callers, keys and request    *)
(* slots, every TTL and every bound on the clock.                          *)
(***************************************************************************)
EXTENDS JwksCache, TLAPS

\* The leaf steps of Next that start a fetch.
LEMMA StartFetchTyped ==
  ASSUME TypeOK, NEW f \in FetchIds, StartFetch(f)
  PROVE  /\ fetchPromise' = f
         /\ fetch' \in [FetchIds -> [phase : Phases, answer : Answers, keys : SUBSET Kids]]
BY DEF TypeOK, StartFetch, IdleFetch, Phases, Answers

\* A refill leaves a typed cache and typed reception times.
LEMMA RefillTyped ==
  ASSUME TypeOK, NEW K \in SUBSET Kids, Refill(K)
  PROVE  keyCache' \in SUBSET Kids /\ receivedAt' \in [Kids -> Nat \cup {Null}]
BY DEF TypeOK, Refill

\* Type correctness: every variable keeps a value of its kind.
THEOREM TypeCorrect == Spec => []TypeOK
<1>1. Init => TypeOK
  BY NullAssumption DEF Init, TypeOK, IdleFetch, Phases, Answers
<1>2. TypeOK /\ [Next]_vars => TypeOK'
  <2> SUFFICES ASSUME TypeOK, [Next]_vars PROVE TypeOK'
    OBVIOUS
  <2>1. CASE OnModuleInit
    <3>1. CASE ValidationMode = "offline"
      <4>1. PICK f \in FetchIds : StartFetch(f)
        BY <2>1, <3>1 DEF OnModuleInit
      <4> QED
        BY <2>1, <3>1, <4>1, StartFetchTyped DEF OnModuleInit, TypeOK, callerVars
    <3>2. CASE ValidationMode # "offline"
      BY <2>1, <3>2 DEF OnModuleInit, TypeOK, callerVars
    <3> QED
      BY <3>1, <3>2
  <2>2. ASSUME NEW c \in Callers, Recheck(c) PROVE TypeOK'
    BY <2>2 DEF Recheck, TypeOK, fetchVars
  <2>3. ASSUME NEW c \in Callers, NEW k \in Kids, GetKeyHit(c, k) PROVE TypeOK'
    BY <2>3 DEF GetKeyHit, TypeOK, fetchVars
  <2>4. ASSUME NEW c \in Callers, NEW k \in Kids, GetKeyJoin(c, k) PROVE TypeOK'
    BY <2>4 DEF GetKeyJoin, AwaitFetch, TypeOK, fetchVars
  <2>5. ASSUME NEW c \in Callers, NEW k \in Kids, GetKeyFetch(c, k) PROVE TypeOK'
    <3>1. PICK f \in FetchIds : StartFetch(f) /\ AwaitFetch(c, k, f)
      BY <2>5 DEF GetKeyFetch
    <3> QED
      BY <2>5, <3>1, StartFetchTyped DEF GetKeyFetch, AwaitFetch, TypeOK
  <2>6. ASSUME NEW f \in FetchIds, KeycloakAnswers(f) PROVE TypeOK'
    BY <2>6 DEF KeycloakAnswers, TypeOK, callerVars, Phases, Answers
  <2>7. ASSUME NEW f \in FetchIds, FetchSettles(f) PROVE TypeOK'
    <3>1. fetch[f].keys \in SUBSET Kids
      BY DEF TypeOK
    <3>2. /\ keyCache' \in SUBSET Kids
          /\ receivedAt' \in [Kids -> Nat \cup {Null}]
          /\ cacheExpiresAt' \in Nat
      <4>1. CASE FetchFails(f)
        BY <4>1 DEF FetchFails, TypeOK
      <4>2. CASE FetchStores(f)
        BY <4>2, <3>1, RefillTyped, TtlAssumption DEF FetchStores, TypeOK
      <4>3. CASE FetchStoresSome(f)
        BY <4>3, <3>1, RefillTyped DEF FetchStoresSome, TypeOK
      <4> QED
        BY <2>7, <4>1, <4>2, <4>3 DEF FetchSettles
    <3> QED
      BY <2>7, <3>2 DEF FetchSettles, TypeOK, callerVars, Phases
  <2>8. ASSUME NEW f \in FetchIds, FetchFinally(f) PROVE TypeOK'
    BY <2>8 DEF FetchFinally, TypeOK, IdleFetch, Phases, Answers
  <2>9. CASE RotateKeys
    BY <2>9 DEF RotateKeys, TypeOK, fetchVars, callerVars
  <2>10. CASE Tick
    BY <2>10 DEF Tick, TypeOK, fetchVars, callerVars
  <2>11. CASE UNCHANGED vars
    BY <2>11 DEF vars, TypeOK, fetchVars, callerVars
  <2> QED
    BY <2>1, <2>2, <2>3, <2>4, <2>5, <2>6, <2>7, <2>8, <2>9, <2>10, <2>11 DEF Next
<1> QED
  BY <1>1, <1>2, PTL DEF Spec
-----------------------------------------------------------------------------
(* One fetch at a time                                                     *)

\* Who waits, and for what: the two invariants together are inductive.
FlightInv == SingleFlight /\ WaitersAwaitTheFlight

\* A fetch that starts is the only one: nobody was waiting for another.
LEMMA StartFetchFlight ==
  ASSUME TypeOK, FlightInv, NEW f \in FetchIds, StartFetch(f)
  PROVE  /\ SingleFlight'
         /\ \A c \in Callers : pc[c] # "awaiting"
<1>1. {g \in FetchIds : fetch[g].phase # "idle"} = {}
  BY DEF FlightInv, SingleFlight, StartFetch
<1>2. \A g \in FetchIds : fetch'[g].phase = IF g = f THEN "sent" ELSE fetch[g].phase
  BY DEF StartFetch, IdleFetch, TypeOK
<1>3. fetchPromise' = f /\ f # Null
  BY NullAssumption DEF StartFetch
<1>4. SingleFlight'
  BY <1>1, <1>2, <1>3 DEF SingleFlight
<1>5. \A c \in Callers : pc[c] # "awaiting"
  BY DEF FlightInv, WaitersAwaitTheFlight, StartFetch
<1> QED
  BY <1>4, <1>5

\* At most one request to Keycloak is outstanding, and every waiting lookup
\* waits for it.
THEOREM OneFlight == Spec => [](SingleFlight /\ WaitersAwaitTheFlight)
<1>1. Init => FlightInv
  BY DEF Init, FlightInv, SingleFlight, WaitersAwaitTheFlight, IdleFetch
<1>2. TypeOK /\ FlightInv /\ [Next]_vars => FlightInv'
  <2> SUFFICES ASSUME TypeOK, FlightInv, [Next]_vars PROVE FlightInv'
    OBVIOUS
  <2> USE DEF FlightInv
  <2>1. CASE OnModuleInit
    <3>1. CASE \E f \in FetchIds : StartFetch(f)
      BY <2>1, <3>1, StartFetchFlight DEF OnModuleInit, WaitersAwaitTheFlight, callerVars
    <3>2. CASE UNCHANGED <<fetch, fetchPromise>>
      BY <2>1, <3>2 DEF OnModuleInit, SingleFlight, WaitersAwaitTheFlight, callerVars
    <3> QED
      BY <2>1, <3>1, <3>2 DEF OnModuleInit
  <2>2. ASSUME NEW c \in Callers, Recheck(c) PROVE FlightInv'
    BY <2>2 DEF Recheck, TypeOK, fetchVars, SingleFlight, WaitersAwaitTheFlight
  <2>3. ASSUME NEW c \in Callers, NEW k \in Kids, GetKeyHit(c, k) PROVE FlightInv'
    BY <2>3 DEF GetKeyHit, fetchVars, SingleFlight, WaitersAwaitTheFlight
  <2>4. ASSUME NEW c \in Callers, NEW k \in Kids, GetKeyJoin(c, k) PROVE FlightInv'
    BY <2>4 DEF GetKeyJoin, AwaitFetch, TypeOK, fetchVars, SingleFlight, WaitersAwaitTheFlight
  <2>5. ASSUME NEW c \in Callers, NEW k \in Kids, GetKeyFetch(c, k) PROVE FlightInv'
    <3>1. PICK f \in FetchIds : StartFetch(f) /\ AwaitFetch(c, k, f)
      BY <2>5 DEF GetKeyFetch
    <3>2. SingleFlight' /\ \A d \in Callers : pc[d] # "awaiting"
      BY <3>1, StartFetchFlight
    <3>3. WaitersAwaitTheFlight'
      BY <3>1, <3>2, NullAssumption DEF AwaitFetch, StartFetch, WaitersAwaitTheFlight, TypeOK
    <3> QED
      BY <3>2, <3>3
  <2>6. ASSUME NEW f \in FetchIds, KeycloakAnswers(f) PROVE FlightInv'
    <3>1. \A g \in FetchIds : fetch'[g].phase # "idle" <=> fetch[g].phase # "idle"
      BY <2>6 DEF KeycloakAnswers, TypeOK
    <3> QED
      BY <2>6, <3>1 DEF KeycloakAnswers, SingleFlight, WaitersAwaitTheFlight, callerVars
  <2>7. ASSUME NEW f \in FetchIds, FetchSettles(f) PROVE FlightInv'
    <3>1. \A g \in FetchIds : fetch'[g].phase # "idle" <=> fetch[g].phase # "idle"
      BY <2>7 DEF FetchSettles, TypeOK
    <3> QED
      BY <2>7, <3>1 DEF FetchSettles, SingleFlight, WaitersAwaitTheFlight, callerVars
  <2>8. ASSUME NEW f \in FetchIds, FetchFinally(f) PROVE FlightInv'
    <3>1. fetchPromise = f
      BY <2>8 DEF FetchFinally, SingleFlight
    <3>2. \A g \in FetchIds : fetch'[g].phase = IF g = f THEN "idle" ELSE fetch[g].phase
      BY <2>8 DEF FetchFinally, TypeOK, IdleFetch
    <3>3. SingleFlight'
      BY <2>8, <3>1, <3>2 DEF FetchFinally, SingleFlight
    <3>4. \A c \in Callers : pc'[c] # "awaiting"
      BY <2>8, <3>1 DEF FetchFinally, WaitersAwaitTheFlight, Waiters
    <3> QED
      BY <3>3, <3>4 DEF WaitersAwaitTheFlight
  <2>9. CASE RotateKeys
    BY <2>9 DEF RotateKeys, fetchVars, callerVars, SingleFlight, WaitersAwaitTheFlight
  <2>10. CASE Tick
    BY <2>10 DEF Tick, fetchVars, callerVars, SingleFlight, WaitersAwaitTheFlight
  <2>11. CASE UNCHANGED vars
    BY <2>11 DEF vars, fetchVars, callerVars, SingleFlight, WaitersAwaitTheFlight
  <2> QED
    BY <2>1, <2>2, <2>3, <2>4, <2>5, <2>6, <2>7, <2>8, <2>9, <2>10, <2>11 DEF Next
<1> QED
  BY <1>1, <1>2, TypeCorrect, PTL DEF Spec, FlightInv
-----------------------------------------------------------------------------
(* The keys in the cache                                                   *)

\* The expiry time also lies within one TTL of the clock: that is what a
\* response that breaks off halfway needs, whose keys keep the old expiry.
ExpiryInv == ExpiryCoversKeys /\ cacheExpiresAt <= now + JwksCacheTtl

\* No key in the cache may be used longer than one TTL after its reception.
THEOREM ExpiryCorrect == Spec => []ExpiryCoversKeys
<1>1. Init => ExpiryInv
  BY TtlAssumption DEF Init, ExpiryInv, ExpiryCoversKeys
<1>2. TypeOK /\ ExpiryInv /\ [Next]_vars => ExpiryInv'
  <2> SUFFICES ASSUME TypeOK, ExpiryInv, [Next]_vars PROVE ExpiryInv'
    OBVIOUS
  <2> USE DEF ExpiryInv
  <2>1. ASSUME NEW f \in FetchIds, FetchSettles(f) PROVE ExpiryInv'
    <3>1. fetch[f].keys \in SUBSET Kids /\ now' = now
      BY <2>1 DEF TypeOK, FetchSettles
    <3>2. CASE FetchFails(f)
      BY <3>1, <3>2 DEF FetchFails, ExpiryCoversKeys
    <3>3. CASE FetchStores(f)
      BY <3>1, <3>3, NullAssumption, TtlAssumption
      DEF FetchStores, Refill, ExpiryCoversKeys, TypeOK
    <3>4. CASE FetchStoresSome(f)
      BY <3>1, <3>4, NullAssumption, TtlAssumption
      DEF FetchStoresSome, Refill, ExpiryCoversKeys, TypeOK
    <3> QED
      BY <2>1, <3>2, <3>3, <3>4 DEF FetchSettles
  <2>2. CASE Tick
    BY <2>2, TtlAssumption DEF Tick, fetchVars, TypeOK, ExpiryCoversKeys
  <2>3. CASE UNCHANGED <<now, keyCache, cacheExpiresAt, receivedAt>>
    BY <2>3 DEF ExpiryCoversKeys
  <2> QED
    BY <2>1, <2>2, <2>3
    DEF Next, OnModuleInit, Recheck, GetKeyHit, GetKeyJoin, GetKeyFetch, KeycloakAnswers,
        FetchFinally, RotateKeys, vars, fetchVars
<1> QED
  BY <1>1, <1>2, TypeCorrect, PTL DEF Spec, ExpiryInv

\* What a settled fetch brought is what the cache holds until its waiters have
\* been released.
SettledInv ==
  /\ FetchedKeyStays
  /\ \A f \in FetchIds :
       fetch[f].phase = "settled" /\ fetch[f].answer = "keys" => keyCache = fetch[f].keys

\* A lookup finds the key its own fetch brought: nothing can empty the cache
\* between the end of the fetch and the continuation of the lookup.
THEOREM FetchedKeyCorrect == Spec => []FetchedKeyStays
<1>1. Init => SettledInv
  BY DEF Init, SettledInv, FetchedKeyStays, IdleFetch
<1>2. TypeOK /\ SettledInv /\ [Next]_vars => SettledInv'
  <2> SUFFICES ASSUME TypeOK, SettledInv, [Next]_vars PROVE SettledInv'
    OBVIOUS
  <2> USE DEF SettledInv
  <2>1. ASSUME NEW f \in FetchIds, StartFetch(f)
        PROVE  \A g \in FetchIds : fetch'[g].phase = "settled" =>
                 fetch[g].phase = "settled" /\ fetch'[g] = fetch[g]
    BY <2>1 DEF StartFetch, IdleFetch, TypeOK
  <2>2. CASE OnModuleInit
    BY <2>1, <2>2 DEF OnModuleInit, callerVars, FetchedKeyStays
  <2>3. ASSUME NEW c \in Callers, Recheck(c) PROVE SettledInv'
    BY <2>3 DEF Recheck, TypeOK, fetchVars, FetchedKeyStays
  <2>4. ASSUME NEW c \in Callers, NEW k \in Kids, GetKeyHit(c, k) PROVE SettledInv'
    BY <2>4 DEF GetKeyHit, TypeOK, fetchVars, FetchedKeyStays
  <2>5. ASSUME NEW c \in Callers, NEW k \in Kids, GetKeyJoin(c, k) PROVE SettledInv'
    BY <2>5 DEF GetKeyJoin, AwaitFetch, TypeOK, fetchVars, FetchedKeyStays
  <2>6. ASSUME NEW c \in Callers, NEW k \in Kids, GetKeyFetch(c, k) PROVE SettledInv'
    <3>1. PICK f \in FetchIds : StartFetch(f) /\ AwaitFetch(c, k, f)
      BY <2>6 DEF GetKeyFetch
    <3>2. FetchedKeyStays'
      BY <2>6, <3>1 DEF GetKeyFetch, AwaitFetch, TypeOK, FetchedKeyStays
    <3> QED
      BY <2>1, <2>6, <3>1, <3>2 DEF GetKeyFetch
  <2>7. ASSUME NEW f \in FetchIds, KeycloakAnswers(f) PROVE SettledInv'
    <3>1. \A g \in FetchIds : fetch'[g].phase = "settled" => fetch'[g] = fetch[g]
      BY <2>7 DEF KeycloakAnswers, TypeOK
    <3> QED
      BY <2>7, <3>1 DEF KeycloakAnswers, callerVars, FetchedKeyStays
  <2>8. ASSUME NEW f \in FetchIds, FetchSettles(f) PROVE SettledInv'
    <3>1. FetchedKeyStays'
      BY <2>8 DEF FetchSettles, Drained, callerVars, FetchedKeyStays
    <3>2. \A g \in FetchIds : fetch'[g].phase = "settled" => g = f
      BY <2>8 DEF FetchSettles, Drained, TypeOK
    <3>3. fetch'[f].answer = fetch[f].answer /\ fetch'[f].keys = fetch[f].keys
      BY <2>8 DEF FetchSettles, TypeOK
    <3>4. fetch[f].answer = "keys" => keyCache' = fetch[f].keys
      BY <2>8 DEF FetchSettles, FetchFails, FetchStores, FetchStoresSome, Refill
    <3> QED
      BY <3>1, <3>2, <3>3, <3>4
  <2>9. ASSUME NEW f \in FetchIds, FetchFinally(f) PROVE SettledInv'
    <3>1. \A g \in FetchIds : fetch'[g].phase = "settled" => fetch'[g] = fetch[g]
      BY <2>9 DEF FetchFinally, IdleFetch, TypeOK
    <3>2. FetchedKeyStays'
      BY <2>9 DEF FetchFinally, Waiters, TypeOK, FetchedKeyStays
    <3> QED
      BY <2>9, <3>1, <3>2 DEF FetchFinally
  <2>10. CASE UNCHANGED <<fetchVars, callerVars>>
    BY <2>10 DEF fetchVars, callerVars, FetchedKeyStays
  <2> QED
    BY <2>2, <2>3, <2>4, <2>5, <2>6, <2>7, <2>8, <2>9, <2>10
    DEF Next, RotateKeys, Tick, vars
<1> QED
  BY <1>1, <1>2, TypeCorrect, PTL DEF Spec, SettledInv
-----------------------------------------------------------------------------
(* The cache implements the lease                                          *)

\* A key that passes the cache's test has a running lease.
LEMMA FreshIsLeased ==
  ASSUME TypeOK, ExpiryCoversKeys, NEW k \in Kids, Fresh(k)
  PROVE  Lease!Leased(k)
BY TtlAssumption, NullAssumption DEF TypeOK, ExpiryCoversKeys, Fresh, Lease!Leased

\* JwksCache implements KeyLease: whatever the interleaving of lookups,
\* refreshes, rotations and failures, a lookup is answered with a key only
\* while the lease that began with the reception of that key runs.
THEOREM ServesUnderLease == Spec => ServedUnderLease
<1> DEFINE Lookup == [c \in Callers |-> IF pc[c] = "idle" THEN result[c] ELSE "pending"]
<1>1. Init => Lease!Init
  BY DEF Init, Lease!Init
<1>2. TypeOK /\ ExpiryCoversKeys /\ [Next]_vars => [Lease!Next]_(Lease!vars)
  <2> SUFFICES ASSUME TypeOK, ExpiryCoversKeys, [Next]_vars
               PROVE  Lease!Next \/ UNCHANGED Lease!vars
    OBVIOUS
  <2>1. CASE OnModuleInit
    BY <2>1 DEF OnModuleInit, callerVars, Lease!vars
  <2>2. ASSUME NEW c \in Callers, Recheck(c)
        PROVE  Lease!Grant(c) \/ Lease!Refuse(c)
    <3>1. /\ Lookup[c] = "pending"
          /\ Lookup' = [Lookup EXCEPT ![c] = result'[c]]
          /\ UNCHANGED <<now, receivedAt, wanted>>
      BY <2>2 DEF Recheck, TypeOK, fetchVars
    <3>2. CASE Fresh(wanted[c])
      <4>1. result'[c] = "found" /\ wanted[c] \in Kids
        BY <2>2, <3>2 DEF Recheck, TypeOK
      <4> QED
        BY <3>1, <3>2, <4>1, FreshIsLeased DEF Lease!Grant
    <3>3. CASE ~ Fresh(wanted[c])
      <4>1. result'[c] = "unauthorized"
        BY <2>2, <3>3 DEF Recheck, TypeOK
      <4> QED
        BY <3>1, <4>1 DEF Lease!Refuse
    <3> QED
      BY <3>2, <3>3
  <2>3. ASSUME NEW c \in Callers, NEW k \in Kids, GetKeyHit(c, k)
        PROVE  Lease!AnswerAtOnce(c, k)
    <3>1. Lease!Leased(k)
      BY <2>3, FreshIsLeased DEF GetKeyHit
    <3>2. Lookup[c] # "pending" /\ Lookup' = [Lookup EXCEPT ![c] = "found"]
      BY <2>3 DEF GetKeyHit, TypeOK
    <3> QED
      BY <2>3, <3>1, <3>2 DEF GetKeyHit, fetchVars, Lease!AnswerAtOnce
  <2>4. ASSUME NEW c \in Callers, NEW k \in Kids, NEW f, pc[c] = "idle",
               AwaitFetch(c, k, f), UNCHANGED <<now, receivedAt>>
        PROVE  Lease!Ask(c, k)
    <3>1. Lookup[c] # "pending" /\ Lookup' = [Lookup EXCEPT ![c] = "pending"]
      BY <2>4 DEF AwaitFetch, TypeOK
    <3> QED
      BY <2>4, <3>1 DEF AwaitFetch, Lease!Ask
  <2>5. ASSUME NEW c \in Callers, NEW k \in Kids, GetKeyJoin(c, k)
        PROVE  Lease!Ask(c, k)
    BY <2>4, <2>5 DEF GetKeyJoin, fetchVars
  <2>6. ASSUME NEW c \in Callers, NEW k \in Kids, GetKeyFetch(c, k)
        PROVE  Lease!Ask(c, k)
    BY <2>4, <2>6 DEF GetKeyFetch
  <2>7. ASSUME NEW f \in FetchIds, KeycloakAnswers(f)
        PROVE  UNCHANGED Lease!vars
    BY <2>7 DEF KeycloakAnswers, callerVars, Lease!vars
  <2>8. ASSUME NEW K \in SUBSET Kids, Refill(K), UNCHANGED <<now, callerVars>>
        PROVE  Lease!Receive
    BY <2>8 DEF Refill, callerVars, Lease!Receive
  <2>9. ASSUME NEW f \in FetchIds, FetchSettles(f)
        PROVE  Lease!Receive \/ UNCHANGED Lease!vars
    <3>1. fetch[f].keys \in SUBSET Kids
      BY <2>9 DEF TypeOK
    <3>2. CASE FetchFails(f)
      BY <2>9, <3>2 DEF FetchSettles, FetchFails, callerVars, Lease!vars
    <3>3. CASE FetchStores(f)
      BY <2>8, <2>9, <3>1, <3>3 DEF FetchSettles, FetchStores
    <3>4. CASE FetchStoresSome(f)
      BY <2>8, <2>9, <3>1, <3>4 DEF FetchSettles, FetchStoresSome
    <3> QED
      BY <2>9, <3>2, <3>3, <3>4 DEF FetchSettles
  <2>10. ASSUME NEW f \in FetchIds, FetchFinally(f)
         PROVE  UNCHANGED Lease!vars
    <3>1. Lookup' = Lookup
      BY <2>10 DEF FetchFinally, Waiters, TypeOK
    <3> QED
      BY <2>10, <3>1 DEF FetchFinally, Lease!vars
  <2>11. CASE RotateKeys
    BY <2>11 DEF RotateKeys, fetchVars, callerVars, Lease!vars
  <2>12. ASSUME Tick
         PROVE  Lease!Tick
    BY <2>12 DEF Tick, fetchVars, callerVars, Lease!Tick
  <2>13. CASE UNCHANGED vars
    BY <2>13 DEF vars, fetchVars, callerVars, Lease!vars
  <2> QED
    BY <2>1, <2>2, <2>3, <2>5, <2>6, <2>7, <2>9, <2>10, <2>11, <2>12, <2>13
    DEF Next, Lease!Next
<1> QED
  BY <1>1, <1>2, TypeCorrect, ExpiryCorrect, PTL DEF Spec, Lease!Spec, ServedUnderLease
=============================================================================
