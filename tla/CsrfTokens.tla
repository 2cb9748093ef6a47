----------------------------- MODULE CsrfTokens -----------------------------
(***************************************************************************)
(* CSRFService of nestjs-shared: the generation of CSRF tokens under a     *)
(* limit per client address.                                               *)
(*                                                                         *)
(* GenerateToken chains the work of a request behind the work already      *)
(* queued for its address with PendingWork.then(...).  The work itself has *)
(* no await, so everything that follows a call runs as microtasks, between *)
(* which other calls may come in.  The interval timer only runs when no    *)
(* microtask is left.                                                      *)
(*                                                                         *)
(* A timestamp is named by the request that recorded it; stamp gives its   *)
(* value.  The tokens themselves, the secret and the cookies are left out. *)
(***************************************************************************)
EXTENDS Naturals, FiniteSets

CONSTANTS
  Requests,          \* calls of GenerateToken
  Ips,               \* client addresses, 'unknown' among them
  RateLimitCount,    \* RATE_LIMIT_COUNT
  Window,            \* RATE_LIMIT_WINDOW_MS, and the TTL of PruneTokenTimestamps
  MaxTrackedIps,     \* MAX_TRACKED_IPS
  CapacityThreshold, \* MAX_TRACKED_IPS * CAPACITY_THRESHOLD_PERCENT
  CrashOnUnhandled,  \* does an unhandled rejection end the process (Node's default)?
  MaxTime,           \* bound on the clock
  Null               \* no promise

ASSUME RequestsAssumption == IsFiniteSet(Requests) /\ Null \notin Requests
ASSUME IpsAssumption == IsFiniteSet(Ips)
ASSUME LimitAssumption == RateLimitCount \in Nat \ {0} /\ Window \in Nat
ASSUME CapacityAssumption ==
  /\ MaxTrackedIps \in Nat
  /\ CapacityThreshold \in 0..MaxTrackedIps
ASSUME MaxTimeAssumption == MaxTime \in Nat
ASSUME CrashAssumption == CrashOnUnhandled \in BOOLEAN

VARIABLES
  now,                 \* Date.now()
  service,             \* "new" | "refused" | "ready" | "destroyed" | "crashed"
  tokenGenTimestamps,  \* TokenGenTimestamps: the recorded requests of each address
  ipLocks,             \* IpLocks: the request whose work is last in the chain, or Null
  pc,                  \* pc[r]: "new" | "queued" | "settled" | "done"
  from,                \* from[r]: the address of r
  pendingWork,         \* pendingWork[r]: the request r is chained behind, or Null
  outcome,             \* outcome[r]: "none" | "token" | "limited" | "busy" | "error"
  stamp,               \* stamp[r]: the timestamp r recorded
  evaluated,           \* history: the requests whose own work ran
  counted,             \* history: the requests that recorded a timestamp
  unhandled            \* requests whose derived promise was rejected with no handler

mapVars     == <<tokenGenTimestamps, ipLocks>>
requestVars == <<pc, from, pendingWork, outcome>>
recordVars  == <<stamp, evaluated, counted>>
vars == <<now, service, mapVars, requestVars, recordVars, unhandled>>

-----------------------------------------------------------------------------

Init ==
  /\ now = 0
  /\ service = "new"
  /\ tokenGenTimestamps = [i \in Ips |-> {}]
  /\ ipLocks = [i \in Ips |-> Null]
  /\ pc = [r \in Requests |-> "new"]
  /\ from \in [Requests -> Ips]
  /\ pendingWork = [r \in Requests |-> Null]
  /\ outcome = [r \in Requests |-> "none"]
  /\ stamp = [r \in Requests |-> 0]
  /\ evaluated = {}
  /\ counted = {}
  /\ unhandled = {}

Serving == service \in {"ready", "destroyed"}

\* No microtask is left.
Drained == \A r \in Requests : pc[r] \in {"new", "done"}

\* The filter over timestamps: Now - ts < RATE_LIMIT_WINDOW_MS.
Recent(S) == {q \in S : now - stamp[q] < Window}

\* The size of the map: an address has an entry exactly when it has timestamps.
Tracked(timestamps) == {i \in Ips : timestamps[i] # {}}

-----------------------------------------------------------------------------
(* Module life cycle                                                       *)

\* The secret is missing, too short, weak or of low entropy: the start fails.
\* Otherwise protection is set up and the pruning timer started.
OnModuleInit ==
  /\ service = "new"
  /\ service' \in {"ready", "refused"}
  /\ UNCHANGED <<now, mapVars, requestVars, recordVars, unhandled>>

\* The timer is stopped and the maps cleared; the server may still be serving.
OnModuleDestroy ==
  /\ service = "ready"
  /\ service' = "destroyed"
  /\ tokenGenTimestamps' = [i \in Ips |-> {}]
  /\ ipLocks' = [i \in Ips |-> Null]
  /\ counted' = {}
  /\ UNCHANGED <<now, requestVars, stamp, evaluated, unhandled>>

-----------------------------------------------------------------------------
(* Pruning                                                                 *)

PrunedTimestamps == [i \in Ips |-> Recent(tokenGenTimestamps[i])]

\* The entry of an address goes with its last timestamp, and its lock with it,
\* also when work of that address is queued.
PrunedLocks ==
  [i \in Ips |-> IF tokenGenTimestamps[i] # {} /\ Recent(tokenGenTimestamps[i]) = {}
                 THEN Null ELSE ipLocks[i]]

\* Mutant of PruneInterval: timestamps are kept only half as long as they count.
PruneIntervalEarly ==
  /\ service = "ready"
  /\ Drained
  /\ tokenGenTimestamps' =
       [i \in Ips |-> {q \in tokenGenTimestamps[i] : 2 * (now - stamp[q]) < Window}]
  /\ ipLocks' = PrunedLocks
  /\ UNCHANGED <<now, service, requestVars, recordVars, unhandled>>

\* PruneTokenTimestamps on the timer.
PruneInterval ==
  /\ service = "ready"
  /\ Drained
  /\ tokenGenTimestamps' = PrunedTimestamps
  /\ ipLocks' = PrunedLocks
  /\ UNCHANGED <<now, service, requestVars, recordVars, unhandled>>

-----------------------------------------------------------------------------
(* GenerateToken                                                           *)

\* Before onModuleInit the call throws.
GenerateTokenTooEarly(r) ==
  /\ service = "new"
  /\ pc[r] = "new"
  /\ pc' = [pc EXCEPT ![r] = "done"]
  /\ outcome' = [outcome EXCEPT ![r] = "error"]
  /\ UNCHANGED <<now, service, mapVars, from, pendingWork, recordVars, unhandled>>

\* The work is chained behind whatever is pending for the address.
GenerateToken(r, i) ==
  /\ Serving
  /\ pc[r] = "new"
  /\ pc' = [pc EXCEPT ![r] = "queued"]
  /\ from' = [from EXCEPT ![r] = i]
  /\ pendingWork' = [pendingWork EXCEPT ![r] = ipLocks[i]]
  /\ ipLocks' = [ipLocks EXCEPT ![i] = r]
  /\ UNCHANGED <<now, service, tokenGenTimestamps, outcome, recordVars, unhandled>>

\* The reactions to a promise run in the order in which they were attached:
\* the finally of the predecessor comes before the then of its successor.
PredecessorDone(r) ==
  /\ Serving
  /\ pc[r] = "queued"
  /\ pendingWork[r] # Null => pc[pendingWork[r]] = "done"

\* The then callback runs: nothing was pending, or it was fulfilled.
MayRun(r) ==
  /\ PredecessorDone(r)
  /\ pendingWork[r] # Null => outcome[pendingWork[r]] = "token"

Settle(r, result) ==
  /\ pc' = [pc EXCEPT ![r] = "settled"]
  /\ outcome' = [outcome EXCEPT ![r] = result]
  /\ UNCHANGED <<from, pendingWork>>

\* Mutant of InheritRejection: a rejected predecessor leaves its successors hanging.
InheritRejectionNever(r) ==
  /\ PredecessorDone(r)
  /\ pendingWork[r] = r
  /\ UNCHANGED vars

\* then was given no rejection handler: the rejection of the predecessor is
\* passed on and the work of this request does not run.
InheritRejection(r) ==
  /\ PredecessorDone(r)
  /\ pendingWork[r] # Null
  /\ outcome[pendingWork[r]] # "token"
  /\ Settle(r, outcome[pendingWork[r]])
  /\ UNCHANGED <<now, service, mapVars, recordVars, unhandled>>

\* PerformRateLimitedTokenGeneration prunes first when the map is nearly full.
Crowded == Cardinality(Tracked(tokenGenTimestamps)) >= CapacityThreshold
CurrentTimestamps == IF Crowded THEN PrunedTimestamps ELSE tokenGenTimestamps
CurrentLocks == IF Crowded THEN PrunedLocks ELSE ipLocks

\* Mutant of AtCapacity: the map is not pruned before the check.
AtCapacityUnpruned == Crowded /\ Cardinality(Tracked(tokenGenTimestamps)) >= MaxTrackedIps

AtCapacity == Crowded /\ Cardinality(Tracked(CurrentTimestamps)) >= MaxTrackedIps
OverLimit(r) == Cardinality(Recent(CurrentTimestamps[from[r]])) >= RateLimitCount

\* 503 at capacity, 429 over the limit: nothing is recorded.
Refuse(r) ==
  /\ MayRun(r)
  /\ \/ AtCapacity /\ Settle(r, "busy")
     \/ ~ AtCapacity /\ OverLimit(r) /\ Settle(r, "limited")
  /\ tokenGenTimestamps' = CurrentTimestamps
  /\ ipLocks' = CurrentLocks
  /\ evaluated' = evaluated \cup {r}
  /\ UNCHANGED <<now, service, stamp, counted, unhandled>>

\* The generation is recorded, and then generateCsrfToken returns or throws.
Grant(r) ==
  /\ MayRun(r)
  /\ ~ AtCapacity
  /\ ~ OverLimit(r)
  /\ tokenGenTimestamps' =
       [CurrentTimestamps EXCEPT ![from[r]] = Recent(CurrentTimestamps[from[r]]) \cup {r}]
  /\ ipLocks' = CurrentLocks
  /\ stamp' = [stamp EXCEPT ![r] = now]
  /\ evaluated' = evaluated \cup {r}
  /\ counted' = counted \cup {r}
  /\ Settle(r, "token") \/ Settle(r, "error")
  /\ UNCHANGED <<now, service, unhandled>>

\* The finally callback gives the lock back if no later request took it over.
\* The promise finally returns is dropped: when the work was rejected it is
\* rejected too, and nothing handles it.
Cleanup(r) ==
  /\ Serving
  /\ pc[r] = "settled"
  /\ pc' = [pc EXCEPT ![r] = "done"]
  /\ ipLocks' = [ipLocks EXCEPT ![from[r]] = IF @ = r THEN Null ELSE @]
  /\ unhandled' = IF outcome[r] = "token" THEN unhandled ELSE unhandled \cup {r}
  /\ UNCHANGED <<now, service, tokenGenTimestamps, from, pendingWork, outcome, recordVars>>

-----------------------------------------------------------------------------
(* The runtime                                                             *)

\* After the microtasks Node raises unhandledRejection, which by default ends
\* the process.
Crash ==
  /\ CrashOnUnhandled
  /\ Serving
  /\ Drained
  /\ unhandled # {}
  /\ service' = "crashed"
  /\ UNCHANGED <<now, mapVars, requestVars, recordVars, unhandled>>

Tick ==
  /\ now < MaxTime
  /\ now' = now + 1
  /\ UNCHANGED <<service, mapVars, requestVars, recordVars, unhandled>>

Next ==
  \/ OnModuleInit
  \/ OnModuleDestroy
  \/ PruneInterval
  \/ \E r \in Requests :
       \/ GenerateTokenTooEarly(r)
       \/ \E i \in Ips : GenerateToken(r, i)
       \/ InheritRejection(r)
       \/ Refuse(r)
       \/ Grant(r)
       \/ Cleanup(r)
  \/ Crash
  \/ Tick

\* The runtime runs every microtask.
Fairness ==
  \A r \in Requests :
    WF_vars(InheritRejection(r)) /\ WF_vars(Refuse(r) \/ Grant(r)) /\ WF_vars(Cleanup(r))

Spec == Init /\ [][Next]_vars
FairSpec == Spec /\ Fairness

-----------------------------------------------------------------------------
(* Properties                                                              *)

\* Every variable holds a value of its kind.
TypeOK ==
  /\ now \in Nat
  /\ service \in {"new", "refused", "ready", "destroyed", "crashed"}
  /\ tokenGenTimestamps \in [Ips -> SUBSET Requests]
  /\ ipLocks \in [Ips -> Requests \cup {Null}]
  /\ pc \in [Requests -> {"new", "queued", "settled", "done"}]
  /\ from \in [Requests -> Ips]
  /\ pendingWork \in [Requests -> Requests \cup {Null}]
  /\ outcome \in [Requests -> {"none", "token", "limited", "busy", "error"}]
  /\ stamp \in [Requests -> Nat]
  /\ evaluated \in SUBSET Requests
  /\ counted \in SUBSET Requests
  /\ unhandled \in SUBSET Requests

\* The generations of address i that the limit counts at this moment.
InWindow(i) == {q \in counted : from[q] = i /\ now - stamp[q] < Window}

\* "Per-IP rate limiting: 10 tokens per 60 seconds" (the class comment): since
\* the module was initialised, at no moment have more than RateLimitCount generations been recorded for an address
\* in the window that ends there, however the requests interleave and whatever
\* pruning forgot in between.
RateLimit == \A i \in Ips : Cardinality(InWindow(i)) <= RateLimitCount

\* The map of addresses never grows beyond MAX_TRACKED_IPS.
CapacityBound == Cardinality(Tracked(tokenGenTimestamps)) <= MaxTrackedIps

\* A lock never outlives the work it stands for, so IpLocks cannot accumulate:
\* its entry is always a request of that address still on its way.
LocksAreTransient ==
  \A i \in Ips : ipLocks[i] # Null =>
    pc[ipLocks[i]] \in {"queued", "settled"} /\ from[ipLocks[i]] = i

\* Every request whose work runs gets the decision of SlidingWindowLimiter, which
\* forgets nothing: neither pruning nor the interleaving of the chains changes
\* one.  A request behind a rejected one is answered with the rejection of its
\* predecessor (csrf.service.ts:397), whether or not it is over the limit itself:
\* that is no decision of the limiter's and maps to "none".
Limiter == INSTANCE SlidingWindowLimiter WITH
  decision <- [r \in Requests |->
                 IF r \notin evaluated THEN "none"
                 ELSE IF outcome[r] \in {"token", "error"} THEN "admitted"
                 ELSE outcome[r]]

DecidesAsLimiter == Limiter!Spec

\* Every request is answered, also the ones queued behind a rejected one.
RequestsSettle == \A r \in Requests : pc[r] = "queued" ~> pc[r] = "done" \/ ~ Serving
=============================================================================
