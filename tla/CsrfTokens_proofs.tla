------------------------- MODULE CsrfTokens_proofs --------------------------
(***************************************************************************)
(* Theorems about CsrfTokens, for every finite set of requests and of      *)
(* addresses, every limit, window and capacity.                            *)
(***************************************************************************)
EXTENDS CsrfTokens, FiniteSetTheorems, TLAPS

-----------------------------------------------------------------------------
(* Type correctness                                                        *)

\* What the window and the locks look like after a purge.
LEMMA CurrentTyped ==
  ASSUME TypeOK
  PROVE  /\ CurrentTimestamps \in [Ips -> SUBSET Requests]
         /\ CurrentLocks \in [Ips -> Requests \cup {Null}]
BY DEF TypeOK, CurrentTimestamps, CurrentLocks, PrunedTimestamps, PrunedLocks, Recent

\* A request that settles moves its own place and outcome only.
LEMMA SettleTyped ==
  ASSUME TypeOK, NEW r \in Requests,
         NEW result \in {"token", "limited", "busy", "error"}, Settle(r, result)
  PROVE  /\ pc' \in [Requests -> {"new", "queued", "settled", "done"}]
         /\ outcome' \in [Requests -> {"none", "token", "limited", "busy", "error"}]
         /\ UNCHANGED <<from, pendingWork>>
BY DEF TypeOK, Settle

\* Type correctness: every variable keeps a value of its kind.
THEOREM TypeCorrect == Spec => []TypeOK
<1>1. Init => TypeOK
  BY DEF Init, TypeOK
<1>2. TypeOK /\ [Next]_vars => TypeOK'
  <2> SUFFICES ASSUME TypeOK, [Next]_vars PROVE TypeOK'
    OBVIOUS
  <2>1. CASE OnModuleInit
    BY <2>1 DEF OnModuleInit, TypeOK, mapVars, requestVars, recordVars
  <2>2. CASE OnModuleDestroy
    BY <2>2 DEF OnModuleDestroy, TypeOK, requestVars
  <2>3. CASE PruneInterval
    BY <2>3 DEF PruneInterval, PrunedTimestamps, PrunedLocks, Recent, TypeOK,
                requestVars, recordVars
  <2>4. ASSUME NEW r \in Requests, GenerateTokenTooEarly(r) PROVE TypeOK'
    BY <2>4 DEF GenerateTokenTooEarly, TypeOK, mapVars, recordVars
  <2>5. ASSUME NEW r \in Requests, NEW i \in Ips, GenerateToken(r, i) PROVE TypeOK'
    BY <2>5 DEF GenerateToken, TypeOK, recordVars
  <2>6. ASSUME NEW r \in Requests, InheritRejection(r) PROVE TypeOK'
    <3>1. pendingWork[r] \in Requests
      BY <2>6 DEF InheritRejection, TypeOK
    <3>2. /\ pc' \in [Requests -> {"new", "queued", "settled", "done"}]
          /\ outcome' \in [Requests -> {"none", "token", "limited", "busy", "error"}]
      BY <2>6, <3>1 DEF InheritRejection, Settle, TypeOK
    <3> QED
      BY <2>6, <3>2 DEF InheritRejection, Settle, TypeOK, mapVars, recordVars
  <2>7. ASSUME NEW r \in Requests, Refuse(r) PROVE TypeOK'
    <3>1. PICK result \in {"busy", "limited"} : Settle(r, result)
      BY <2>7 DEF Refuse
    <3> QED
      BY <2>7, <3>1, CurrentTyped, SettleTyped DEF Refuse, TypeOK
  <2>8. ASSUME NEW r \in Requests, Grant(r) PROVE TypeOK'
    <3>1. PICK result \in {"token", "error"} : Settle(r, result)
      BY <2>8 DEF Grant
    <3>2. tokenGenTimestamps' \in [Ips -> SUBSET Requests]
      BY <2>8, CurrentTyped DEF Grant, Recent
    <3> QED
      BY <2>8, <3>1, <3>2, CurrentTyped, SettleTyped DEF Grant, TypeOK
  <2>9. ASSUME NEW r \in Requests, Cleanup(r) PROVE TypeOK'
    BY <2>9 DEF Cleanup, TypeOK, recordVars
  <2>10. CASE Crash
    BY <2>10 DEF Crash, TypeOK, mapVars, requestVars, recordVars
  <2>11. CASE Tick
    BY <2>11 DEF Tick, TypeOK, mapVars, requestVars, recordVars
  <2>12. CASE UNCHANGED vars
    BY <2>12 DEF vars, TypeOK, mapVars, requestVars, recordVars
  <2> QED
    BY <2>1, <2>2, <2>3, <2>4, <2>5, <2>6, <2>7, <2>8, <2>9, <2>10, <2>11, <2>12 DEF Next
<1> QED
  BY <1>1, <1>2, PTL DEF Spec

-----------------------------------------------------------------------------
(* The locks                                                               *)

\* A lock is always held by a request of its address that is still on its way.
THEOREM LocksCorrect == Spec => []LocksAreTransient
<1>1. Init => LocksAreTransient
  BY DEF Init, LocksAreTransient
<1>2. TypeOK /\ LocksAreTransient /\ [Next]_vars => LocksAreTransient'
  <2> SUFFICES ASSUME TypeOK, LocksAreTransient, [Next]_vars PROVE LocksAreTransient'
    OBVIOUS
  <2> USE DEF LocksAreTransient
  <2>1. CASE OnModuleDestroy
    BY <2>1 DEF OnModuleDestroy
  <2>2. CASE PruneInterval
    BY <2>2 DEF PruneInterval, PrunedLocks, requestVars
  <2>3. ASSUME NEW r \in Requests, GenerateTokenTooEarly(r) PROVE LocksAreTransient'
    BY <2>3 DEF GenerateTokenTooEarly, mapVars, TypeOK
  <2>4. ASSUME NEW r \in Requests, NEW i \in Ips, GenerateToken(r, i) PROVE LocksAreTransient'
    BY <2>4 DEF GenerateToken, TypeOK
  <2>5. ASSUME NEW r \in Requests, InheritRejection(r) PROVE LocksAreTransient'
    BY <2>5 DEF InheritRejection, Settle, mapVars, TypeOK
  <2>6. ASSUME NEW r \in Requests, NEW result, Settle(r, result), ipLocks' = CurrentLocks
        PROVE  LocksAreTransient'
    BY <2>6 DEF Settle, CurrentLocks, PrunedLocks, TypeOK
  <2>7. ASSUME NEW r \in Requests, Refuse(r) \/ Grant(r) PROVE LocksAreTransient'
    BY <2>6, <2>7 DEF Refuse, Grant
  <2>8. ASSUME NEW r \in Requests, Cleanup(r) PROVE LocksAreTransient'
    BY <2>8, RequestsAssumption DEF Cleanup, TypeOK
  <2>9. CASE UNCHANGED <<ipLocks, pc, from>>
    BY <2>9
  <2> QED
    BY <2>1, <2>2, <2>3, <2>4, <2>5, <2>7, <2>8, <2>9
    DEF Next, OnModuleInit, Crash, Tick, vars, mapVars, requestVars
<1> QED
  BY <1>1, <1>2, TypeCorrect, PTL DEF Spec

-----------------------------------------------------------------------------
(* The map never exceeds its capacity                                      *)

\* A part of the tracked addresses is finite when the whole is, and no larger.
LEMMA TrackedFinite ==
  ASSUME NEW T, NEW U, Tracked(U) \subseteq Tracked(T)
  PROVE  /\ IsFiniteSet(Tracked(T))
         /\ Cardinality(Tracked(T)) \in Nat
         /\ Cardinality(Tracked(U)) \in Nat
         /\ Cardinality(Tracked(U)) <= Cardinality(Tracked(T))
<1>1. IsFiniteSet(Tracked(T))
  BY IpsAssumption, FS_Subset DEF Tracked
<1> QED
  BY <1>1, FS_Subset, FS_CardinalityType

\* TokenGenTimestamps never has entries for more than MAX_TRACKED_IPS addresses.
THEOREM CapacityCorrect == Spec => []CapacityBound
<1>1. Init => CapacityBound
  <2> SUFFICES ASSUME Init PROVE CapacityBound
    OBVIOUS
  <2>1. Tracked(tokenGenTimestamps) = {}
    BY DEF Init, Tracked
  <2> QED
    BY <2>1, FS_EmptySet, CapacityAssumption DEF CapacityBound
<1>2. TypeOK /\ CapacityBound /\ [Next]_vars => CapacityBound'
  <2> SUFFICES ASSUME TypeOK, CapacityBound, [Next]_vars PROVE CapacityBound'
    OBVIOUS
  <2> USE DEF CapacityBound
  <2>1. ASSUME Tracked(tokenGenTimestamps') \subseteq Tracked(tokenGenTimestamps)
        PROVE  CapacityBound'
    <3>1. Cardinality(Tracked(tokenGenTimestamps')) <= MaxTrackedIps
      BY <2>1, TrackedFinite, CapacityAssumption
    <3> QED
      BY <3>1 DEF Tracked
  <2>2. Tracked(CurrentTimestamps) \subseteq Tracked(tokenGenTimestamps)
    BY DEF CurrentTimestamps, PrunedTimestamps, Recent, Tracked
  <2>3. CASE OnModuleDestroy
    BY <2>1, <2>3 DEF OnModuleDestroy, Tracked
  <2>4. CASE PruneInterval
    BY <2>1, <2>4 DEF PruneInterval, PrunedTimestamps, Recent, Tracked
  <2>5. ASSUME NEW r \in Requests, Refuse(r) PROVE CapacityBound'
    BY <2>1, <2>2, <2>5 DEF Refuse
  <2>6. ASSUME NEW r \in Requests, Grant(r) PROVE CapacityBound'
    <3> DEFINE T == Tracked(CurrentTimestamps)
    <3>1. from[r] \in Ips
      BY DEF TypeOK
    <3>2. Tracked(tokenGenTimestamps') = T \cup {from[r]}
      BY <2>6, <3>1, CurrentTyped DEF Grant, Tracked
    <3>3. IsFiniteSet(T) /\ Cardinality(T) \in Nat
      BY TrackedFinite
    <3>4. Cardinality(T) < MaxTrackedIps
      <4>1. CASE Crowded
        BY <2>6, <3>3, <4>1, CapacityAssumption DEF Grant, AtCapacity
      <4>2. CASE ~ Crowded
        BY <2>2, <4>2, TrackedFinite, CapacityAssumption DEF Crowded
      <4> QED
        BY <4>1, <4>2
    <3>5. Cardinality(T \cup {from[r]}) <= Cardinality(T) + 1
      BY <3>3, FS_AddElement
    <3>6. Cardinality(T \cup {from[r]}) \in Nat
      BY <3>3, FS_AddElement, FS_CardinalityType
    <3>7. Cardinality(Tracked(tokenGenTimestamps')) <= MaxTrackedIps
      BY <3>2, <3>3, <3>4, <3>5, <3>6, CapacityAssumption
    <3> QED
      BY <3>7 DEF Tracked
  <2>7. CASE UNCHANGED tokenGenTimestamps
    BY <2>7 DEF Tracked
  <2> QED
    BY <2>3, <2>4, <2>5, <2>6, <2>7
    DEF Next, OnModuleInit, GenerateTokenTooEarly, GenerateToken, InheritRejection, Cleanup,
        Crash, Tick, vars, mapVars
<1> QED
  BY <1>1, <1>2, TypeCorrect, PTL DEF Spec

-----------------------------------------------------------------------------
(* The rate limit                                                          *)

\* A request that is new or queued has not run; what the map holds of an
\* address was recorded by requests of that address; and the map holds every
\* generation that still counts.
RecordInv ==
  /\ \A r \in Requests : pc[r] \in {"new", "queued"} => r \notin evaluated
  /\ counted \subseteq evaluated
  /\ \A i \in Ips : \A q \in tokenGenTimestamps[i] : q \in counted /\ from[q] = i
  /\ \A i \in Ips : InWindow(i) \subseteq tokenGenTimestamps[i]

\* Under that invariant the filtered timestamps are the window, pruned or not.
LEMMA RecentIsWindow ==
  ASSUME TypeOK, RecordInv, NEW i \in Ips
  PROVE  /\ Recent(tokenGenTimestamps[i]) = InWindow(i)
         /\ Recent(CurrentTimestamps[i]) = InWindow(i)
         /\ CurrentTimestamps[i] \subseteq tokenGenTimestamps[i]
         /\ InWindow(i) \subseteq CurrentTimestamps[i]
BY DEF TypeOK, RecordInv, Recent, InWindow, CurrentTimestamps, PrunedTimestamps

\* The map forgets no generation that still counts.
THEOREM RecordCorrect == Spec => []RecordInv
<1>1. Init => RecordInv
  BY DEF Init, RecordInv, InWindow
<1>2. TypeOK /\ RecordInv /\ [Next]_vars => RecordInv'
  <2> SUFFICES ASSUME TypeOK, RecordInv, [Next]_vars PROVE RecordInv'
    OBVIOUS
  <2>1. CASE OnModuleDestroy
    BY <2>1 DEF OnModuleDestroy, RecordInv, InWindow, requestVars
  <2>2. CASE PruneInterval
    <3>1. \A i \in Ips : tokenGenTimestamps'[i] = InWindow(i)
      BY <2>2, RecentIsWindow DEF PruneInterval, PrunedTimestamps
    <3> QED
      BY <2>2, <3>1 DEF PruneInterval, RecordInv, InWindow, requestVars, recordVars
  <2>3. ASSUME NEW r \in Requests, GenerateTokenTooEarly(r) PROVE RecordInv'
    BY <2>3 DEF GenerateTokenTooEarly, RecordInv, InWindow, TypeOK, mapVars, recordVars
  <2>4. ASSUME NEW r \in Requests, NEW i \in Ips, GenerateToken(r, i) PROVE RecordInv'
    <3>1. r \notin evaluated /\ r \notin counted
      BY <2>4 DEF GenerateToken, RecordInv
    <3> QED
      BY <2>4, <3>1 DEF GenerateToken, RecordInv, InWindow, TypeOK, recordVars
  <2>5. ASSUME NEW r \in Requests, InheritRejection(r) PROVE RecordInv'
    BY <2>5 DEF InheritRejection, Settle, RecordInv, InWindow, TypeOK, mapVars, recordVars
  <2>6. ASSUME NEW r \in Requests, Refuse(r) PROVE RecordInv'
    <3>1. /\ pc' = [pc EXCEPT ![r] = "settled"]
          /\ tokenGenTimestamps' = CurrentTimestamps
          /\ evaluated' = evaluated \cup {r}
          /\ UNCHANGED <<now, from, stamp, counted>>
      BY <2>6 DEF Refuse, Settle
    <3> QED
      BY <3>1, RecentIsWindow DEF RecordInv, InWindow, TypeOK
  <2>7. ASSUME NEW r \in Requests, Grant(r) PROVE RecordInv'
    <3>1. /\ pc' = [pc EXCEPT ![r] = "settled"]
          /\ stamp' = [stamp EXCEPT ![r] = now]
          /\ evaluated' = evaluated \cup {r}
          /\ counted' = counted \cup {r}
          /\ UNCHANGED <<now, from>>
      BY <2>7 DEF Grant, Settle
    <3>2. /\ r \notin counted
          /\ from[r] \in Ips
      BY <2>7 DEF Grant, MayRun, PredecessorDone, RecordInv, TypeOK
    <3>3. \A i \in Ips : tokenGenTimestamps'[i] =
                           IF i = from[r] THEN InWindow(i) \cup {r} ELSE CurrentTimestamps[i]
      BY <2>7, <3>2, RecentIsWindow, CurrentTyped DEF Grant
    <3>4. \A i \in Ips : InWindow(i)' \subseteq InWindow(i) \cup (IF i = from[r] THEN {r} ELSE {})
      BY <3>1, <3>2 DEF InWindow, TypeOK
    <3>5. \A i \in Ips : \A q \in InWindow(i) : q \in counted /\ from[q] = i
      BY DEF InWindow
    <3>6. \A i \in Ips : InWindow(i)' \subseteq tokenGenTimestamps'[i]
      <4> SUFFICES ASSUME NEW i \in Ips PROVE InWindow(i)' \subseteq tokenGenTimestamps'[i]
        OBVIOUS
      <4>1. InWindow(i) \subseteq CurrentTimestamps[i]
        BY RecentIsWindow
      <4> QED
        BY <3>3, <3>4, <4>1
    <3>7. \A i \in Ips : \A q \in tokenGenTimestamps'[i] : q \in counted' /\ from'[q] = i
      <4> SUFFICES ASSUME NEW i \in Ips, NEW q \in tokenGenTimestamps'[i]
                   PROVE  q \in counted' /\ from'[q] = i
        OBVIOUS
      <4>1. CurrentTimestamps[i] \subseteq tokenGenTimestamps[i]
        BY RecentIsWindow
      <4>2. \A p \in tokenGenTimestamps[i] : p \in counted /\ from[p] = i
        BY DEF RecordInv
      <4>3. CASE i = from[r]
        BY <3>1, <3>3, <3>5, <4>3
      <4>4. CASE i # from[r]
        BY <3>1, <3>3, <4>1, <4>2, <4>4
      <4> QED
        BY <4>3, <4>4
    <3>8. /\ \A q \in Requests : pc'[q] \in {"new", "queued"} => q \notin evaluated'
          /\ counted' \subseteq evaluated'
      BY <3>1 DEF RecordInv, TypeOK
    <3>9. \A i \in Ips : (InWindow(i) \subseteq tokenGenTimestamps[i])'
      BY <3>6
    <3> QED
      BY <3>7, <3>8, <3>9 DEF RecordInv
  <2>8. ASSUME NEW r \in Requests, Cleanup(r) PROVE RecordInv'
    BY <2>8 DEF Cleanup, RecordInv, InWindow, TypeOK, recordVars
  <2>9. CASE Tick
    <3>1. \A i \in Ips : InWindow(i)' \subseteq InWindow(i)
      <4> SUFFICES ASSUME NEW i \in Ips, NEW q \in InWindow(i)'
                   PROVE  q \in InWindow(i)
        OBVIOUS
      <4>0. now' = now + 1 /\ from' = from /\ stamp' = stamp /\ counted' = counted
        BY <2>9 DEF Tick, requestVars, recordVars
      <4>1. q \in counted' /\ from'[q] = i /\ now' - stamp'[q] < Window
        BY DEF InWindow
      <4>2. stamp[q] \in Nat /\ now \in Nat
        BY <4>0, <4>1 DEF TypeOK
      <4>3. now - stamp[q] < Window
        BY <4>0, <4>1, <4>2, LimitAssumption
      <4> QED
        BY <4>0, <4>1, <4>3 DEF InWindow
    <3> QED
      BY <2>9, <3>1 DEF Tick, RecordInv, mapVars, requestVars, recordVars
  <2>10. CASE UNCHANGED <<now, mapVars, requestVars, recordVars>>
    BY <2>10 DEF RecordInv, InWindow, mapVars, requestVars, recordVars
  <2> QED
    BY <2>1, <2>2, <2>3, <2>4, <2>5, <2>6, <2>7, <2>8, <2>9, <2>10
    DEF Next, OnModuleInit, Crash, vars
<1> QED
  BY <1>1, <1>2, TypeCorrect, PTL DEF Spec

\* A window is a finite set, and a part of it is no larger.
LEMMA WindowFinite ==
  ASSUME TypeOK, NEW i \in Ips
  PROVE  /\ IsFiniteSet(InWindow(i))
         /\ Cardinality(InWindow(i)) \in Nat
         /\ \A S : S \subseteq InWindow(i) => Cardinality(S) <= Cardinality(InWindow(i))
<1>1. InWindow(i) \subseteq Requests
  BY DEF InWindow, TypeOK
<1>2. IsFiniteSet(InWindow(i))
  BY <1>1, RequestsAssumption, FS_Subset
<1> QED
  BY <1>2, FS_Subset, FS_CardinalityType

\* Since the module was initialised no address has had more generations recorded
\* in any window than the limit.
THEOREM RateLimitCorrect == Spec => []RateLimit
<1>1. Init => RateLimit
  <2> SUFFICES ASSUME Init, NEW i \in Ips PROVE Cardinality(InWindow(i)) <= RateLimitCount
    BY DEF RateLimit
  <2>1. InWindow(i) = {}
    BY DEF Init, InWindow
  <2> QED
    BY <2>1, FS_EmptySet, LimitAssumption
<1>2. TypeOK /\ RecordInv /\ RateLimit /\ [Next]_vars => RateLimit'
  <2> SUFFICES ASSUME TypeOK, RecordInv, RateLimit, [Next]_vars PROVE RateLimit'
    OBVIOUS
  <2>1. ASSUME \A i \in Ips : InWindow(i)' \subseteq InWindow(i) PROVE RateLimit'
    <3> SUFFICES ASSUME NEW i \in Ips PROVE Cardinality(InWindow(i)') <= RateLimitCount
      BY DEF RateLimit
    <3>1. Cardinality(InWindow(i)) <= RateLimitCount
      BY DEF RateLimit
    <3>2. IsFiniteSet(InWindow(i)') /\ Cardinality(InWindow(i)') \in Nat
      BY <2>1, WindowFinite, FS_Subset, FS_CardinalityType
    <3>3. Cardinality(InWindow(i)') <= Cardinality(InWindow(i))
      BY <2>1, WindowFinite
    <3> QED
      BY <3>1, <3>2, <3>3, WindowFinite, LimitAssumption
  <2>2. CASE OnModuleDestroy
    BY <2>1, <2>2 DEF OnModuleDestroy, InWindow
  <2>3. ASSUME NEW r \in Requests, NEW i \in Ips, GenerateToken(r, i) PROVE RateLimit'
    <3>1. r \notin counted
      BY <2>3 DEF GenerateToken, RecordInv
    <3>2. \A j \in Ips : InWindow(j)' \subseteq InWindow(j)
      BY <2>3, <3>1 DEF GenerateToken, InWindow, TypeOK, recordVars
    <3> QED
      BY <2>1, <3>2
  <2>4. ASSUME NEW r \in Requests, Grant(r) PROVE RateLimit'
    <3> SUFFICES ASSUME NEW i \in Ips PROVE Cardinality(InWindow(i)') <= RateLimitCount
      BY DEF RateLimit
    <3>1. /\ stamp' = [stamp EXCEPT ![r] = now]
          /\ counted' = counted \cup {r}
          /\ now' = now /\ from' = from
          /\ r \notin counted
          /\ from[r] \in Ips
      BY <2>4 DEF Grant, Settle, MayRun, PredecessorDone, RecordInv, TypeOK
    <3>2. CASE i = from[r]
      <4>1. InWindow(i)' \subseteq InWindow(i) \cup {r}
        BY <3>1 DEF InWindow, TypeOK
      <4>2. Cardinality(InWindow(i)) < RateLimitCount
        BY <2>4, <3>1, <3>2, RecentIsWindow, WindowFinite, LimitAssumption DEF Grant, OverLimit
      <4> DEFINE W == InWindow(i)
      <4>3. IsFiniteSet(W) /\ Cardinality(W) \in Nat
        BY WindowFinite
      <4> HIDE DEF W
      <4>4. /\ IsFiniteSet(W \cup {r})
            /\ Cardinality(W \cup {r}) = IF r \in W THEN Cardinality(W) ELSE Cardinality(W) + 1
        BY <4>3, FS_AddElement
      <4>5. Cardinality(W \cup {r}) <= Cardinality(W) + 1
        BY <4>3, <4>4
      <4>6. /\ IsFiniteSet(InWindow(i) \cup {r})
            /\ Cardinality(InWindow(i) \cup {r}) <= Cardinality(InWindow(i)) + 1
        BY <4>4, <4>5 DEF W
      <4>7. /\ Cardinality(InWindow(i)') <= Cardinality(InWindow(i) \cup {r})
            /\ Cardinality(InWindow(i)') \in Nat
            /\ Cardinality(InWindow(i) \cup {r}) \in Nat
        BY <4>1, <4>6, FS_Subset, FS_CardinalityType
      <4> QED
        BY <4>2, <4>6, <4>7, WindowFinite, LimitAssumption
    <3>3. CASE i # from[r]
      <4>1. InWindow(i)' \subseteq InWindow(i)
        BY <3>1, <3>3 DEF InWindow, TypeOK
      <4>2. Cardinality(InWindow(i)') <= Cardinality(InWindow(i))
        BY <4>1, WindowFinite
      <4>3. IsFiniteSet(InWindow(i)') /\ Cardinality(InWindow(i)') \in Nat
        BY <4>1, WindowFinite, FS_Subset, FS_CardinalityType
      <4>4. Cardinality(InWindow(i)) <= RateLimitCount
        BY DEF RateLimit
      <4> QED
        BY <4>2, <4>3, <4>4, WindowFinite, LimitAssumption
    <3> QED
      BY <3>2, <3>3
  <2>5. CASE Tick
    <3>1. now' = now + 1 /\ from' = from /\ stamp' = stamp /\ counted' = counted
      BY <2>5 DEF Tick, requestVars, recordVars
    <3>2. \A i \in Ips : InWindow(i)' \subseteq InWindow(i)
      <4> SUFFICES ASSUME NEW i \in Ips, NEW q \in InWindow(i)' PROVE q \in InWindow(i)
        OBVIOUS
      <4>1. q \in counted' /\ from'[q] = i /\ now' - stamp'[q] < Window
        BY DEF InWindow
      <4>2. stamp[q] \in Nat /\ now \in Nat
        BY <3>1, <4>1 DEF TypeOK
      <4>3. now - stamp[q] < Window
        BY <3>1, <4>1, <4>2, LimitAssumption
      <4> QED
        BY <3>1, <4>1, <4>3 DEF InWindow
    <3> QED
      BY <2>1, <3>2
  <2>6. CASE UNCHANGED <<now, from, stamp, counted>>
    BY <2>6 DEF RateLimit, InWindow
  <2> QED
    BY <2>2, <2>3, <2>4, <2>5, <2>6
    DEF Next, OnModuleInit, PruneInterval, GenerateTokenTooEarly, InheritRejection, Refuse,
        Settle, Cleanup, Crash, vars, requestVars, recordVars
<1> QED
  BY <1>1, <1>2, TypeCorrect, RecordCorrect, PTL DEF Spec

-----------------------------------------------------------------------------
(* The service decides as the limiter does                                 *)

\* Cardinality of the instantiated limiter is that of FiniteSets.
LEMMA LimiterCardinality == \A S : Limiter!Cardinality(S) = Cardinality(S)
BY Zenon DEF Limiter!Cardinality, Cardinality

\* The capacity check with its pruning asks exactly whether MAX_TRACKED_IPS
\* addresses have a generation in the window, and the rate check whether the
\* address of the request has used up its limit.
LEMMA SameQuestions ==
  ASSUME TypeOK, RecordInv
  PROVE  /\ AtCapacity <=> Limiter!Overloaded
         /\ \A r \in Requests : OverLimit(r) <=> Limiter!Limited(from[r])
<1> DEFINE Busy == {i \in Ips : InWindow(i) # {}}
<1>1. Limiter!Overloaded <=> Cardinality(Busy) >= MaxTrackedIps
  BY LimiterCardinality DEF Limiter!Overloaded, Limiter!InWindow, InWindow
<1>2. \A r \in Requests : OverLimit(r) <=> Limiter!Limited(from[r])
  <2> SUFFICES ASSUME NEW r \in Requests PROVE OverLimit(r) <=> Limiter!Limited(from[r])
    OBVIOUS
  <2>1. Recent(CurrentTimestamps[from[r]]) = InWindow(from[r])
    BY RecentIsWindow DEF TypeOK
  <2>2. Limiter!InWindow(from[r]) = InWindow(from[r])
    BY DEF Limiter!InWindow, InWindow
  <2> QED
    BY <2>1, <2>2, LimiterCardinality DEF OverLimit, Limiter!Limited
<1>3. Busy \subseteq Tracked(tokenGenTimestamps)
  BY DEF RecordInv, Tracked
<1>4. CASE Crowded
  <2>1. Tracked(CurrentTimestamps) = Busy
    BY <1>4, RecentIsWindow DEF CurrentTimestamps, PrunedTimestamps, Tracked
  <2>2. AtCapacity <=> Limiter!Overloaded
    BY <1>1, <1>4, <2>1 DEF AtCapacity
  <2> QED
    BY <1>2, <2>2
<1>5. CASE ~ Crowded
  <2>1. IsFiniteSet(Tracked(tokenGenTimestamps))
    BY IpsAssumption, FS_Subset DEF Tracked
  <2>2. /\ Cardinality(Busy) <= Cardinality(Tracked(tokenGenTimestamps))
        /\ Cardinality(Busy) \in Nat
        /\ Cardinality(Tracked(tokenGenTimestamps)) \in Nat
    BY <1>3, <2>1, FS_Subset, FS_CardinalityType
  <2>3. Cardinality(Tracked(tokenGenTimestamps)) < CapacityThreshold
    BY <1>5, <2>2, CapacityAssumption DEF Crowded
  <2>4. ~ AtCapacity /\ ~ Limiter!Overloaded
    BY <1>1, <1>5, <2>2, <2>3, CapacityAssumption DEF AtCapacity
  <2> QED
    BY <1>2, <2>4
<1> QED
  BY <1>4, <1>5

\* The decisions of the service are those of a limiter that forgets nothing.
THEOREM DecisionsCorrect == Spec => DecidesAsLimiter
<1> DEFINE decision ==
      [r \in Requests |-> IF r \notin evaluated THEN "none"
                          ELSE IF outcome[r] \in {"token", "error"} THEN "admitted"
                          ELSE outcome[r]]
<1>1. Init => Limiter!Init
  BY DEF Init, Limiter!Init
<1>2. TypeOK /\ RecordInv /\ [Next]_vars => [Limiter!Next]_(Limiter!vars)
  <2> SUFFICES ASSUME TypeOK, RecordInv, [Next]_vars PROVE [Limiter!Next]_(Limiter!vars)
    OBVIOUS
  <2>1. ASSUME UNCHANGED <<now, from, counted, stamp>>, decision' = decision
        PROVE  UNCHANGED Limiter!vars
    BY <2>1 DEF Limiter!vars
  <2>2. ASSUME UNCHANGED <<outcome, evaluated>> PROVE decision' = decision
    BY <2>2
  <2>3. CASE OnModuleInit \/ PruneInterval \/ Crash \/ UNCHANGED vars
    BY <2>1, <2>2, <2>3
    DEF OnModuleInit, PruneInterval, Crash, vars, requestVars, recordVars
  <2>4. CASE OnModuleDestroy
    <3>1. Limiter!Reset
      BY <2>2, <2>4 DEF OnModuleDestroy, Limiter!Reset, requestVars
    <3> QED
      BY <3>1 DEF Limiter!Next
  <2>5. ASSUME NEW r \in Requests, NEW i \in Ips, GenerateToken(r, i)
        PROVE  Limiter!Next
    <3>1. r \notin evaluated
      BY <2>5 DEF GenerateToken, RecordInv
    <3>2. Limiter!Arrive(r, i)
      BY <2>2, <2>5, <3>1 DEF GenerateToken, Limiter!Arrive, recordVars
    <3> QED
      BY <3>2 DEF Limiter!Next
  <2>6. ASSUME NEW r \in Requests, GenerateTokenTooEarly(r) \/ InheritRejection(r)
        PROVE  UNCHANGED Limiter!vars
    <3>1. r \notin evaluated
      BY <2>6 DEF GenerateTokenTooEarly, InheritRejection, PredecessorDone, RecordInv
    <3>2. /\ UNCHANGED <<now, from, recordVars>>
          /\ \A q \in Requests : q # r => outcome'[q] = outcome[q]
      BY <2>6 DEF GenerateTokenTooEarly, InheritRejection, Settle, TypeOK
    <3>3. decision' = decision
      BY <3>1, <3>2 DEF recordVars
    <3> QED
      BY <2>1, <3>2, <3>3 DEF recordVars
  <2>7. ASSUME NEW r \in Requests, NEW result, MayRun(r), Settle(r, result),
               evaluated' = evaluated \cup {r}
        PROVE  /\ decision[r] = "none"
               /\ decision' = [decision EXCEPT ![r] =
                     IF result \in {"token", "error"} THEN "admitted" ELSE result]
    <3>1. r \notin evaluated
      BY <2>7 DEF MayRun, PredecessorDone, RecordInv
    <3>2. outcome' = [outcome EXCEPT ![r] = result]
      BY <2>7 DEF Settle
    <3>3. \A q \in Requests : outcome'[q] = IF q = r THEN result ELSE outcome[q]
      BY <3>2 DEF TypeOK
    <3> QED
      BY <2>7, <3>1, <3>3
  <2>8. ASSUME NEW r \in Requests, Refuse(r) PROVE Limiter!Next
    <3>1. /\ MayRun(r)
          /\ evaluated' = evaluated \cup {r}
          /\ UNCHANGED <<now, from, counted, stamp>>
      BY <2>8 DEF Refuse, Settle
    <3>2. CASE AtCapacity /\ Settle(r, "busy")
      <4>1. decision[r] = "none" /\ decision' = [decision EXCEPT ![r] = "busy"]
        BY <2>7, <3>1, <3>2
      <4>2. Limiter!TurnAway(r)
        BY <3>1, <3>2, <4>1, SameQuestions DEF Limiter!TurnAway
      <4> QED
        BY <4>2 DEF Limiter!Next
    <3>3. CASE ~ AtCapacity /\ OverLimit(r) /\ Settle(r, "limited")
      <4>1. decision[r] = "none" /\ decision' = [decision EXCEPT ![r] = "limited"]
        BY <2>7, <3>1, <3>3
      <4>2. Limiter!TurnAway(r)
        BY <3>1, <3>3, <4>1, SameQuestions DEF Limiter!TurnAway
      <4> QED
        BY <4>2 DEF Limiter!Next
    <3> QED
      BY <2>8, <3>2, <3>3 DEF Refuse
  <2>9. ASSUME NEW r \in Requests, Grant(r) PROVE Limiter!Next
    <3>1. /\ MayRun(r)
          /\ ~ AtCapacity
          /\ ~ OverLimit(r)
          /\ evaluated' = evaluated \cup {r}
          /\ counted' = counted \cup {r}
          /\ stamp' = [stamp EXCEPT ![r] = now]
          /\ UNCHANGED <<now, from>>
      BY <2>9 DEF Grant, Settle
    <3>2. PICK result \in {"token", "error"} : Settle(r, result)
      BY <2>9 DEF Grant
    <3>3. decision[r] = "none" /\ decision' = [decision EXCEPT ![r] = "admitted"]
      BY <2>7, <3>1, <3>2
    <3>4. Limiter!Admit(r)
      BY <3>1, <3>3, SameQuestions DEF Limiter!Admit
    <3> QED
      BY <3>4 DEF Limiter!Next
  <2>10. ASSUME NEW r \in Requests, Cleanup(r) PROVE UNCHANGED Limiter!vars
    BY <2>1, <2>2, <2>10 DEF Cleanup, recordVars
  <2>11. CASE Tick
    <3>1. Limiter!Tick
      BY <2>2, <2>11 DEF Tick, Limiter!Tick, requestVars, recordVars
    <3> QED
      BY <3>1 DEF Limiter!Next
  <2> QED
    BY <2>3, <2>4, <2>5, <2>6, <2>8, <2>9, <2>10, <2>11 DEF Next
<1> QED
  BY <1>1, <1>2, TypeCorrect, RecordCorrect, PTL DEF Spec, DecidesAsLimiter, Limiter!Spec
=============================================================================
