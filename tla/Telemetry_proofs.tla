---------------------------- MODULE Telemetry_proofs ----------------------------
(***************************************************************************)
(* Theorems about the telemetry packages: PyroscopeService, for every set  *)
(* of contexts, every limit of the two collections and every timeout;      *)
(* OtelMetrics, for every set of meters, requests, metrics and labels;     *)
(* Tracing, for every number of calls of methods however decorated; and    *)
(* ProfilingMetrics, for every number of requests and of attempts.         *)
(***************************************************************************)
EXTENDS PyroscopeService, OtelMetrics, Tracing, ProfilingMetrics, FiniteSetTheorems,
        SequenceTheorems, WellFoundedInduction, TLAPS

-----------------------------------------------------------------------------
(* PyroscopeService                                                        *)

\* An execution owns a profile only once it has begun, profiles exist only while the
\* service is enabled, and only started profiles are recorded.
Bookkeeping ==
  /\ \A c \in profileId : pc[c] # "new"
  /\ activeProfiles # {} => IsEnabled
  /\ \A i \in DOMAIN stopped : stopped[i] \in profileId

IInv == Bookkeeping /\ RecordedOnce /\ FunctionsLeave

\* What StopProfiling may do.
LEMMA StopEffect ==
  ASSUME TypeOK, NEW c \in Contexts, StopProfiling(c)
  PROVE  /\ UNCHANGED <<profileId, startTime, lastStart>>
         /\ \/ UNCHANGED <<activeProfiles, metrics, stopped>>
            \/ /\ c \in activeProfiles
               /\ activeProfiles' = activeProfiles \ {c}
               /\ metrics' = Recorded(c)
               /\ stopped' = Append(stopped, c)
BY DEF StopProfiling, profileVars

\* Each caller that stops a profile, with what becomes of the rest.
LEMMA Stoppers ==
  ASSUME NEW c \in Contexts,
         EndFunction(c) \/ Emit(c) \/ EndRequest(c) \/ StopManually(c)
  PROVE  /\ StopProfiling(c)
         /\ pc[c] = "running"
         /\ pc' = pc \/ pc' = [pc EXCEPT ![c] = "ended"]
         /\ UNCHANGED <<now, lifeVars>>
BY DEF EndFunction, Emit, EndRequest, StopManually

\* The history of profiles is one of contexts.
LEMMA RecordedTyped ==
  ASSUME TypeOK, NEW c \in Contexts
  PROVE  Recorded(c) \in Seq(Contexts)
<1>1. Append(metrics, c) \in Seq(Contexts) /\ Append(metrics, c) # <<>>
  BY AppendProperties DEF TypeOK
<1>2. Tail(Append(metrics, c)) \in Seq(Contexts)
  BY <1>1, HeadTailProperties
<1> QED
  BY <1>1, <1>2 DEF Recorded

\* Type correctness: every variable keeps a value of its kind, and only started profiles
\* are active.
THEOREM TypeCorrect == Spec => []TypeOK
<1>1. Init => TypeOK
  <2>1. <<>> \in Seq(Contexts)
    BY EmptySeq
  <2>2. Init => late \in BOOLEAN /\ metrics = <<>> /\ stopped = <<>>
    BY Zenon DEF Init
  <2>3. Init => /\ now \in Nat /\ enabled \in BOOLEAN /\ lastStart \in Nat
                /\ phase = "new" /\ client = "none" /\ shutdown = "up"
    BY DEF Init
  <2>4. Init => /\ activeProfiles \subseteq profileId /\ profileId \subseteq Contexts
                /\ pc \in [Contexts -> {"new", "running", "ended"}]
                /\ startTime \in [Contexts -> Nat]
    BY DEF Init
  <2> QED
    BY <2>1, <2>2, <2>3, <2>4 DEF TypeOK
<1>2. TypeOK /\ [Next]_vars => TypeOK'
  <2> SUFFICES ASSUME TypeOK, [Next]_vars PROVE TypeOK'
    OBVIOUS
  <2>1. CASE OnModuleInit
    BY <2>1 DEF OnModuleInit, TypeOK, profileVars
  <2>2. CASE InitializePyroscope
    BY <2>2 DEF InitializePyroscope, TypeOK, profileVars
  <2>3. CASE OnModuleDestroy
    BY <2>3 DEF OnModuleDestroy, TypeOK
  <2>4. CASE StopSettles
    BY <2>4 DEF StopSettles, TypeOK, profileVars
  <2>5. ASSUME NEW c \in Contexts, Begin(c) PROVE TypeOK'
    <3>1. Inserted(c) \subseteq activeProfiles \cup {c}
      BY DEF Inserted
    <3>2. /\ activeProfiles' \subseteq profileId' /\ profileId' \subseteq Contexts
          /\ startTime' \in [Contexts -> Nat] /\ lastStart' \in Nat
          /\ UNCHANGED <<metrics, stopped>>
      BY <2>5, <3>1 DEF Begin, StartProfiling, TypeOK, profileVars
    <3> QED
      BY <2>5, <3>2 DEF Begin, TypeOK, lifeVars
  <2>6. ASSUME NEW c \in Contexts,
               EndFunction(c) \/ Emit(c) \/ EndRequest(c) \/ StopManually(c)
        PROVE  TypeOK'
    <3>1. /\ activeProfiles' \subseteq profileId' /\ profileId' \subseteq Contexts
          /\ UNCHANGED <<startTime, lastStart>>
          /\ metrics' \in Seq(Contexts) /\ stopped' \in Seq(Contexts)
      <4>1. Append(stopped, c) \in Seq(Contexts) /\ Recorded(c) \in Seq(Contexts)
        BY AppendProperties, RecordedTyped DEF TypeOK
      <4>2. StopProfiling(c)
        BY <2>6, Stoppers
      <4> QED
        BY <4>1, <4>2, StopEffect DEF TypeOK
    <3>2. pc' \in [Contexts -> {"new", "running", "ended"}]
      BY <2>6, Stoppers DEF TypeOK
    <3> QED
      BY <2>6, <3>1, <3>2, Stoppers DEF TypeOK, lifeVars
  <2>7. ASSUME NEW c \in Contexts, LeaveRequest(c) PROVE TypeOK'
    BY <2>7 DEF LeaveRequest, TypeOK, lifeVars, profileVars
  <2>8. CASE Tick
    BY <2>8 DEF Tick, TypeOK, lifeVars, profileVars
  <2>9. CASE UNCHANGED vars
    BY <2>9 DEF TypeOK, vars, lifeVars, profileVars
  <2> QED
    BY <2>1, <2>2, <2>3, <2>4, <2>5, <2>6, <2>7, <2>8, <2>9 DEF Next
<1> QED
  BY <1>1, <1>2, PTL DEF Spec

\* The inductive invariant: a profile enters the map once, in the step in which its caller
\* begins, so what has been recorded cannot come back.
LEMMA Inductive == TypeOK /\ IInv /\ [Next]_vars => IInv'
<1> SUFFICES ASSUME TypeOK, IInv, [Next]_vars PROVE IInv'
  OBVIOUS
<1> USE DEF IInv, Bookkeeping, RecordedOnce, FunctionsLeave
<1>1. CASE OnModuleInit
  BY <1>1 DEF OnModuleInit, profileVars, IsEnabled
<1>2. CASE InitializePyroscope
  BY <1>2 DEF InitializePyroscope, profileVars, IsEnabled
<1>3. CASE OnModuleDestroy
  BY <1>3 DEF OnModuleDestroy, IsEnabled
<1>4. CASE StopSettles \/ Tick \/ UNCHANGED vars
  BY <1>4 DEF StopSettles, Tick, vars, lifeVars, profileVars, IsEnabled
<1>5. ASSUME NEW c \in Contexts, Begin(c) PROVE IInv'
  <2>1. /\ pc[c] = "new" /\ pc' = [pc EXCEPT ![c] = "running"]
        /\ IsEnabled' = IsEnabled /\ UNCHANGED stopped
    BY <1>5 DEF Begin, StartProfiling, lifeVars, profileVars, IsEnabled
  <2>2. \A i \in DOMAIN stopped : stopped[i] # c
    BY <2>1
  <2>3. \/ UNCHANGED <<activeProfiles, profileId>>
        \/ /\ activeProfiles' \subseteq activeProfiles \cup {c}
           /\ profileId' = profileId \cup {c}
           /\ IsEnabled
    BY <1>5 DEF Begin, StartProfiling, Inserted, profileVars
  <2> QED
    BY <2>1, <2>2, <2>3 DEF TypeOK
<1>6. ASSUME NEW c \in Contexts,
             EndFunction(c) \/ Emit(c) \/ EndRequest(c) \/ StopManually(c)
      PROVE  IInv'
  <2>1. /\ StopProfiling(c) /\ pc[c] = "running"
        /\ pc' = pc \/ pc' = [pc EXCEPT ![c] = "ended"]
        /\ IsEnabled' = IsEnabled /\ UNCHANGED profileId
    BY <1>6, Stoppers, StopEffect DEF lifeVars, IsEnabled
  <2>2. Bookkeeping' /\ RecordedOnce'
    <3>1. CASE UNCHANGED <<activeProfiles, stopped>>
      BY <2>1, <3>1 DEF TypeOK
    <3>2. CASE /\ c \in activeProfiles
               /\ activeProfiles' = activeProfiles \ {c}
               /\ stopped' = Append(stopped, c)
      <4>1. /\ DOMAIN stopped = 1 .. Len(stopped)
            /\ DOMAIN stopped' = 1 .. Len(stopped) + 1
            /\ \A i \in DOMAIN stopped : stopped'[i] = stopped[i]
            /\ stopped'[Len(stopped) + 1] = c
            /\ Len(stopped) \in Nat
        BY <3>2, AppendProperties, LenProperties DEF TypeOK
      <4>2. \A i \in DOMAIN stopped' :
              \/ i \in DOMAIN stopped /\ stopped'[i] = stopped[i] /\ stopped[i] # c
              \/ i = Len(stopped) + 1 /\ stopped'[i] = c
        BY <3>2, <4>1
      <4>3. RecordedOnce'
        <5> SUFFICES ASSUME NEW i \in DOMAIN stopped', NEW j \in DOMAIN stopped'
                     PROVE  /\ stopped'[i] \notin activeProfiles'
                            /\ stopped'[i] = stopped'[j] => i = j
          OBVIOUS
        <5>1. stopped'[i] \notin activeProfiles'
          BY <3>2, <4>2
        <5>2. stopped'[i] = stopped'[j] => i = j
          BY <4>2
        <5> QED
          BY <5>1, <5>2
      <4>4. Bookkeeping'
        BY <2>1, <3>2, <4>2 DEF TypeOK
      <4> QED
        BY <4>3, <4>4
    <3> QED
      BY <2>1, <3>1, <3>2, StopEffect
  <2>3. c \notin activeProfiles'
    BY <2>1, StopEffect DEF StopProfiling, TypeOK
  <2>4. FunctionsLeave'
    BY <2>1, <2>3, StopEffect DEF TypeOK
  <2> QED
    BY <2>2, <2>4
<1>7. ASSUME NEW c \in Contexts, LeaveRequest(c) PROVE IInv'
  BY <1>7, ContextsAssumption DEF LeaveRequest, lifeVars, profileVars, IsEnabled, TypeOK
<1> QED
  BY <1>1, <1>2, <1>3, <1>4, <1>5, <1>6, <1>7 DEF Next

\* The inductive invariant holds.
LEMMA Invariance == Spec => []IInv
<1>1. Init => IInv
  BY DEF Init, IInv, Bookkeeping, RecordedOnce, FunctionsLeave
<1> QED
  BY <1>1, Inductive, TypeCorrect, PTL DEF Spec

-----------------------------------------------------------------------------
(* Theorems                                                                *)

\* No profile is recorded twice, however many values a stream emits and however often the
\* application stops it, and a recorded profile is not active.
THEOREM RecordedOnceCorrect == Spec => []RecordedOnce
BY Invariance, PTL DEF IInv

\* A function that has ended left no profile behind.
THEOREM FunctionsLeaveCorrect == Spec => []FunctionsLeave
BY Invariance, PTL DEF IInv

\* Eviction takes stale profiles only: nothing that could still be stopped is lost.
THEOREM FreshProfilesStayCorrect == Spec => FreshProfilesStay
<1> DEFINE Left(c) == \/ stopped' = Append(stopped, c)
                      \/ now - startTime[c] > StaleTimeout
                      \/ shutdown # shutdown'
<1>1. ASSUME TypeOK, IInv, [Next]_vars, NEW c \in activeProfiles \ activeProfiles'
      PROVE  Left(c)
  <2>1. ASSUME NEW d \in Contexts, Begin(d) PROVE Left(c)
    <3>1. c # d
      BY <1>1, <2>1 DEF Begin, IInv, Bookkeeping, TypeOK
    <3>2. activeProfiles' = Inserted(d) /\ startTime' = [startTime EXCEPT ![d] = now]
      BY <1>1, <2>1 DEF Begin, StartProfiling, profileVars
    <3>3. Stale(c)
      BY <1>1, <3>2 DEF Inserted
    <3> QED
      BY <1>1, <3>1, <3>2, <3>3 DEF Stale, TypeOK
  <2>2. ASSUME NEW d \in Contexts,
               EndFunction(d) \/ Emit(d) \/ EndRequest(d) \/ StopManually(d)
        PROVE  Left(c)
    <3>1. StopProfiling(d)
      BY <2>2, Stoppers
    <3> QED
      BY <1>1, <3>1, StopEffect
  <2>3. CASE OnModuleDestroy
    BY <2>3 DEF OnModuleDestroy
  <2>4. CASE \/ OnModuleInit \/ InitializePyroscope \/ StopSettles \/ Tick \/ UNCHANGED vars
             \/ \E d \in Contexts : LeaveRequest(d)
    BY <1>1, <2>4 DEF OnModuleInit, InitializePyroscope, StopSettles, Tick, LeaveRequest, vars,
       profileVars
  <2> QED
    BY <1>1, <2>1, <2>2, <2>3, <2>4 DEF Next
<1>2. TypeOK /\ IInv /\ [Next]_vars => [\A c \in activeProfiles \ activeProfiles' : Left(c)]_vars
  BY <1>1
<1> QED
  BY <1>2, TypeCorrect, Invariance, PTL DEF Spec, FreshProfilesStay

\* Over its limit the map holds no profile that was stale when the last one was started,
\* whatever the limit: what keeps it over the limit is young.
THEOREM OverLimitCorrect == Spec => []OverLimitOnlyFresh
<1>1. Init => OverLimitOnlyFresh
  BY DEF Init, OverLimitOnlyFresh
<1>2. TypeOK /\ IInv /\ OverLimitOnlyFresh /\ [Next]_vars => OverLimitOnlyFresh'
  <2> SUFFICES ASSUME TypeOK, IInv, OverLimitOnlyFresh, [Next]_vars,
                      Cardinality(activeProfiles') > MaxActive,
                      NEW c \in activeProfiles'
               PROVE  lastStart' - startTime'[c] <= StaleTimeout
    BY DEF OverLimitOnlyFresh
  <2>0. IsFiniteSet(activeProfiles) /\ Cardinality(activeProfiles) \in Nat
    BY ContextsAssumption, FS_Subset, FS_CardinalityType DEF TypeOK
  <2>1. ASSUME activeProfiles' \subseteq activeProfiles, UNCHANGED <<startTime, lastStart>>
        PROVE  lastStart' - startTime'[c] <= StaleTimeout
    <3>1. Cardinality(activeProfiles') <= Cardinality(activeProfiles)
          /\ Cardinality(activeProfiles') \in Nat
      BY <2>0, <2>1, FS_Subset, FS_CardinalityType
    <3>2. Cardinality(activeProfiles) > MaxActive
      BY <2>0, <3>1, LimitsAssumption
    <3> QED
      BY <2>1, <3>2 DEF OverLimitOnlyFresh
  <2>2. ASSUME NEW d \in Contexts, Begin(d)
        PROVE  lastStart' - startTime'[c] <= StaleTimeout
    <3>1. CASE IsEnabled
      <4>1. activeProfiles' = Inserted(d) /\ lastStart' = now
        BY <2>2, <3>1 DEF Begin, StartProfiling
      <4>2. ~ Stale(c)
        BY <4>1 DEF Inserted
      <4>3. startTime'[c] \in Nat
        BY <2>2, <3>1, <4>1 DEF Begin, StartProfiling, Inserted, TypeOK
      <4> QED
        BY <4>1, <4>2, <4>3, LimitsAssumption DEF Stale, TypeOK
    <3>2. CASE ~ IsEnabled
      BY <2>1, <2>2, <3>2 DEF Begin, StartProfiling, profileVars
    <3> QED
      BY <3>1, <3>2
  <2>3. ASSUME NEW d \in Contexts,
               EndFunction(d) \/ Emit(d) \/ EndRequest(d) \/ StopManually(d)
        PROVE  lastStart' - startTime'[c] <= StaleTimeout
    <3>1. StopProfiling(d)
      BY <2>3, Stoppers
    <3> QED
      BY <2>1, <3>1, StopEffect
  <2>4. CASE OnModuleDestroy
    BY <2>1, <2>4 DEF OnModuleDestroy
  <2>5. CASE \/ OnModuleInit \/ InitializePyroscope \/ StopSettles \/ Tick \/ UNCHANGED vars
             \/ \E d \in Contexts : LeaveRequest(d)
    BY <2>1, <2>5 DEF OnModuleInit, InitializePyroscope, StopSettles, Tick, LeaveRequest, vars,
       profileVars
  <2> QED
    BY <2>2, <2>3, <2>4, <2>5 DEF Next
<1> QED
  BY <1>1, <1>2, TypeCorrect, Invariance, PTL DEF Spec

\* The destroy hook leaves no client running, unless it became ready afterwards.
THEOREM ClientStoppedCorrect == Spec => []ClientStopped
<1>1. Init => ClientStopped
  BY DEF Init, ClientStopped
<1>2. TypeOK /\ ClientStopped /\ [Next]_vars => ClientStopped'
  <2> SUFFICES ASSUME TypeOK, ClientStopped, [Next]_vars PROVE ClientStopped'
    OBVIOUS
  <2>1. CASE OnModuleInit \/ StopSettles \/ Tick \/ UNCHANGED vars
    BY <2>1 DEF OnModuleInit, StopSettles, Tick, vars, lifeVars, ClientStopped
  <2>2. CASE InitializePyroscope
    BY <2>2 DEF InitializePyroscope, ClientStopped
  <2>3. CASE OnModuleDestroy
    BY <2>3 DEF OnModuleDestroy, ClientStopped
  <2>4. ASSUME NEW c \in Contexts,
               \/ Begin(c) \/ LeaveRequest(c)
               \/ EndFunction(c) \/ Emit(c) \/ EndRequest(c) \/ StopManually(c)
        PROVE  ClientStopped'
    <3>1. UNCHANGED lifeVars
      BY <2>4, Stoppers DEF Begin, LeaveRequest
    <3> QED
      BY <3>1 DEF lifeVars, ClientStopped
  <2> QED
    BY <2>1, <2>2, <2>3, <2>4 DEF Next
<1> QED
  BY <1>1, <1>2, TypeCorrect, PTL DEF Spec

\* Adding to the window keeps it the newest part of what was recorded.
LEMMA RecordedKeepsNewest ==
  ASSUME TypeOK, HistoryKeepsNewest, NEW c \in Contexts,
         metrics' = Recorded(c), stopped' = Append(stopped, c)
  PROVE  HistoryKeepsNewest'
<1> DEFINE all == Append(metrics, c)
<1>1. /\ all \in Seq(Contexts) /\ all # <<>> /\ Len(all) = Len(metrics) + 1
      /\ \A i \in 1 .. Len(metrics) : all[i] = metrics[i]
      /\ all[Len(metrics) + 1] = c
      /\ Len(metrics) \in Nat
  BY AppendProperties, LenProperties DEF TypeOK
<1>2. /\ stopped' \in Seq(Contexts) /\ Len(stopped') = Len(stopped) + 1
      /\ \A i \in 1 .. Len(stopped) : stopped'[i] = stopped[i]
      /\ stopped'[Len(stopped) + 1] = c
      /\ Len(stopped) \in Nat
  BY AppendProperties, LenProperties DEF TypeOK
<1>3. /\ Len(metrics) = IF Len(stopped) < MaxHistory THEN Len(stopped) ELSE MaxHistory
      /\ \A i \in 1 .. Len(metrics) : metrics[i] = stopped[Len(stopped) - Len(metrics) + i]
  BY LenProperties DEF TypeOK, HistoryKeepsNewest
<1>4. MaxHistory \in Nat \ {0}
  BY LimitsAssumption
<1>5. \A i \in 1 .. Len(all) : all[i] = stopped'[Len(stopped) - Len(metrics) + i]
  <2> SUFFICES ASSUME NEW i \in 1 .. Len(all)
               PROVE  all[i] = stopped'[Len(stopped) - Len(metrics) + i]
    OBVIOUS
  <2>1. CASE i = Len(metrics) + 1
    BY <1>1, <1>2, <2>1
  <2>2. CASE i # Len(metrics) + 1
    <3>1. i \in 1 .. Len(metrics) /\ Len(stopped) - Len(metrics) + i \in 1 .. Len(stopped)
      BY <1>1, <1>2, <1>3, <1>4, <2>2
    <3> QED
      BY <1>1, <1>2, <1>3, <3>1
  <2> QED
    BY <2>1, <2>2
<1>6. CASE Len(all) <= MaxHistory
  <2>1. metrics' = all
    BY <1>1, <1>4, <1>6 DEF Recorded
  <2>2. Len(metrics') = IF Len(stopped') < MaxHistory THEN Len(stopped') ELSE MaxHistory
    BY <1>1, <1>2, <1>3, <1>4, <1>6, <2>1
  <2>3. \A i \in DOMAIN metrics' : metrics'[i] = stopped'[Len(stopped') - Len(metrics') + i]
    BY <1>1, <1>2, <1>3, <1>5, <2>1, LenProperties
  <2> QED
    BY <2>2, <2>3 DEF HistoryKeepsNewest
<1>7. CASE Len(all) > MaxHistory
  <2>1. metrics' = Tail(all)
    BY <1>1, <1>7 DEF Recorded
  <2>2. /\ Len(metrics') = Len(metrics) /\ metrics' \in Seq(Contexts)
        /\ \A i \in 1 .. Len(metrics') : metrics'[i] = all[i + 1]
    BY <1>1, <2>1, HeadTailProperties
  <2>3. Len(metrics') = IF Len(stopped') < MaxHistory THEN Len(stopped') ELSE MaxHistory
    BY <1>1, <1>2, <1>3, <1>4, <1>7, <2>2
  <2>4. \A i \in DOMAIN metrics' : metrics'[i] = stopped'[Len(stopped') - Len(metrics') + i]
    <3> SUFFICES ASSUME NEW i \in 1 .. Len(metrics')
                 PROVE  metrics'[i] = stopped'[Len(stopped') - Len(metrics') + i]
      BY <2>2, LenProperties
    <3>1. i + 1 \in 1 .. Len(all) /\ i \in Nat
      BY <1>1, <2>2
    <3>2. all[i + 1] = stopped'[Len(stopped) - Len(metrics) + (i + 1)]
      BY <1>5, <3>1
    <3>3. Len(stopped) - Len(metrics) + (i + 1) = Len(stopped') - Len(metrics') + i
      BY <1>1, <1>2, <2>2, <3>1
    <3> QED
      BY <2>2, <3>2, <3>3
  <2> QED
    BY <2>3, <2>4 DEF HistoryKeepsNewest
<1> QED
  BY <1>1, <1>4, <1>6, <1>7

\* The history always holds the newest profiles, in order, as many as fit.
THEOREM HistoryCorrect == Spec => []HistoryKeepsNewest
<1>1. Init => HistoryKeepsNewest
  BY LimitsAssumption DEF Init, HistoryKeepsNewest
<1>2. TypeOK /\ HistoryKeepsNewest /\ [Next]_vars => HistoryKeepsNewest'
  <2> SUFFICES ASSUME TypeOK, HistoryKeepsNewest, [Next]_vars PROVE HistoryKeepsNewest'
    OBVIOUS
  <2>1. ASSUME UNCHANGED <<metrics, stopped>> PROVE HistoryKeepsNewest'
    BY <2>1 DEF HistoryKeepsNewest
  <2>2. ASSUME NEW c \in Contexts,
               EndFunction(c) \/ Emit(c) \/ EndRequest(c) \/ StopManually(c)
        PROVE  HistoryKeepsNewest'
    <3>1. StopProfiling(c)
      BY <2>2, Stoppers
    <3> QED
      BY <2>1, <3>1, StopEffect, RecordedKeepsNewest
  <2>3. ASSUME NEW c \in Contexts, Begin(c) PROVE HistoryKeepsNewest'
    BY <2>1, <2>3 DEF Begin, StartProfiling, profileVars
  <2>4. CASE \/ OnModuleInit \/ InitializePyroscope \/ OnModuleDestroy \/ StopSettles \/ Tick
             \/ UNCHANGED vars
             \/ \E c \in Contexts : LeaveRequest(c)
    BY <2>1, <2>4 DEF OnModuleInit, InitializePyroscope, OnModuleDestroy, StopSettles, Tick,
       LeaveRequest, vars, profileVars
  <2> QED
    BY <2>2, <2>3, <2>4 DEF Next
<1> QED
  BY <1>1, <1>2, TypeCorrect, PTL DEF Spec

-----------------------------------------------------------------------------
(* OtelMetrics: meters, HTTP requests and pushed gauges                    *)

Given == [name : DOMAIN Pushed, labels : LabelSets, value : Int, kept : BOOLEAN]

OtelTypeOK ==
  /\ sdk \in BOOLEAN
  /\ meterCache \in Seq([name : Meters, real : BOOLEAN]) /\ asked \in Seq(Meters)
  /\ httpMetrics \in {"none", "noop", "real"}
  /\ flight \in [HttpRequests -> {"idle", "active", "done"}]
  /\ httpSums \in [requests : Int, active : Int]
  /\ instruments \in [DOMAIN Pushed -> {"none", "noop", "real"}]
  /\ gaugeValues \in [Keys -> Int]
  /\ sums \in [DOMAIN Pushed -> [LabelSets -> Int]]
  /\ given \in Seq(Given)
  /\ shutdowns \in Int

\* The meters in the cache are the last that were put into it, in their order.
MetersInOrder ==
  /\ Len(meterCache) = IF Len(asked) < MaxMeters THEN Len(asked) ELSE MaxMeters
  /\ \A k \in 1 .. Len(meterCache) : meterCache[k].name = asked[Len(asked) - Len(meterCache) + k]
  /\ \A j, k \in 1 .. Len(meterCache) : j # k => meterCache[j].name # meterCache[k].name

\* Until the metrics of HTTP requests are there, no request was seen.
HttpCounted ==
  /\ httpMetrics = "none" => \A r \in HttpRequests : flight[r] = "idle"
  /\ httpMetrics = "real" => httpSums.requests = InFlight("done") /\ httpSums.active = InFlight("active")
  /\ httpMetrics # "real" => httpSums.requests = 0 /\ httpSums.active = 0

\* GetMeter adds a meter to the cache, or leaves it as it is.
LEMMA GetMeterStep ==
  ASSUME OtelTypeOK, MetersInOrder, NEW name \in Meters, GetMeter(name)
  PROVE  /\ meterCache' \in Seq([name : Meters, real : BOOLEAN]) /\ asked' \in Seq(Meters)
         /\ MetersInOrder'
<1> DEFINE Meter == [name : Meters, real : BOOLEAN]
           n == Len(meterCache)
           a == Len(asked)
<1>1. meterCache \in Seq(Meter) /\ asked \in Seq(Meters) /\ n \in Nat /\ a \in Nat /\ MaxMeters \in Nat \ {0}
  BY MetersAssumption, LenProperties DEF OtelTypeOK
<1>2. CASE Cached(name)
  BY <1>1, <1>2 DEF GetMeter, MetersInOrder, meterVars
<1>3. CASE ~ Cached(name)
  <2> DEFINE e == [name |-> name, real |-> sdk]
             kept == IF n >= MaxMeters THEN Tail(meterCache) ELSE meterCache
             m == Len(kept)
  <2>1. meterCache' = Append(kept, e) /\ asked' = Append(asked, name)
    BY <1>3 DEF GetMeter
  <2>2. e \in Meter /\ e.name = name
    BY DEF OtelTypeOK
  <2>3. kept \in Seq(Meter) /\ m = (IF n >= MaxMeters THEN n - 1 ELSE n)
        /\ \A k \in 1 .. m : kept[k] = meterCache[n - m + k]
    <3>1. CASE n >= MaxMeters
      <4>1. meterCache # <<>> /\ n >= 1
        BY <1>1, <3>1, EmptySeq
      <4>2. Tail(meterCache) \in Seq(Meter) /\ Len(Tail(meterCache)) = n - 1
            /\ \A i \in 1 .. n - 1 : Tail(meterCache)[i] = meterCache[i + 1]
        BY <1>1, <4>1, HeadTailProperties
      <4>3. \A k \in 1 .. n - 1 : n - (n - 1) + k = k + 1
        BY <1>1
      <4> QED
        BY <3>1, <4>2, <4>3
    <3>2. CASE ~ (n >= MaxMeters)
      <4>1. \A k \in 1 .. n : n - n + k = k
        BY <1>1
      <4> QED
        BY <1>1, <3>2, <4>1
    <3> QED
      BY <3>1, <3>2
  <2> HIDE DEF kept, e
  <2>4. m \in Nat /\ n - m \in {0, 1} /\ m <= a
    BY <1>1, <2>3 DEF MetersInOrder
  <2>5. /\ meterCache' \in Seq(Meter) /\ Len(meterCache') = m + 1
        /\ (\A k \in 1 .. m : meterCache'[k] = kept[k]) /\ meterCache'[m + 1] = e
    BY <2>1, <2>2, <2>3, AppendProperties
  <2>6. /\ asked' \in Seq(Meters) /\ Len(asked') = a + 1
        /\ (\A k \in 1 .. a : asked'[k] = asked[k]) /\ asked'[a + 1] = name
    BY <1>1, <2>1, AppendProperties
  <2>7. Len(meterCache') = IF Len(asked') < MaxMeters THEN Len(asked') ELSE MaxMeters
    BY <1>1, <2>3, <2>5, <2>6 DEF MetersInOrder
  <2>8. \A k \in 1 .. m : meterCache'[k].name = asked[a - m + k] /\ meterCache'[k] = meterCache[n - m + k]
    <3> TAKE k \in 1 .. m
    <3>1. n - m + k \in 1 .. n /\ a - n + (n - m + k) = a - m + k
      BY <1>1, <2>4
    <3>2. meterCache[n - m + k].name = asked[a - n + (n - m + k)]
      BY <3>1 DEF MetersInOrder
    <3> QED
      BY <2>3, <2>5, <3>1, <3>2
  <2>9. \A k \in 1 .. m + 1 : meterCache'[k].name = asked'[a + 1 - (m + 1) + k]
    <3> TAKE k \in 1 .. m + 1
    <3>1. a + 1 - (m + 1) + k = a - m + k
      BY <1>1, <2>4
    <3>2. CASE k \in 1 .. m
      <4>1. a - m + k \in 1 .. a
        BY <1>1, <2>4, <3>2
      <4> QED
        BY <2>6, <2>8, <3>1, <3>2, <4>1
    <3>3. CASE k = m + 1
      <4>1. a - m + k = a + 1
        BY <1>1, <2>4, <3>3
      <4> QED
        BY <2>2, <2>5, <2>6, <3>1, <3>3, <4>1
    <3> QED
      BY <2>4, <3>2, <3>3
  <2>10. \A k \in 1 .. n : meterCache[k].name # name
    <3>1. DOMAIN meterCache = 1 .. n
      BY <1>1, LenProperties
    <3> QED
      BY <1>3, <3>1 DEF Cached
  <2>11. \A j, k \in 1 .. m + 1 : j # k => meterCache'[j].name # meterCache'[k].name
    <3>1. \A k \in 1 .. m : n - m + k \in 1 .. n /\ meterCache'[k].name = meterCache[n - m + k].name
      BY <1>1, <2>4, <2>8
    <3>2. \A k \in 1 .. m : meterCache'[k].name # name
      BY <2>10, <3>1
    <3>3. \A j, k \in 1 .. m : j # k => meterCache'[j].name # meterCache'[k].name
      <4> TAKE j, k \in 1 .. m
      <4> DEFINE jj == n - m + j
                 kk == n - m + k
      <4>1. (j # k => jj # kk) /\ jj \in 1 .. n /\ kk \in 1 .. n
        BY <1>1, <2>4
      <4>2. meterCache'[j].name = meterCache[jj].name /\ meterCache'[k].name = meterCache[kk].name
        BY <3>1
      <4> HIDE DEF jj, kk
      <4>3. jj # kk => meterCache[jj].name # meterCache[kk].name
        BY <4>1 DEF MetersInOrder
      <4> QED
        BY <4>1, <4>2, <4>3
    <3>4. \A k \in 1 .. m + 1 : k \in 1 .. m \/ k = m + 1
      BY <2>4
    <3> QED
      BY <2>2, <2>5, <3>2, <3>3, <3>4
  <2> QED
    BY <2>5, <2>6, <2>7, <2>9, <2>11 DEF MetersInOrder
<1> QED
  BY <1>2, <1>3

\* What is left after a request has gone from one state to another.
LEMMA FlightStep ==
  ASSUME OtelTypeOK, NEW r \in HttpRequests, NEW to \in {"active", "done"},
         flight' = [flight EXCEPT ![r] = to], flight[r] # to
  PROVE  /\ flight' \in [HttpRequests -> {"idle", "active", "done"}]
         /\ \A s : /\ InFlight(s) \in Nat
                   /\ s = to => InFlight(s)' = InFlight(s) + 1
                   /\ s = flight[r] => InFlight(s)' = InFlight(s) - 1
                   /\ s # to /\ s # flight[r] => InFlight(s)' = InFlight(s)
<1>1. flight' \in [HttpRequests -> {"idle", "active", "done"}]
      /\ flight'[r] = to /\ \A q \in HttpRequests \ {r} : flight'[q] = flight[q]
  BY DEF OtelTypeOK
<1>2. ASSUME NEW s
      PROVE  /\ InFlight(s) \in Nat
             /\ s = to => InFlight(s)' = InFlight(s) + 1
             /\ s = flight[r] => InFlight(s)' = InFlight(s) - 1
             /\ s # to /\ s # flight[r] => InFlight(s)' = InFlight(s)
  <2> DEFINE old == {q \in HttpRequests : flight[q] = s}
             new == {q \in HttpRequests : flight'[q] = s}
  <2>1. IsFiniteSet(HttpRequests)
    BY MetersAssumption
  <2>2. IsFiniteSet(old)
    <3>1. old \subseteq HttpRequests
      OBVIOUS
    <3> QED
      BY ONLY <2>1, <3>1, FS_Subset
  <2>3. InFlight(s) = Cardinality(old) /\ InFlight(s)' = Cardinality(new)
    BY DEF InFlight
  <2>4. s = to => new = old \cup {r} /\ r \notin old
    BY <1>1
  <2>5. s = flight[r] => new = old \ {r} /\ r \in old
    BY <1>1
  <2>6. s # to /\ s # flight[r] => new = old
    BY <1>1
  <2> HIDE DEF old, new
  <2>7. /\ Cardinality(old) \in Nat
        /\ r \notin old => Cardinality(old \cup {r}) = Cardinality(old) + 1
        /\ r \in old => Cardinality(old \ {r}) = Cardinality(old) - 1
    BY ONLY <2>2, FS_AddElement, FS_RemoveElement, FS_CardinalityType
  <2> QED
    BY <2>3, <2>4, <2>5, <2>6, <2>7
<1> QED
  BY <1>1, <1>2

\* No request is in a state that none has.
LEMMA NoneInFlight ==
  ASSUME NEW s, \A r \in HttpRequests : flight[r] # s
  PROVE  InFlight(s) = 0
<1>1. {r \in HttpRequests : flight[r] = s} = {}
  OBVIOUS
<1> QED
  BY <1>1, FS_EmptySet DEF InFlight

\* A step of a request counts it, or drops it as the ones before.
LEMMA HttpStep ==
  ASSUME OtelTypeOK, HttpCounted, NEW r \in HttpRequests,
         TrackActiveRequests(r) \/ RecordHttpMetrics(r)
  PROVE  /\ flight' \in [HttpRequests -> {"idle", "active", "done"}]
         /\ httpMetrics' \in {"noop", "real"}
         /\ httpSums' \in [requests : Int, active : Int]
         /\ HttpCounted'
<1>1. PICK to \in {"active", "done"} :
        /\ flight' = [flight EXCEPT ![r] = to]
        /\ to = "active" => TrackActiveRequests(r) /\ flight[r] = "idle"
        /\ to = "done" => RecordHttpMetrics(r) /\ flight[r] = "active"
  BY DEF TrackActiveRequests, RecordHttpMetrics
<1>2. flight[r] # to
  BY <1>1
<1> DEFINE change == IF to = "active" THEN [requests |-> 0, active |-> 1] ELSE [requests |-> 1, active |-> -1]
<1>3. UseHttpMetrics(change)
  BY <1>1 DEF TrackActiveRequests, RecordHttpMetrics
<1>4. /\ httpMetrics' = GetHttpMetrics
      /\ httpSums' = IF GetHttpMetrics = "real"
                     THEN [k \in DOMAIN httpSums |-> httpSums[k] + change[k]] ELSE httpSums
  BY <1>3 DEF UseHttpMetrics
<1>5. /\ flight' \in [HttpRequests -> {"idle", "active", "done"}]
      /\ \A s : /\ InFlight(s) \in Nat
                /\ s = to => InFlight(s)' = InFlight(s) + 1
                /\ s = flight[r] => InFlight(s)' = InFlight(s) - 1
                /\ s # to /\ s # flight[r] => InFlight(s)' = InFlight(s)
  BY <1>1, <1>2, FlightStep
<1>6. /\ GetHttpMetrics \in {"noop", "real"}
      /\ httpMetrics # "none" => GetHttpMetrics = httpMetrics
  BY DEF GetHttpMetrics, Instrument, OtelTypeOK
<1>7. httpMetrics = "none" => InFlight("done") = 0 /\ InFlight("active") = 0
  BY NoneInFlight DEF HttpCounted
<1>8. httpMetrics = "none" => httpSums.requests = 0 /\ httpSums.active = 0
  BY DEF HttpCounted
<1>9. GetHttpMetrics = "real" => httpSums.requests = InFlight("done") /\ httpSums.active = InFlight("active")
  BY <1>6, <1>7, <1>8 DEF HttpCounted
<1>10. GetHttpMetrics = "noop" => httpSums.requests = 0 /\ httpSums.active = 0
  BY <1>6, <1>8 DEF HttpCounted
<1>11. /\ InFlight("done")' = InFlight("done") + change.requests
       /\ InFlight("active")' = InFlight("active") + change.active
  <2>1. CASE to = "active"
    BY <1>1, <1>5, <2>1
  <2>2. CASE to = "done"
    <3>1. flight[r] = "active"
      BY <1>1, <2>2
    <3> QED
      BY <1>5, <2>2, <3>1
  <2> QED
    BY <2>1, <2>2
<1>12. httpSums' \in [requests : Int, active : Int]
       /\ (GetHttpMetrics = "real" => /\ httpSums'.requests = httpSums.requests + change.requests
                                      /\ httpSums'.active = httpSums.active + change.active)
       /\ (GetHttpMetrics = "noop" => httpSums' = httpSums)
  <2>1. httpSums \in [requests : Int, active : Int] /\ DOMAIN httpSums = {"requests", "active"}
    BY DEF OtelTypeOK
  <2>2. change \in [requests : Int, active : Int]
    OBVIOUS
  <2> HIDE DEF change
  <2> QED
    BY <1>4, <1>6, <2>1, <2>2
<1> HIDE DEF change
<1>13. HttpCounted'
  <2>1. CASE GetHttpMetrics = "real"
    BY <1>4, <1>9, <1>11, <1>12, <2>1 DEF HttpCounted
  <2>2. CASE GetHttpMetrics = "noop"
    BY <1>4, <1>10, <1>12, <2>2 DEF HttpCounted
  <2> QED
    BY <1>6, <2>1, <2>2
<1> QED
  BY <1>4, <1>5, <1>6, <1>12, <1>13

\* The value that was given last for a metric and labels, and kept.
LastKept(n, l) == IF KeptOf(n, l) = {} THEN 0 ELSE given[Max(KeptOf(n, l))].value

\* Until the exporter is shut down: of a metric without an instrument nothing was kept,
\* GaugeValues has what was kept last of a gauge whose key is its own, and so has the SDK
\* when the instrument is one of it.
OwnGauge(n, l) == Pushed[n] = "gauge" /\ KeyOfItsOwn(n, l)
GaugesInStep ==
  shutdowns = -1 => \A n \in DOMAIN Pushed, l \in LabelSets :
    /\ instruments[n] = "none" => KeptOf(n, l) = {} /\ sums[n][l] = 0
    /\ OwnGauge(n, l) => Previous(n, l) = LastKept(n, l)
    /\ OwnGauge(n, l) /\ instruments[n] = "real" => sums[n][l] = Previous(n, l)

\* Every gauge has a key.
LEMMA HasKey == ASSUME NEW n \in DOMAIN Pushed, NEW l \in LabelSets PROVE GaugeKey[n][l] \in Keys
<1> QED
  BY DEF Keys

\* A set of numbers that is not empty has a least element.
LEMMA Least ==
  ASSUME NEW T, T \subseteq Nat, T # {}
  PROVE  \E x \in T : \A y \in T : x <= y
<1> DEFINE R == {ss \in Nat \X Nat : ss[1] < ss[2]}
<1>1. IsWellFoundedOn(R, Nat)
  BY NatLessThanWellFounded DEF OpToRel
<1> HIDE DEF R
<1>2. PICK x \in T : \A y \in T : ~ (<<y, x>> \in R)
  BY <1>1, WFMin
<1>3. \A y \in T : ~ (y < x)
  BY <1>2 DEF R
<1> QED
  BY <1>3

\* The greatest member of a set of numbers that has a bound.
LEMMA MaxIs ==
  ASSUME NEW T, T \subseteq Int, NEW m \in T, \A y \in T : m >= y
  PROVE  Max(T) = m
<1>1. Max(T) \in T /\ \A y \in T : Max(T) >= y
  BY DEF Max
<1>2. Max(T) >= m /\ m >= Max(T)
  BY <1>1
<1>3. \A a, b \in Int : a >= b /\ b >= a => a = b
  OBVIOUS
<1>4. Max(T) \in Int /\ m \in Int
  BY <1>1
<1> QED
  BY <1>2, <1>3, <1>4

\* A value that is given becomes the last of its metric and labels, and of no other.
LEMMA GivenStep ==
  ASSUME OtelTypeOK, NEW n \in DOMAIN Pushed, NEW l \in LabelSets, NEW v \in Int,
         given' = Append(given, [name |-> n, labels |-> l, value |-> v, kept |-> instruments[n] # "none"])
  PROVE  /\ given' \in Seq(Given)
         /\ \A n2 \in DOMAIN Pushed, l2 \in LabelSets :
              IF n2 = n /\ l2 = l /\ instruments[n] # "none"
              THEN KeptOf(n2, l2)' # {} /\ LastKept(n2, l2)' = v
              ELSE KeptOf(n2, l2)' = KeptOf(n2, l2) /\ LastKept(n2, l2)' = LastKept(n2, l2)
<1> DEFINE e == [name |-> n, labels |-> l, value |-> v, kept |-> instruments[n] # "none"]
           m == Len(given)
<1>1. given \in Seq(Given) /\ m \in Nat
  BY LenProperties DEF OtelTypeOK
<1>2. e \in Given
  BY DEF Given
<1>3. e.name = n /\ e.labels = l /\ e.value = v /\ (e.kept <=> instruments[n] # "none")
  OBVIOUS
<1>4. given' = Append(given, e)
  OBVIOUS
<1> HIDE DEF e
<1>5. /\ given' \in Seq(Given) /\ Len(given') = m + 1
      /\ (\A k \in 1 .. m : given'[k] = given[k]) /\ given'[m + 1] = e
  BY <1>1, <1>2, <1>4, AppendProperties
<1>6. DOMAIN given = 1 .. m /\ DOMAIN given' = 1 .. m + 1
  BY <1>1, <1>5, LenProperties
<1>7. 1 .. m + 1 = (1 .. m) \cup {m + 1}
  BY <1>1
<1> HIDE DEF m
<1>8. ASSUME NEW n2 \in DOMAIN Pushed, NEW l2 \in LabelSets
      PROVE  IF n2 = n /\ l2 = l /\ instruments[n] # "none"
             THEN KeptOf(n2, l2)' # {} /\ LastKept(n2, l2)' = v
             ELSE KeptOf(n2, l2)' = KeptOf(n2, l2) /\ LastKept(n2, l2)' = LastKept(n2, l2)
  <2> DEFINE old == {k \in DOMAIN given : given[k].name = n2 /\ given[k].labels = l2 /\ given[k].kept}
             new == {k \in DOMAIN given' : given'[k].name = n2 /\ given'[k].labels = l2 /\ given'[k].kept}
  <2>1. KeptOf(n2, l2) = old /\ KeptOf(n2, l2)' = new
    BY DEF KeptOf
  <2>2. old \subseteq 1 .. m
    BY <1>6
  <2>3. CASE n2 = n /\ l2 = l /\ instruments[n] # "none"
    <3>1. new = old \cup {m + 1}
      BY <1>3, <1>5, <1>6, <1>7, <2>3
    <3> HIDE DEF old, new
    <3>2. new \subseteq Int /\ m + 1 \in new /\ \A y \in new : m + 1 >= y
      BY <1>1, <2>2, <3>1
    <3>3. Max(new) = m + 1
      BY <3>2, MaxIs
    <3>4. LastKept(n2, l2)' = IF new = {} THEN 0 ELSE given'[Max(new)].value
      BY <2>1 DEF LastKept
    <3> QED
      BY <1>3, <1>5, <2>1, <2>3, <3>2, <3>3, <3>4
  <2>4. CASE ~ (n2 = n /\ l2 = l /\ instruments[n] # "none")
    <3>1. m + 1 \notin new
      BY <1>3, <1>5, <2>4
    <3>2. new = old
      BY <1>5, <1>6, <1>7, <3>1
    <3> HIDE DEF old, new
    <3>3. old # {} => Max(old) \in 1 .. m
      <4> SUFFICES ASSUME old # {} PROVE Max(old) \in 1 .. m
        OBVIOUS
      <4> DEFINE T == {m - k : k \in old}
      <4>1. T # {} /\ T \subseteq Nat
        <5>1. \A k \in 1 .. m : m - k \in Nat
          BY <1>1
        <5> QED
          BY <2>2, <5>1
      <4>2. PICK x \in T : \A y \in T : x <= y
        BY <4>1, Least
      <4>3. PICK k \in old : x = m - k
        BY <4>2
      <4>4. \A y \in old : k >= y
        <5> TAKE y \in old
        <5>1. m - y \in T
          OBVIOUS
        <5>2. m - k <= m - y
          BY <4>2, <4>3, <5>1
        <5> QED
          BY <1>1, <2>2, <5>2
      <4>5. old \subseteq Int
        BY <2>2
      <4>6. Max(old) = k
        BY <4>4, <4>5, MaxIs
      <4> QED
        BY <2>2, <4>6
    <3>4. LastKept(n2, l2)' = IF new = {} THEN 0 ELSE given'[Max(new)].value
      BY <2>1 DEF LastKept
    <3>5. LastKept(n2, l2) = IF old = {} THEN 0 ELSE given[Max(old)].value
      BY <2>1 DEF LastKept
    <3> QED
      BY <1>5, <2>1, <2>4, <3>2, <3>3, <3>4, <3>5
  <2> QED
    BY <2>3, <2>4
<1> QED
  BY <1>5, <1>8

\* A value that is pushed keeps the gauges in step.
LEMMA RecordedStep ==
  ASSUME OtelTypeOK, GaugesInStep,
         NEW n \in DOMAIN Pushed, NEW l \in LabelSets, NEW v \in GivenValues, OnMetricRecorded(n, l, v)
  PROVE  /\ given' \in Seq(Given)
         /\ gaugeValues' \in [Keys -> Int]
         /\ sums' \in [DOMAIN Pushed -> [LabelSets -> Int]]
         /\ GaugesInStep'
<1>1. v \in Int
  BY MetersAssumption
<1>2. given' = Append(given, [name |-> n, labels |-> l, value |-> v, kept |-> instruments[n] # "none"])
  BY DEF OnMetricRecorded
<1>3. /\ given' \in Seq(Given)
      /\ \A n2 \in DOMAIN Pushed, l2 \in LabelSets :
           IF n2 = n /\ l2 = l /\ instruments[n] # "none"
           THEN KeptOf(n2, l2)' # {} /\ LastKept(n2, l2)' = v
           ELSE KeptOf(n2, l2)' = KeptOf(n2, l2) /\ LastKept(n2, l2)' = LastKept(n2, l2)
  BY <1>1, <1>2, GivenStep
<1>4. instruments' = instruments /\ shutdowns' = shutdowns
  BY DEF OnMetricRecorded
<1>5. CASE instruments[n] = "none"
  <2>1. gaugeValues' = gaugeValues /\ sums' = sums
    BY <1>5 DEF OnMetricRecorded
  <2>2. \A n2 \in DOMAIN Pushed, l2 \in LabelSets :
          KeptOf(n2, l2)' = KeptOf(n2, l2) /\ LastKept(n2, l2)' = LastKept(n2, l2)
    BY <1>3, <1>5
  <2> QED
    BY <1>3, <1>4, <2>1, <2>2 DEF GaugesInStep, Previous, OtelTypeOK
<1>6. CASE instruments[n] # "none"
  <2> DEFINE delta == IF Pushed[n] = "gauge" THEN v - Previous(n, l) ELSE v
             key == GaugeKey[n][l]
  <2>0. key \in Keys /\ Previous(n, l) = gaugeValues[key] /\ Previous(n, l) \in Int
    BY HasKey DEF Previous, OtelTypeOK
  <2>1. /\ gaugeValues' = IF Pushed[n] = "gauge" THEN [gaugeValues EXCEPT ![key] = v] ELSE gaugeValues
        /\ sums' = IF instruments[n] = "real" THEN [sums EXCEPT ![n][l] = sums[n][l] + delta] ELSE sums
    BY <1>6 DEF OnMetricRecorded
  <2>2. delta \in Int /\ sums[n][l] + delta \in Int
    BY <1>1, <2>0 DEF OtelTypeOK
  <2>3. Pushed[n] = "gauge" => Previous(n, l) + delta = v
    BY <1>1, <2>0
  <2> HIDE DEF delta
  <2>4. /\ gaugeValues' \in [Keys -> Int]
        /\ \A k \in Keys : gaugeValues'[k] = IF Pushed[n] = "gauge" /\ k = key THEN v ELSE gaugeValues[k]
    BY <1>1, <2>0, <2>1 DEF OtelTypeOK
  <2>5. /\ sums' \in [DOMAIN Pushed -> [LabelSets -> Int]]
        /\ \A n2 \in DOMAIN Pushed, l2 \in LabelSets :
             sums'[n2][l2] = IF instruments[n] = "real" /\ n2 = n /\ l2 = l THEN sums[n][l] + delta ELSE sums[n2][l2]
    BY <2>1, <2>2 DEF OtelTypeOK
  <2>6. ASSUME shutdowns = -1, NEW n2 \in DOMAIN Pushed, NEW l2 \in LabelSets
        PROVE  /\ instruments[n2] = "none" => KeptOf(n2, l2)' = {} /\ sums'[n2][l2] = 0
               /\ OwnGauge(n2, l2) => Previous(n2, l2)' = LastKept(n2, l2)'
               /\ OwnGauge(n2, l2) /\ instruments[n2] = "real" => sums'[n2][l2] = Previous(n2, l2)'
    <3>1. /\ instruments[n2] = "none" => KeptOf(n2, l2) = {} /\ sums[n2][l2] = 0
          /\ OwnGauge(n2, l2) => Previous(n2, l2) = LastKept(n2, l2)
          /\ OwnGauge(n2, l2) /\ instruments[n2] = "real" => sums[n2][l2] = Previous(n2, l2)
      BY <2>6 DEF GaugesInStep
    <3>0. /\ GaugeKey[n2][l2] \in Keys /\ Previous(n2, l2) = gaugeValues[GaugeKey[n2][l2]]
          /\ Previous(n2, l2)' = gaugeValues'[GaugeKey[n2][l2]]
      BY HasKey DEF Previous
    <3>2. CASE n2 = n /\ l2 = l
      <4>1. LastKept(n2, l2)' = v
        BY <1>3, <1>6, <3>2
      <4> QED
        BY <1>6, <2>0, <2>3, <2>4, <2>5, <3>0, <3>1, <3>2, <4>1 DEF OwnGauge
    <3>3. CASE ~ (n2 = n /\ l2 = l)
      <4>1. KeptOf(n2, l2)' = KeptOf(n2, l2) /\ LastKept(n2, l2)' = LastKept(n2, l2)
        BY <1>3, <3>3
      <4>2. sums'[n2][l2] = sums[n2][l2]
        BY <2>5, <3>3
      <4>3. OwnGauge(n2, l2) => Previous(n2, l2)' = Previous(n2, l2)
        <5>1. OwnGauge(n2, l2) /\ Pushed[n] = "gauge" => GaugeKey[n2][l2] # key
          BY <3>3 DEF OwnGauge, KeyOfItsOwn
        <5> QED
          BY <2>4, <3>0, <5>1
      <4> QED
        BY <3>1, <4>1, <4>2, <4>3
    <3> QED
      BY <3>2, <3>3
  <2> QED
    BY <1>3, <1>4, <2>4, <2>5, <2>6 DEF GaugesInStep
<1> QED
  BY <1>5, <1>6

\* The inductive invariant of OpenTelemetry's metrics.
OtelInv == OtelTypeOK /\ MetersInOrder /\ HttpCounted /\ GaugesInStep

\* At the start nothing was asked for, seen or given.
LEMMA OtelInitial == OtelInit => OtelInv
<1> SUFFICES ASSUME OtelInit PROVE OtelInv
  OBVIOUS
<1>1. OtelTypeOK
  <2>1. /\ sdk \in BOOLEAN /\ httpMetrics \in {"none", "noop", "real"} /\ shutdowns \in Int
        /\ flight \in [HttpRequests -> {"idle", "active", "done"}]
        /\ httpSums \in [requests : Int, active : Int]
    <3>1. sdk = FALSE /\ httpMetrics = "none" /\ shutdowns = -1
      BY DEF OtelInit
    <3>2. -1 \in Int
      OBVIOUS
    <3>3. flight \in [HttpRequests -> {"idle", "active", "done"}]
      BY DEF OtelInit
    <3>4. httpSums \in [requests : Int, active : Int]
      BY DEF OtelInit
    <3> QED
      BY <3>1, <3>2, <3>3, <3>4
  <2>2. /\ instruments \in [DOMAIN Pushed -> {"none", "noop", "real"}]
        /\ gaugeValues \in [Keys -> Int]
        /\ sums \in [DOMAIN Pushed -> [LabelSets -> Int]]
    BY DEF OtelInit, Zero, NoValues
  <2>3. given = <<>> /\ meterCache = <<>> /\ asked = <<>>
    BY DEF OtelInit
  <2>4. given \in Seq(Given) /\ meterCache \in Seq([name : Meters, real : BOOLEAN]) /\ asked \in Seq(Meters)
    BY <2>3, EmptySeq
  <2> QED
    BY <2>1, <2>2, <2>4 DEF OtelTypeOK
<1>2. MetersInOrder
  <2>1. Len(meterCache) = 0 /\ Len(asked) = 0 /\ 1 .. 0 = {}
    BY DEF OtelInit
  <2> QED
    BY <2>1, MetersAssumption DEF MetersInOrder
<1>3. HttpCounted
  BY DEF OtelInit, HttpCounted
<1>4. \A n \in DOMAIN Pushed, l \in LabelSets : KeptOf(n, l) = {}
  BY DEF OtelInit, KeptOf
<1>5. GaugesInStep
  <2>1. \A n \in DOMAIN Pushed, l \in LabelSets : Previous(n, l) = 0
    BY HasKey DEF OtelInit, Previous, NoValues
  <2> QED
    BY <1>4, <2>1 DEF OtelInit, GaugesInStep, LastKept, Zero
<1> QED
  BY <1>1, <1>2, <1>3, <1>5 DEF OtelInv

\* What a step leaves alone keeps its part of the invariant.
LEMMA PartsUnchanged ==
  /\ MetersInOrder /\ UNCHANGED meterVars => MetersInOrder'
  /\ HttpCounted /\ UNCHANGED httpVars => HttpCounted'
  /\ GaugesInStep /\ UNCHANGED exporterVars => GaugesInStep'
<1>1. MetersInOrder /\ UNCHANGED meterVars => MetersInOrder'
  BY DEF MetersInOrder, meterVars
<1>2. HttpCounted /\ UNCHANGED httpVars => HttpCounted'
  BY DEF HttpCounted, httpVars, InFlight
<1>3. GaugesInStep /\ UNCHANGED exporterVars => GaugesInStep'
  <2> SUFFICES ASSUME GaugesInStep, UNCHANGED exporterVars PROVE GaugesInStep'
    OBVIOUS
  <2>1. /\ instruments' = instruments /\ gaugeValues' = gaugeValues /\ sums' = sums
        /\ given' = given /\ shutdowns' = shutdowns
    BY DEF exporterVars
  <2>2. \A n \in DOMAIN Pushed, l \in LabelSets : KeptOf(n, l)' = KeptOf(n, l) /\ LastKept(n, l)' = LastKept(n, l)
    BY <2>1 DEF KeptOf, LastKept
  <2> QED
    BY <2>1, <2>2 DEF GaugesInStep, Previous
<1> QED
  BY <1>1, <1>2, <1>3

\* The application's calls and its requests keep the invariant.
LEMMA HttpNextKeeps == OtelInv /\ HttpNext => OtelInv'
<1> SUFFICES ASSUME OtelInv, HttpNext PROVE OtelInv'
  OBVIOUS
<1> USE DEF OtelInv
<1>1. CASE StartSdk
  <2>1. sdk' = TRUE /\ UNCHANGED <<meterVars, httpVars, exporterVars>>
    BY <1>1 DEF StartSdk
  <2>2. OtelTypeOK'
    BY <2>1 DEF OtelTypeOK, meterVars, httpVars, exporterVars
  <2> QED
    BY <2>1, <2>2, PartsUnchanged
<1>2. ASSUME NEW name \in Meters, CreateInstrument(name) PROVE OtelInv'
  <2>1. GetMeter(name) /\ UNCHANGED <<sdk, httpVars, exporterVars>>
    BY <1>2 DEF CreateInstrument
  <2>2. /\ meterCache' \in Seq([name : Meters, real : BOOLEAN]) /\ asked' \in Seq(Meters)
        /\ MetersInOrder'
    BY <2>1, GetMeterStep
  <2>3. OtelTypeOK'
    BY <2>1, <2>2 DEF OtelTypeOK, httpVars, exporterVars
  <2> QED
    BY <2>1, <2>2, <2>3, PartsUnchanged
<1>3. ASSUME NEW r \in HttpRequests, TrackActiveRequests(r) \/ RecordHttpMetrics(r) PROVE OtelInv'
  <2>1. /\ IF httpMetrics = "none" THEN GetMeter(DefaultMeter) ELSE UNCHANGED meterVars
        /\ UNCHANGED <<sdk, exporterVars>>
    BY <1>3 DEF TrackActiveRequests, RecordHttpMetrics, UseHttpMetrics
  <2>2. /\ flight' \in [HttpRequests -> {"idle", "active", "done"}]
        /\ httpMetrics' \in {"noop", "real"}
        /\ httpSums' \in [requests : Int, active : Int]
        /\ HttpCounted'
    BY <1>3, HttpStep
  <2>3. /\ meterCache' \in Seq([name : Meters, real : BOOLEAN]) /\ asked' \in Seq(Meters)
        /\ MetersInOrder'
    <3>1. CASE httpMetrics = "none"
      BY <2>1, <3>1, GetMeterStep, MetersAssumption
    <3>2. CASE httpMetrics # "none"
      BY <2>1, <3>2, PartsUnchanged DEF OtelTypeOK, meterVars
    <3> QED
      BY <3>1, <3>2
  <2>4. OtelTypeOK'
    BY <2>1, <2>2, <2>3 DEF OtelTypeOK, exporterVars
  <2> QED
    BY <2>1, <2>2, <2>3, <2>4, PartsUnchanged
<1> QED
  BY <1>1, <1>2, <1>3 DEF HttpNext

\* The exporter's methods keep the invariant.
LEMMA PushNextKeeps == OtelInv /\ PushNext => OtelInv'
<1> SUFFICES ASSUME OtelInv, PushNext PROVE OtelInv'
  OBVIOUS
<1> USE DEF OtelInv
<1>1. CASE StartSdk
  BY <1>1, HttpNextKeeps DEF HttpNext
<1>2. ASSUME NEW n \in DOMAIN Pushed, OnDescriptorRegistered(n) PROVE OtelInv'
  <2>1. /\ instruments[n] = "none"
        /\ instruments' = [instruments EXCEPT ![n] = Instrument]
        /\ UNCHANGED <<sdk, meterVars, httpVars, gaugeValues, sums, given, shutdowns>>
    BY <1>2 DEF OnDescriptorRegistered
  <2>2. Instrument \in {"noop", "real"}
    BY DEF Instrument
  <2>3. OtelTypeOK'
    BY <2>1, <2>2 DEF OtelTypeOK, meterVars, httpVars
  <2>4. \A n2 \in DOMAIN Pushed, l2 \in LabelSets :
          KeptOf(n2, l2)' = KeptOf(n2, l2) /\ LastKept(n2, l2)' = LastKept(n2, l2)
    BY <2>1 DEF KeptOf, LastKept
  <2>5. GaugesInStep'
    <3> SUFFICES ASSUME shutdowns = -1, NEW n2 \in DOMAIN Pushed, NEW l2 \in LabelSets
                 PROVE  /\ instruments'[n2] = "none" => KeptOf(n2, l2)' = {} /\ sums'[n2][l2] = 0
                        /\ OwnGauge(n2, l2) => Previous(n2, l2)' = LastKept(n2, l2)'
                        /\ OwnGauge(n2, l2) /\ instruments'[n2] = "real"
                             => sums'[n2][l2] = Previous(n2, l2)'
      BY <2>1 DEF GaugesInStep
    <3>1. /\ instruments[n2] = "none" => KeptOf(n2, l2) = {} /\ sums[n2][l2] = 0
          /\ OwnGauge(n2, l2) => Previous(n2, l2) = LastKept(n2, l2)
          /\ OwnGauge(n2, l2) /\ instruments[n2] = "real" => sums[n2][l2] = Previous(n2, l2)
      BY DEF GaugesInStep
    <3>4. Previous(n2, l2)' = Previous(n2, l2)
      BY <2>1 DEF Previous
    <3>2. n2 # n => instruments'[n2] = instruments[n2]
      BY <2>1 DEF OtelTypeOK
    <3>3. n2 = n => LastKept(n2, l2) = 0 /\ instruments'[n2] # "none"
      BY <2>1, <2>2, <3>1 DEF LastKept, OtelTypeOK
    <3> QED
      BY <2>1, <2>4, <3>1, <3>2, <3>3, <3>4
  <2> QED
    BY <2>1, <2>3, <2>5, PartsUnchanged
<1>3. ASSUME NEW n \in DOMAIN Pushed, NEW l \in LabelSets, NEW v \in GivenValues, OnMetricRecorded(n, l, v)
      PROVE OtelInv'
  <2>1. UNCHANGED <<sdk, meterVars, httpVars, instruments, shutdowns>>
    BY <1>3 DEF OnMetricRecorded
  <2>2. /\ given' \in Seq(Given)
        /\ gaugeValues' \in [Keys -> Int]
        /\ sums' \in [DOMAIN Pushed -> [LabelSets -> Int]]
        /\ GaugesInStep'
    BY <1>3, RecordedStep
  <2>3. OtelTypeOK'
    BY <2>1, <2>2 DEF OtelTypeOK, meterVars, httpVars
  <2> QED
    BY <2>1, <2>2, <2>3, PartsUnchanged
<1>4. CASE Shutdown
  <2>1. /\ shutdowns' = Len(given) /\ instruments' = [n \in DOMAIN Pushed |-> "none"] /\ gaugeValues' = NoValues
        /\ UNCHANGED <<sdk, meterVars, httpVars, sums, given>>
    BY <1>4 DEF Shutdown
  <2>2. Len(given) \in Nat
    BY LenProperties DEF OtelTypeOK
  <2>3. OtelTypeOK'
    BY <2>1, <2>2 DEF OtelTypeOK, meterVars, httpVars, NoValues
  <2>4. shutdowns' # -1
    BY <2>1, <2>2
  <2>5. GaugesInStep'
    BY <2>4 DEF GaugesInStep
  <2> QED
    BY <2>1, <2>3, <2>5, PartsUnchanged
<1> QED
  BY <1>1, <1>2, <1>3, <1>4 DEF PushNext

\* The invariant is inductive.
LEMMA OtelInductive == OtelInv /\ [HttpNext \/ PushNext]_otelVars => OtelInv'
<1> SUFFICES ASSUME OtelInv, [HttpNext \/ PushNext]_otelVars PROVE OtelInv'
  OBVIOUS
<1>1. CASE UNCHANGED otelVars
  <2>1. OtelTypeOK'
    BY <1>1 DEF OtelInv, OtelTypeOK, otelVars
  <2> QED
    BY <1>1, <2>1, PartsUnchanged DEF OtelInv, otelVars, meterVars, httpVars, exporterVars
<1> QED
  BY <1>1, HttpNextKeeps, PushNextKeeps

\* The names in the cache are the end of the list of those that were asked for.
LEMMA OtelImplies == OtelInv => PushedIsKept
<1> SUFFICES ASSUME OtelInv PROVE PushedIsKept
  OBVIOUS
<1> DEFINE n == Len(meterCache)
           a == Len(asked)
           Meter == [name : Meters, real : BOOLEAN]
<1>1. meterCache \in Seq(Meter) /\ asked \in Seq(Meters) /\ n \in Nat /\ a \in Nat /\ n <= a
  BY MetersAssumption, LenProperties DEF OtelInv, OtelTypeOK, MetersInOrder
<1>2. DOMAIN meterCache = 1 .. n
  BY <1>1, LenProperties
<1>3. MetersAreTheNewest
  <2> DEFINE names == [k \in 1 .. n |-> meterCache[k].name]
             end == SubSeq(asked, a - n + 1, a)
  <2>0. \A x, y \in Nat : x <= y =>
          \E i, j \in Int : i = y - x + 1 /\ j = y /\ i >= 1 /\ j - i + 1 = x /\ i <= j + 1
    <3> TAKE x, y \in Nat
    <3>1. y - x + 1 \in Int /\ y \in Int /\ y - (y - x + 1) + 1 = x
      OBVIOUS
    <3>2. x <= y => y - x + 1 >= 1 /\ y - x + 1 <= y + 1
      OBVIOUS
    <3> QED
      BY <3>1, <3>2
  <2>1. PICK i, j \in Int : i = a - n + 1 /\ j = a /\ i >= 1 /\ j - i + 1 = n /\ i <= j + 1
    <3> HIDE DEF n, a
    <3> QED
      BY <1>1, <2>0
  <2>2. end = SubSeq(asked, i, j)
    BY <2>1
  <2>3. SubSeq(asked, i, j) = [k \in 1 .. j - i + 1 |-> asked[i + k - 1]]
    OBVIOUS
  <2>4. \A k \in 1 .. n : i + k - 1 = a - n + k
    BY <1>1, <2>1
  <2>5. \A k \in 1 .. n : meterCache[k].name = asked[a - n + k]
    BY DEF OtelInv, MetersInOrder
  <2>6. SubSeq(asked, i, j) = [k \in 1 .. n |-> asked[i + k - 1]]
    BY <2>1, <2>3
  <2>7. names = [k \in 1 .. n |-> asked[i + k - 1]]
    BY <2>4, <2>5
  <2>8. [k \in DOMAIN meterCache |-> meterCache[k].name] = names
    BY <1>2
  <2> HIDE DEF names, end
  <2>9. [k \in DOMAIN meterCache |-> meterCache[k].name] = end
    BY <2>2, <2>6, <2>7, <2>8
  <2> QED
    BY <1>2, <2>9 DEF MetersAreTheNewest, OtelInv, MetersInOrder, end
<1>4. HttpMetricsAreWhole
  BY DEF OtelInv, OtelTypeOK, HttpCounted, HttpMetricsAreWhole
<1>5. GaugesShowTheLast
  BY DEF OtelInv, GaugesInStep, OwnGauge, GaugesShowTheLast, LastKept
<1> QED
  BY <1>3, <1>4, <1>5 DEF PushedIsKept

\* What OpenTelemetry is given adds up, whatever is asked for, requested or pushed, and
\* whenever the SDK is started: the cache has the newest meters, requests are counted all
\* or not at all, and a gauge whose key no other labels share shows the value that was given
\* last.
THEOREM PushedCorrect == OtelSpec => []PushedIsKept
<1>1. OtelInit => OtelInv
  BY OtelInitial
<1>2. OtelInv /\ [HttpNext \/ PushNext]_otelVars => OtelInv'
  BY OtelInductive
<1>3. OtelInv => PushedIsKept
  BY OtelImplies
<1> QED
  BY <1>1, <1>2, <1>3, PTL DEF OtelSpec

-----------------------------------------------------------------------------
(* Tracing: calls, spans and counts                                        *)

\* What a span may be told of arguments and results, and what a call may log.
Values == {SanitizeArgument(a) : a \in UNION {ToSet(Decorated[m].args) \cup {Decorated[m].result} : m \in Methods}}
LabelLists == {<<>>} \cup UNION {Decorated[m].labels : m \in Methods}
Descriptors == [help : Methods \cup {"none"}, type : {"none", "histogram", "counter", "errorCounter"},
                labelNames : LabelLists]
Spots == [what : {"attributes", "entry"}, span : Calls \cup {NoCall}]

CallRecords ==
  [body : {"idle", "refused", "running", "suspended", "ended"}, method : Methods \cup {"none"},
   parent : Calls \cup {NoCall}, labels : LabelLists, did : {"none", "ok", "error"},
   awaited : BOOLEAN, counting : BOOLEAN, handled : {"none", "ok", "error"},
   told : {"none", "ok", "error"}, ctx : Calls \cup {NoCall}]
SpanRecords ==
  [state : {"none", "open", "ended"}, parent : Calls \cup {NoCall}, status : {"unset", "ok", "error"},
   ends : Nat, shown : SUBSET Values]

TracingTypeOK ==
  /\ holder \in BOOLEAN
  /\ descriptors \in [Metrics -> Descriptors]
  /\ recorded \in [Metrics -> Nat]
  /\ stack \in Seq(Calls)
  /\ calls \in [Calls -> CallRecords]
  /\ spans \in [Calls -> SpanRecords]
  /\ marks \in [Calls -> Seq(Spots)]

Begun == {"running", "suspended", "ended"}

\* The context in which a caller runs.
ContextOf(p) == IF p = NoCall THEN NoCall ELSE calls[p].ctx

\* The stack has running calls, each once.
StackRuns ==
  /\ \A i \in 1 .. Len(stack) : calls[stack[i]].body = "running"
  /\ \A i, j \in 1 .. Len(stack) : i # j => stack[i] # stack[j]

\* What a call has of its caller.
Placed(c) ==
  /\ calls[c].body \in Begun => calls[c].ctx = IF spans[c].state # "none" THEN c ELSE ContextOf(calls[c].parent)
  /\ calls[c].body = "idle" => calls[c].parent = NoCall /\ spans[c].state = "none"
  /\ calls[c].body # "idle" => calls[c].method \in Methods
  /\ calls[c].body \notin Begun => marks[c] = <<>>
  /\ calls[c].parent # NoCall => calls[calls[c].parent].body \in Begun
  /\ spans[c].state # "none" => spans[c].parent = ContextOf(calls[c].parent)
  /\ \A i \in 1 .. Len(marks[c]) : marks[c][i].span = calls[c].ctx

\* No call is its own caller, nor are calls in a circle.
CallersCameFirst == \A S \in SUBSET Calls : S # {} => \E c \in S : calls[c].parent \notin S

TraceInv == StackRuns /\ (\A c \in Calls : Placed(c)) /\ CallersCameFirst

\* The span above a call is the context it has.
LEMMA AboveIsContext ==
  ASSUME TracingTypeOK, TraceInv
  PROVE  /\ SpanAbove[NoCall] = NoCall
         /\ \A c \in Calls : SpanAbove[c] = IF spans[c].state # "none" THEN c ELSE ContextOf(calls[c].parent)
<1> DEFINE D == Calls \cup {NoCall}
           Above(f) == [c \in D |-> IF c = NoCall THEN NoCall
                                    ELSE IF spans[c].state # "none" THEN c ELSE f[calls[c].parent]]
           W == [c \in D |-> IF c = NoCall THEN NoCall
                             ELSE IF spans[c].state # "none" THEN c ELSE ContextOf(calls[c].parent)]
<1>1. \A c \in Calls : c # NoCall /\ calls[c].parent \in D /\ Placed(c)
  BY TracingAssumption DEF TracingTypeOK, CallRecords, TraceInv
<1>2. \A c \in Calls : W[calls[c].parent] = ContextOf(calls[c].parent)
  <2> TAKE c \in Calls
  <2>1. CASE calls[c].parent = NoCall
    BY <1>1, <2>1 DEF ContextOf
  <2>2. CASE calls[c].parent # NoCall
    <3> DEFINE p == calls[c].parent
    <3>1. p \in Calls /\ calls[p].body \in Begun
      BY <1>1, <2>2 DEF Placed
    <3>2. calls[p].ctx = IF spans[p].state # "none" THEN p ELSE ContextOf(calls[p].parent)
      BY <1>1, <3>1 DEF Placed
    <3>3. p # NoCall
      BY <2>2
    <3> HIDE DEF p
    <3>4. W[p] = calls[p].ctx
      BY <3>1, <3>2, <3>3
    <3> QED
      BY <3>3, <3>4 DEF ContextOf, p
  <2> QED
    BY <2>1, <2>2
<1>3. W = Above(W)
  BY <1>1, <1>2
<1> HIDE DEF W
<1>4. SpanAbove = CHOOSE f : f = Above(f)
  BY DEF SpanAbove
<1>5. SpanAbove = Above(SpanAbove)
  BY <1>3, <1>4
<1>6. \A c \in D : /\ SpanAbove[c] = IF c = NoCall THEN NoCall
                                     ELSE IF spans[c].state # "none" THEN c ELSE SpanAbove[calls[c].parent]
                   /\ W[c] = IF c = NoCall THEN NoCall
                             ELSE IF spans[c].state # "none" THEN c ELSE W[calls[c].parent]
  BY <1>3, <1>5
<1> HIDE DEF Above
<1>7. SpanAbove[NoCall] = NoCall /\ W[NoCall] = NoCall
  BY <1>6
<1> DEFINE S == {c \in Calls : SpanAbove[c] # W[c]}
<1>8. S = {}
  <2> SUFFICES ASSUME S # {} PROVE FALSE
    OBVIOUS
  <2>1. PICK c \in S : calls[c].parent \notin S
    BY DEF TraceInv, CallersCameFirst
  <2>2. SpanAbove[calls[c].parent] = W[calls[c].parent]
    BY <1>1, <1>7, <2>1
  <2> QED
    BY <1>6, <2>1, <2>2
<1>9. \A c \in Calls : SpanAbove[c] = W[c]
  BY <1>8
<1> QED
  BY <1>1, <1>7, <1>9 DEF W

\* The code that runs is that of the call at the top of the stack.
LEMMA TopIsLast ==
  ASSUME TracingTypeOK, StackRuns, NEW c \in Calls, Top = c
  PROVE  /\ calls[c].body = "running"
         /\ Active = calls[c].ctx
         /\ Front(stack) \in Seq(Calls)
         /\ \A i \in 1 .. Len(Front(stack)) : i \in 1 .. Len(stack) /\ Front(stack)[i] = stack[i] /\ stack[i] # c
<1> DEFINE n == Len(stack)
<1>1. stack \in Seq(Calls) /\ n \in Nat
  BY LenProperties DEF TracingTypeOK
<1>2. stack # <<>> /\ stack[n] = c
  BY TracingAssumption DEF Top, Last
<1>3. n >= 1
  BY <1>1, <1>2, EmptySeq
<1>4. n \in 1 .. n
  BY <1>1, <1>3
<1>5. Active = calls[c].ctx
  BY <1>2 DEF Active, Last
<1>6. Front(stack) = SubSeq(stack, 1, n - 1)
  BY DEF Front
<1>7. PICK j \in Int : j = n - 1 /\ 1 <= j + 1 /\ j <= n
  <2> HIDE DEF n
  <2>1. n - 1 \in Int /\ 1 <= n - 1 + 1 /\ n - 1 <= n
    BY <1>1, <1>3
  <2> QED
    BY <2>1
<1>8. /\ SubSeq(stack, 1, j) \in Seq(Calls) /\ Len(SubSeq(stack, 1, j)) = j
      /\ \A i \in 1 .. j : SubSeq(stack, 1, j)[i] = stack[i]
  <2>1. \A i \in 1 .. j : i \in 1 .. n /\ stack[i] \in Calls
    <3>1. \A i \in 1 .. n : stack[i] \in Calls
      BY <1>1, ElementOfSeq
    <3> QED
      BY <1>1, <1>7, <3>1
  <2>2. SubSeq(stack, 1, j) = [i \in 1 .. j |-> stack[i]]
    <3>1. SubSeq(stack, 1, j) = [i \in 1 .. j - 1 + 1 |-> stack[1 + i - 1]]
      OBVIOUS
    <3>2. j - 1 + 1 = j /\ \A i \in 1 .. j : 1 + i - 1 = i
      BY <1>7
    <3> QED
      BY <3>1, <3>2
  <2>3. j \in Nat
    BY <1>1, <1>3, <1>7
  <2> HIDE DEF n
  <2>4. SubSeq(stack, 1, j) \in Seq(Calls) /\ Len(SubSeq(stack, 1, j)) = j
    BY <2>1, <2>2, <2>3
  <2> QED
    BY <2>2, <2>4
<1>9. \A i \in 1 .. n - 1 : i \in 1 .. n /\ i # n
  BY <1>1
<1>10. \A i \in 1 .. n - 1 : stack[i] # c
  BY <1>2, <1>4, <1>9 DEF StackRuns
<1> QED
  BY <1>2, <1>4, <1>5, <1>6, <1>7, <1>8, <1>9, <1>10 DEF StackRuns

\* What the decorators tell keeps the span where it is.
LEMMA EndedKeeps ==
  ASSUME TracingTypeOK, NEW c \in Calls, NEW outcome \in {"ok", "error"}, calls[c].method \in Methods
  PROVE  /\ Ended(c, outcome) \in SpanRecords
         /\ Ended(c, outcome).parent = spans[c].parent
         /\ spans[c].state = "none" => Ended(c, outcome) = spans[c]
         /\ spans[c].state # "none" =>
              /\ Ended(c, outcome).state = "ended" /\ Ended(c, outcome).status = outcome
              /\ Ended(c, outcome).ends = spans[c].ends + 1
         /\ spans[c].shown \subseteq Ended(c, outcome).shown
<1> DEFINE m == calls[c].method
           result == IF outcome = "ok" /\ Decorated[m].span = "traced" /\ Decorated[m].captureReturn
                     THEN {SanitizeArgument(Decorated[m].result)} \ {Nothing} ELSE {}
<1>1. spans[c] \in SpanRecords
  BY DEF TracingTypeOK
<1>2. result \subseteq Values
  BY DEF Values
<1> HIDE DEF m
<1>3. Ended(c, outcome) = IF spans[c].state = "none" THEN spans[c]
                          ELSE [spans[c] EXCEPT !.state = "ended", !.status = outcome, !.ends = spans[c].ends + 1,
                                                !.shown = spans[c].shown \cup result]
  BY DEF Ended, m
<1> HIDE DEF result
<1> DEFINE s == spans[c]
           e == [s EXCEPT !.state = "ended", !.status = outcome, !.ends = s.ends + 1,
                          !.shown = s.shown \cup result]
<1>4. s.ends + 1 \in Nat /\ s.shown \cup result \in SUBSET Values
  BY <1>1, <1>2 DEF SpanRecords
<1> HIDE DEF s
<1>5. s \in SpanRecords
  BY <1>1 DEF s
<1>6. /\ e \in SpanRecords /\ e.parent = s.parent /\ e.state = "ended"
      /\ e.status = outcome /\ e.ends = s.ends + 1 /\ s.shown \subseteq e.shown
  BY <1>4, <1>5 DEF SpanRecords
<1>7. Ended(c, outcome) = IF s.state = "none" THEN s ELSE e
  BY <1>3 DEF s
<1> HIDE DEF e
<1> QED
  BY <1>5, <1>6, <1>7 DEF s

\* What a call keeps when it goes on.
Same(c, k) ==
  /\ calls[c].body \in Begun /\ k.body \in Begun
  /\ k.method = calls[c].method /\ k.parent = calls[c].parent /\ k.counting = calls[c].counting
  /\ k.ctx = calls[c].ctx

\* The decorators take no notice, or tell an outcome.
Quiet(c, s) == s = spans[c] /\ recorded' = recorded
Tells(c, s, outcome) == s = Ended(c, outcome) /\ recorded' = Counted(c, outcome)

\* The ways in which call c goes on as k, with s as its span.
Suspends(c, k, s) ==
  /\ Top = c /\ stack' = Front(stack) /\ ~ calls[c].awaited /\ MethodOf(c).returns # "value"
  /\ k.body = "suspended" /\ k.awaited /\ k.did = calls[c].did /\ k.told = calls[c].told
  /\ IF MethodOf(c).returns = "thenable" THEN k.handled = "ok" /\ Tells(c, s, "ok")
     ELSE k.handled = calls[c].handled /\ Quiet(c, s)
Resumes(c, k, s) ==
  /\ stack = <<>> /\ stack' = <<c>> /\ calls[c].body = "suspended"
  /\ k.body = "running" /\ k.awaited = calls[c].awaited /\ k.did = calls[c].did
  /\ k.told = calls[c].told /\ k.handled = calls[c].handled /\ Quiet(c, s)
Finishes(c, k, s, outcome) ==
  /\ Top = c /\ stack' = Front(stack) /\ (MethodOf(c).returns = "thenable" /\ outcome = "ok" => calls[c].awaited)
  /\ k.body = "ended" /\ k.awaited = calls[c].awaited /\ k.did = outcome
  /\ IF MethodOf(c).returns # "promise" /\ ~ calls[c].awaited
     THEN k.told = outcome /\ k.handled = outcome /\ Tells(c, s, outcome)
     ELSE /\ k.told = (IF MethodOf(c).returns = "thenable" THEN outcome ELSE "none")
          /\ k.handled = calls[c].handled /\ Quiet(c, s)
Counts(c, k, s) ==
  /\ stack' = stack /\ calls[c].body = "ended" /\ calls[c].handled = "none"
  /\ k.body = "ended" /\ k.awaited = calls[c].awaited /\ k.did = calls[c].did
  /\ k.told = calls[c].told /\ k.handled = calls[c].did
  /\ s = spans[c] /\ recorded' = Counted(c, calls[c].did)
Closes(c, k, s) ==
  /\ stack' = stack /\ calls[c].body = "ended" /\ calls[c].handled # "none" /\ calls[c].told = "none"
  /\ k.body = "ended" /\ k.awaited = calls[c].awaited /\ k.did = calls[c].did
  /\ k.told = calls[c].did /\ k.handled = calls[c].handled
  /\ s = Ended(c, calls[c].did) /\ recorded' = recorded

\* Each way in which a call goes on changes that call and its span only.
LEMMA GoesOn ==
  ASSUME TracingTypeOK, StackRuns, NEW c \in Calls, CallGoesOn(c)
  PROVE  /\ holder' = holder /\ marks' = marks /\ descriptors' = descriptors
         /\ \E k \in CallRecords :
              /\ calls' = [calls EXCEPT ![c] = k] /\ Same(c, k)
              /\ \E s : /\ spans' = [spans EXCEPT ![c] = s]
                        /\ \/ Suspends(c, k, s) \/ Resumes(c, k, s)
                           \/ \E outcome \in {"ok", "error"} : Finishes(c, k, s, outcome)
                           \/ Counts(c, k, s) \/ Closes(c, k, s)
<1> DEFINE Goal ==
      /\ holder' = holder /\ marks' = marks /\ descriptors' = descriptors
      /\ \E k \in CallRecords :
           /\ calls' = [calls EXCEPT ![c] = k] /\ Same(c, k)
           /\ \E s : /\ spans' = [spans EXCEPT ![c] = s]
                     /\ \/ Suspends(c, k, s) \/ Resumes(c, k, s)
                        \/ \E outcome \in {"ok", "error"} : Finishes(c, k, s, outcome)
                        \/ Counts(c, k, s) \/ Closes(c, k, s)
<1>1. calls \in [Calls -> CallRecords] /\ calls[c] \in CallRecords /\ spans = [spans EXCEPT ![c] = spans[c]]
  BY DEF TracingTypeOK
<1>2. Top = c => calls[c].body \in Begun
  BY TopIsLast DEF Begun
<1>3. CASE Suspend(c)
  <2>1. CASE MethodOf(c).returns = "thenable"
    <3> DEFINE k == [calls[c] EXCEPT !.body = "suspended", !.awaited = TRUE, !.handled = "ok"]
    <3>1. calls' = [calls EXCEPT ![c] = k]
      BY <1>1, <1>3, <2>1 DEF Suspend
    <3>2. k \in CallRecords /\ Same(c, k) /\ k.body = "suspended" /\ k.awaited /\ k.handled = "ok"
          /\ k.did = calls[c].did /\ k.told = calls[c].told
      BY <1>1, <1>2, <1>3 DEF CallRecords, Same, Begun, Suspend
    <3> HIDE DEF k
    <3>3. spans' = [spans EXCEPT ![c] = Ended(c, "ok")] /\ holder' = holder /\ marks' = marks /\ descriptors' = descriptors
      BY <1>3, <2>1 DEF Suspend, Tell
    <3>4. Suspends(c, k, Ended(c, "ok"))
      BY <1>3, <2>1, <3>2 DEF Suspend, Suspends, Tells, Tell
    <3> QED
      BY <3>1, <3>2, <3>3, <3>4
  <2>2. CASE MethodOf(c).returns # "thenable"
    <3> DEFINE k == [calls[c] EXCEPT !.body = "suspended", !.awaited = TRUE]
    <3>1. calls' = [calls EXCEPT ![c] = k]
      BY <1>1, <1>3, <2>2 DEF Suspend
    <3>2. k \in CallRecords /\ Same(c, k) /\ k.body = "suspended" /\ k.awaited /\ k.handled = calls[c].handled
          /\ k.did = calls[c].did /\ k.told = calls[c].told
      BY <1>1, <1>2, <1>3 DEF CallRecords, Same, Begun, Suspend
    <3> HIDE DEF k
    <3>3. spans' = [spans EXCEPT ![c] = spans[c]] /\ holder' = holder /\ marks' = marks /\ descriptors' = descriptors
      BY <1>1, <1>3, <2>2 DEF Suspend
    <3>4. Suspends(c, k, spans[c])
      BY <1>3, <2>2, <3>2 DEF Suspend, Suspends, Quiet
    <3> QED
      BY <3>1, <3>2, <3>3, <3>4
  <2> QED
    BY <2>1, <2>2
<1>4. CASE Resume(c)
  <2> DEFINE k == [calls[c] EXCEPT !.body = "running"]
  <2>1. calls' = [calls EXCEPT ![c] = k]
    BY <1>1, <1>4 DEF Resume
  <2>2. k \in CallRecords /\ Same(c, k) /\ k.body = "running" /\ k.awaited = calls[c].awaited
        /\ k.handled = calls[c].handled /\ k.did = calls[c].did /\ k.told = calls[c].told
    BY <1>1, <1>4 DEF CallRecords, Same, Begun, Resume
  <2> HIDE DEF k
  <2>3. spans' = [spans EXCEPT ![c] = spans[c]] /\ holder' = holder /\ marks' = marks /\ descriptors' = descriptors
    BY <1>1, <1>4 DEF Resume
  <2>4. Resumes(c, k, spans[c])
    BY <1>4, <2>2 DEF Resume, Resumes, Quiet
  <2> QED
    BY <2>1, <2>2, <2>3, <2>4
<1>5. ASSUME NEW outcome \in {"ok", "error"}, Finish(c, outcome) PROVE Goal
  <2>1. CASE MethodOf(c).returns # "promise" /\ ~ calls[c].awaited
    <3> DEFINE k == [calls[c] EXCEPT !.body = "ended", !.did = outcome, !.handled = outcome, !.told = outcome]
    <3>1. calls' = [calls EXCEPT ![c] = k]
      BY <1>1, <1>5, <2>1 DEF Finish
    <3>2. k \in CallRecords /\ Same(c, k) /\ k.body = "ended" /\ k.awaited = calls[c].awaited
          /\ k.handled = outcome /\ k.did = outcome /\ k.told = outcome
      BY <1>1, <1>2, <1>5 DEF CallRecords, Same, Begun, Finish
    <3> HIDE DEF k
    <3>3. spans' = [spans EXCEPT ![c] = Ended(c, outcome)] /\ holder' = holder /\ marks' = marks /\ descriptors' = descriptors
      BY <1>5, <2>1 DEF Finish, Tell
    <3>4. Finishes(c, k, Ended(c, outcome), outcome)
      BY <1>5, <2>1, <3>2 DEF Finish, Finishes, Tells, Tell
    <3> QED
      BY <3>1, <3>2, <3>3, <3>4
  <2>2. CASE ~ (MethodOf(c).returns # "promise" /\ ~ calls[c].awaited)
    <3> DEFINE t == IF MethodOf(c).returns = "thenable" THEN outcome ELSE "none"
               k == [calls[c] EXCEPT !.body = "ended", !.did = outcome, !.told = t]
    <3>1. calls' = [calls EXCEPT ![c] = k]
      BY <1>1, <1>5, <2>2 DEF Finish
    <3>2. t \in {"none", "ok", "error"}
      OBVIOUS
    <3> HIDE DEF t
    <3>3. k \in CallRecords /\ Same(c, k) /\ k.body = "ended" /\ k.awaited = calls[c].awaited
          /\ k.handled = calls[c].handled /\ k.did = outcome /\ k.told = t
      BY <1>1, <1>2, <1>5, <3>2 DEF CallRecords, Same, Begun, Finish
    <3> HIDE DEF k
    <3>4. spans' = [spans EXCEPT ![c] = spans[c]] /\ holder' = holder /\ marks' = marks /\ descriptors' = descriptors
      BY <1>1, <1>5, <2>2 DEF Finish
    <3>5. Finishes(c, k, spans[c], outcome)
      BY <1>5, <2>2, <3>3 DEF Finish, Finishes, Quiet, t
    <3> QED
      BY <3>1, <3>3, <3>4, <3>5
  <2> QED
    BY <2>1, <2>2
<1>6. CASE HandleInstrument(c)
  <2> DEFINE k == [calls[c] EXCEPT !.handled = calls[c].did]
  <2>1. calls' = [calls EXCEPT ![c] = k]
    BY <1>1, <1>6 DEF HandleInstrument
  <2>2. k \in CallRecords /\ Same(c, k) /\ k.body = "ended" /\ k.awaited = calls[c].awaited
        /\ k.handled = calls[c].did /\ k.did = calls[c].did /\ k.told = calls[c].told
    BY <1>1, <1>6 DEF CallRecords, Same, Begun, HandleInstrument
  <2> HIDE DEF k
  <2>3. spans' = [spans EXCEPT ![c] = spans[c]] /\ holder' = holder /\ marks' = marks /\ descriptors' = descriptors
    BY <1>1, <1>6 DEF HandleInstrument
  <2>4. Counts(c, k, spans[c])
    BY <1>6, <2>2 DEF HandleInstrument, Counts
  <2> QED
    BY <2>1, <2>2, <2>3, <2>4
<1>7. CASE HandleTraced(c)
  <2> DEFINE k == [calls[c] EXCEPT !.told = calls[c].did]
  <2>1. calls' = [calls EXCEPT ![c] = k]
    BY <1>1, <1>7 DEF HandleTraced
  <2>2. k \in CallRecords /\ Same(c, k) /\ k.body = "ended" /\ k.awaited = calls[c].awaited
        /\ k.handled = calls[c].handled /\ k.did = calls[c].did /\ k.told = calls[c].did
    BY <1>1, <1>7 DEF CallRecords, Same, Begun, HandleTraced
  <2> HIDE DEF k
  <2>3. spans' = [spans EXCEPT ![c] = Ended(c, calls[c].did)] /\ holder' = holder /\ marks' = marks /\ descriptors' = descriptors
    BY <1>7 DEF HandleTraced
  <2>4. Closes(c, k, Ended(c, calls[c].did))
    BY <1>7, <2>2 DEF HandleTraced, Closes
  <2> QED
    BY <2>1, <2>2, <2>3, <2>4
<1> QED
  BY <1>3, <1>4, <1>5, <1>6, <1>7 DEF CallGoesOn

\* Where a call stands in the trace does not change while it goes on.
LEMMA PlacedGoesOn ==
  ASSUME TracingTypeOK, \A d \in Calls : Placed(d), NEW c \in Calls, NEW k, NEW s,
         calls' = [calls EXCEPT ![c] = k], spans' = [spans EXCEPT ![c] = s], marks' = marks,
         Same(c, k), s.parent = spans[c].parent, s.state = "none" <=> spans[c].state = "none"
  PROVE  \A d \in Calls : Placed(d)'
<1>1. \A d \in Calls : /\ calls'[d].parent = calls[d].parent /\ calls'[d].ctx = calls[d].ctx
                       /\ calls'[d].method = calls[d].method
                       /\ (calls'[d].body \in Begun <=> calls[d].body \in Begun)
                       /\ (calls'[d].body = "idle" <=> calls[d].body = "idle")
                       /\ spans'[d].parent = spans[d].parent
                       /\ (spans'[d].state = "none" <=> spans[d].state = "none")
  BY DEF TracingTypeOK, Same, Begun
<1>3. \A d \in Calls : calls[d].parent \in Calls \cup {NoCall}
  BY DEF TracingTypeOK, CallRecords
<1> TAKE d \in Calls
<1>4. ContextOf(calls[d].parent)' = ContextOf(calls[d].parent)
  <2>1. calls'[d].parent = calls[d].parent /\ calls[d].parent \in Calls \cup {NoCall}
    BY <1>1, <1>3
  <2>2. CASE calls[d].parent = NoCall
    BY <2>1, <2>2 DEF ContextOf
  <2>3. CASE calls[d].parent # NoCall
    <3>1. calls'[calls[d].parent].ctx = calls[calls[d].parent].ctx
      BY <1>1, <2>1, <2>3
    <3> QED
      BY <2>1, <2>3, <3>1 DEF ContextOf
  <2> QED
    BY <2>2, <2>3
<1>5. calls[d].parent # NoCall => (calls'[calls[d].parent].body \in Begun <=> calls[calls[d].parent].body \in Begun)
  BY <1>1, <1>3
<1>6. Placed(d)
  OBVIOUS
<1> QED
  BY <1>1, <1>4, <1>5, <1>6 DEF Placed

\* Callers stay where they are.
LEMMA CallersGoOn ==
  ASSUME CallersCameFirst, \A d \in Calls : calls'[d].parent = calls[d].parent
  PROVE  CallersCameFirst'
<1> SUFFICES ASSUME NEW S \in SUBSET Calls, S # {} PROVE \E d \in S : calls'[d].parent \notin S
  BY DEF CallersCameFirst
<1>1. PICK d \in S : calls[d].parent \notin S
  BY DEF CallersCameFirst
<1> QED
  BY <1>1

\* Who calls, and in which context.
LEMMA CallerIsTop ==
  ASSUME TracingTypeOK, StackRuns
  PROVE  /\ Top \in Calls \cup {NoCall} /\ Active \in Calls \cup {NoCall}
         /\ Active = ContextOf(Top)
         /\ Top # NoCall => Top \in Calls /\ calls[Top].body = "running"
<1>1. CASE stack = <<>>
  BY <1>1 DEF Top, Active, ContextOf
<1>2. CASE stack # <<>>
  <2>1. stack \in Seq(Calls) /\ Len(stack) \in Nat
    BY LenProperties DEF TracingTypeOK
  <2>2. Len(stack) \in 1 .. Len(stack)
    BY <1>2, <2>1, EmptySeq
  <2>3. stack[Len(stack)] \in Calls
    BY <2>1, <2>2, ElementOfSeq
  <2>4. Top = stack[Len(stack)] /\ Active = calls[Top].ctx
    BY <1>2 DEF Top, Active, Last
  <2>5. Top \in Calls /\ Top # NoCall
    BY <2>3, <2>4, TracingAssumption
  <2>6. calls[Top].ctx \in Calls \cup {NoCall}
    BY <2>5 DEF TracingTypeOK, CallRecords
  <2> QED
    BY <2>2, <2>4, <2>5, <2>6 DEF ContextOf, StackRuns
<1> QED
  BY <1>1, <1>2

\* A call begins, or it is refused.
Begins(c, k, s) ==
  /\ stack' = Append(stack, c) /\ k.body = "running" /\ k.told = "none"
  /\ s.state \in {"none", "open"} /\ s.ends = 0
  /\ k.ctx = IF s.state # "none" THEN c ELSE Active
Refused(c, k, s) ==
  /\ stack' = stack /\ k.body = "refused" /\ k.told = "error"
  /\ s.state \in {"none", "ended"}
  /\ s.ends = (IF s.state = "ended" THEN 1 ELSE 0) /\ (s.state = "ended" => s.status = "error")

\* What Invoke does to the call and its span.
LEMMA InvokeEffect ==
  ASSUME TracingTypeOK, StackRuns, NEW c \in Calls, NEW m \in Methods, NEW labels \in Decorated[m].labels,
         Invoke(c, m, labels)
  PROVE  /\ calls[c].body = "idle" /\ UNCHANGED <<holder, recorded, marks>>
         /\ \E k \in CallRecords, s \in SpanRecords :
              /\ calls' = [calls EXCEPT ![c] = k] /\ spans' = [spans EXCEPT ![c] = s]
              /\ k.method = m /\ k.parent = Top /\ k.did = "none" /\ k.handled = "none" /\ ~ k.awaited
              /\ s.state # "none" => s.parent = Active
              /\ Decorated[m].span = "traced" => s.shown = Sanitized(m)
              /\ Begins(c, k, s) \/ Refused(c, k, s)
<1> DEFINE call == [IdleCall EXCEPT !.method = m, !.parent = Top, !.labels = labels,
                                    !.counting = holder]
<1>1. Top \in Calls \cup {NoCall} /\ Active \in Calls \cup {NoCall}
  BY CallerIsTop
<1>2. labels \in LabelLists
  BY DEF LabelLists
<1>3. holder \in BOOLEAN
  BY DEF TracingTypeOK
<1>4. /\ call \in CallRecords /\ call.method = m /\ call.parent = Top /\ call.did = "none"
      /\ call.handled = "none" /\ ~ call.awaited /\ call.told = "none"
  BY <1>1, <1>2, <1>3 DEF CallRecords, IdleCall
<1>5. /\ Started(m) \in SpanRecords /\ Started(m).state \in {"none", "open"} /\ Started(m).ends = 0
      /\ (Started(m).state = "none" <=> Decorated[m].span = "none")
      /\ (Started(m).state # "none" => Started(m).parent = Active)
      /\ (Decorated[m].span = "traced" => Started(m).shown = Sanitized(m))
  <2> DEFINE shown == Sanitized(m)
  <2>0. Sanitized(m) \subseteq Values
    BY DEF Values, Sanitized
  <2>1. NoSpan \in SpanRecords /\ NoSpan.state = "none" /\ NoSpan.ends = 0
    BY DEF NoSpan, SpanRecords
  <2>2. CASE Decorated[m].span = "none"
    <3>1. Started(m) = NoSpan
      BY <2>2 DEF Started
    <3> QED
      BY <2>1, <2>2, <3>1
  <2>3. CASE Decorated[m].span = "withSpan"
    <3>1. Started(m) = [NoSpan EXCEPT !.state = "open", !.parent = Active]
      BY <2>3 DEF Started
    <3> QED
      BY <1>1, <2>1, <2>3, <3>1 DEF SpanRecords
  <2>4. CASE Decorated[m].span = "traced"
    <3>1. Started(m) = [NoSpan EXCEPT !.state = "open", !.parent = Active, !.shown = shown]
      BY <2>4 DEF Started
    <3> HIDE DEF shown
    <3>2. shown \in SUBSET Values /\ shown = Sanitized(m)
      BY <2>0 DEF shown
    <3> QED
      BY <1>1, <2>1, <2>4, <3>1, <3>2 DEF SpanRecords
  <2> QED
    BY <2>2, <2>3, <2>4, TracingAssumption
<1>6. calls[c].body = "idle" /\ UNCHANGED <<holder, recorded, marks>>
  BY DEF Invoke
<1>7. CASE call.counting /\ Conflicts(m, labels) # {}
  <2> DEFINE k == [call EXCEPT !.body = "refused", !.told = "error"]
             s == IF Decorated[m].span = "traced"
                  THEN [Started(m) EXCEPT !.state = "ended", !.status = "error", !.ends = 1] ELSE NoSpan
  <2>1. calls' = [calls EXCEPT ![c] = k] /\ spans' = [spans EXCEPT ![c] = s] /\ stack' = stack
    BY <1>7 DEF Invoke
  <2>2. k \in CallRecords /\ k.method = m /\ k.parent = Top /\ k.did = "none" /\ k.handled = "none"
        /\ ~ k.awaited /\ k.body = "refused" /\ k.told = "error"
    <3> HIDE DEF call
    <3> QED
      BY <1>4 DEF CallRecords
  <2>3. s \in SpanRecords /\ s.state \in {"none", "ended"} /\ s.ends = (IF s.state = "ended" THEN 1 ELSE 0)
        /\ (s.state = "ended" => s.status = "error") /\ (s.state # "none" => s.parent = Active)
        /\ (Decorated[m].span = "traced" => s.shown = Sanitized(m))
    <3>1. CASE Decorated[m].span = "traced"
      BY <1>5, <3>1 DEF SpanRecords
    <3>2. CASE Decorated[m].span # "traced"
      BY <3>2 DEF SpanRecords, NoSpan
    <3> QED
      BY <3>1, <3>2
  <2> HIDE DEF k, s
  <2>4. Refused(c, k, s)
    BY <2>1, <2>2, <2>3 DEF Refused
  <2> QED
    BY <1>6, <2>1, <2>2, <2>3, <2>4
<1>8. CASE ~ (call.counting /\ Conflicts(m, labels) # {})
  <2> DEFINE k == [call EXCEPT !.body = "running", !.ctx = SpanContext(c, m)]
             s == Started(m)
  <2>1. calls' = [calls EXCEPT ![c] = k] /\ spans' = [spans EXCEPT ![c] = s] /\ stack' = Append(stack, c)
    BY <1>8 DEF Invoke
  <2>2. SpanContext(c, m) \in Calls \cup {NoCall} /\ SpanContext(c, m) = IF s.state # "none" THEN c ELSE Active
    BY <1>1, <1>5 DEF SpanContext
  <2>3. k \in CallRecords /\ k.method = m /\ k.parent = Top /\ k.did = "none" /\ k.handled = "none"
        /\ ~ k.awaited /\ k.body = "running" /\ k.told = "none" /\ k.ctx = SpanContext(c, m)
    <3> HIDE DEF call
    <3> QED
      BY <1>4, <2>2 DEF CallRecords
  <2> HIDE DEF k, s
  <2>4. /\ s \in SpanRecords /\ s.state \in {"none", "open"} /\ s.ends = 0 /\ (s.state # "none" => s.parent = Active)
        /\ (Decorated[m].span = "traced" => s.shown = Sanitized(m))
    BY <1>5 DEF s
  <2>5. Begins(c, k, s)
    BY <2>1, <2>2, <2>3, <2>4 DEF Begins
  <2> QED
    BY <1>6, <2>1, <2>3, <2>4, <2>5
<1> QED
  BY <1>7, <1>8

\* A new call has its place below the call that runs.
LEMMA PlacedInvoke ==
  ASSUME TracingTypeOK, TraceInv, NEW c \in Calls, calls[c].body = "idle", marks' = marks,
         NEW k, NEW s, calls' = [calls EXCEPT ![c] = k], spans' = [spans EXCEPT ![c] = s],
         k.method \in Methods, k.parent = Top, s.state # "none" => s.parent = Active,
         \/ k.body = "running" /\ k.ctx = IF s.state # "none" THEN c ELSE Active
         \/ k.body = "refused"
  PROVE  \A d \in Calls : Placed(d)'
<1>1. /\ Top \in Calls \cup {NoCall} /\ Active = ContextOf(Top) /\ c # NoCall
      /\ Top # NoCall => Top \in Calls /\ calls[Top].body = "running"
  BY CallerIsTop, TracingAssumption DEF TraceInv
<1>2. Top # c
  BY <1>1
<1>3. /\ calls'[c] = k /\ spans'[c] = s
      /\ \A d \in Calls \ {c} : calls'[d] = calls[d] /\ spans'[d] = spans[d]
  BY DEF TracingTypeOK
<1>4. \A d \in Calls : calls[d].parent \in Calls \cup {NoCall} /\ Placed(d)
  BY DEF TracingTypeOK, CallRecords, TraceInv
<1>5. marks[c] = <<>> /\ Len(marks[c]) = 0 /\ 1 .. 0 = {}
  BY <1>4 DEF Placed, Begun
<1>6. Placed(c)'
  <2>1. ContextOf(calls[c].parent)' = ContextOf(Top)
    <3>1. calls'[c].parent = Top
      BY <1>3
    <3>2. CASE Top = NoCall
      BY <3>1, <3>2 DEF ContextOf
    <3>3. CASE Top # NoCall
      <4>1. calls'[Top] = calls[Top]
        BY <1>1, <1>2, <1>3, <3>3
      <4> QED
        BY <3>1, <3>3, <4>1 DEF ContextOf
    <3> QED
      BY <3>2, <3>3
  <2>2. Top # NoCall => calls'[Top].body \in Begun
    BY <1>1, <1>2, <1>3 DEF Begun
  <2>3. marks'[c] = <<>> /\ \A i \in 1 .. Len(marks'[c]) : marks'[c][i].span = calls'[c].ctx
    BY <1>5
  <2> QED
    BY <1>1, <1>3, <2>1, <2>2, <2>3 DEF Placed, Begun
<1>7. ASSUME NEW d \in Calls \ {c} PROVE Placed(d)'
  <2>1. calls'[d] = calls[d] /\ spans'[d] = spans[d] /\ marks'[d] = marks[d] /\ Placed(d)
    BY <1>3, <1>4
  <2>2. calls[d].parent # c
    <3>1. calls[d].parent # NoCall => calls[calls[d].parent].body \in Begun
      BY <2>1 DEF Placed
    <3> QED
      BY <1>1, <3>1 DEF Begun
  <2>3. calls[d].parent # NoCall => calls'[calls[d].parent] = calls[calls[d].parent]
    BY <1>3, <1>4, <2>2
  <2>4. ContextOf(calls[d].parent)' = ContextOf(calls[d].parent)
    <3>1. CASE calls[d].parent = NoCall
      BY <2>1, <3>1 DEF ContextOf
    <3>2. CASE calls[d].parent # NoCall
      BY <2>1, <2>3, <3>2 DEF ContextOf
    <3> QED
      BY <3>1, <3>2
  <2> QED
    BY <2>1, <2>3, <2>4 DEF Placed
<1> QED
  BY <1>6, <1>7

\* No call that began before is called by a new one.
LEMMA CallersInvoke ==
  ASSUME TracingTypeOK, TraceInv, NEW c \in Calls, calls[c].body = "idle",
         NEW k, calls' = [calls EXCEPT ![c] = k], k.parent = Top
  PROVE  CallersCameFirst'
<1> SUFFICES ASSUME NEW S \in SUBSET Calls, S # {} PROVE \E d \in S : calls'[d].parent \notin S
  BY DEF CallersCameFirst
<1>1. calls'[c] = k /\ \A d \in Calls \ {c} : calls'[d] = calls[d] /\ calls[d].parent # c
  <2>1. calls'[c] = k /\ \A d \in Calls \ {c} : calls'[d] = calls[d]
    BY DEF TracingTypeOK
  <2>2. \A d \in Calls : Placed(d) /\ c # NoCall
    BY TracingAssumption DEF TraceInv
  <2>3. \A d \in Calls : calls[d].parent # NoCall => calls[calls[d].parent].body \in Begun
    BY <2>2 DEF Placed
  <2> QED
    BY <2>1, <2>2, <2>3 DEF Begun
<1>2. CASE S \ {c} = {}
  <2>1. Top # c
    BY CallerIsTop, TracingAssumption DEF TraceInv
  <2>2. S = {c}
    BY <1>2
  <2> QED
    BY <1>1, <2>1, <2>2
<1>3. CASE S \ {c} # {}
  <2>1. PICK d \in S \ {c} : calls[d].parent \notin S \ {c}
    BY <1>3 DEF TraceInv, CallersCameFirst
  <2> QED
    BY <1>1, <2>1
<1> QED
  BY <1>2, <1>3

\* The stack keeps running calls.
LEMMA StackGoesOn ==
  ASSUME TracingTypeOK, StackRuns, NEW c \in Calls, NEW k, calls' = [calls EXCEPT ![c] = k],
         \/ Top = c /\ stack' = Front(stack)
         \/ stack' = <<c>> /\ k.body = "running"
         \/ stack' = stack /\ k.body = calls[c].body
         \/ stack' = Append(stack, c) /\ k.body = "running" /\ calls[c].body = "idle"
         \/ stack' = stack /\ calls[c].body = "idle"
  PROVE  stack' \in Seq(Calls) /\ StackRuns'
<1>1. calls'[c] = k /\ \A d \in Calls \ {c} : calls'[d] = calls[d]
  BY DEF TracingTypeOK
<1>2. stack \in Seq(Calls) /\ Len(stack) \in Nat /\ \A i \in 1 .. Len(stack) : stack[i] \in Calls
  BY LenProperties, ElementOfSeq DEF TracingTypeOK
<1>3. CASE Top = c /\ stack' = Front(stack)
  <2>1. /\ Front(stack) \in Seq(Calls)
        /\ \A i \in 1 .. Len(Front(stack)) : i \in 1 .. Len(stack) /\ Front(stack)[i] = stack[i] /\ stack[i] # c
    BY <1>3, TopIsLast
  <2> DEFINE f == Front(stack)
  <2> HIDE DEF f
  <2>2. stack' = f /\ f \in Seq(Calls)
    BY <1>3, <2>1 DEF f
  <2>3. \A i \in 1 .. Len(f) : i \in 1 .. Len(stack) /\ f[i] = stack[i] /\ stack[i] # c
    BY <2>1 DEF f
  <2>4. \A i \in 1 .. Len(f) : calls'[f[i]].body = "running"
    BY <1>1, <1>2, <2>3 DEF StackRuns
  <2>5. \A i, j \in 1 .. Len(f) : i # j => f[i] # f[j]
    BY <2>3 DEF StackRuns
  <2> QED
    BY <2>2, <2>4, <2>5 DEF StackRuns
<1>4. CASE stack' = <<c>> /\ k.body = "running"
  <2>1. <<c>> \in Seq(Calls) /\ Len(<<c>>) = 1 /\ <<c>>[1] = c /\ \A i \in 1 .. 1 : i = 1
    OBVIOUS
  <2> QED
    BY <1>1, <1>4, <2>1 DEF StackRuns
<1>5. CASE stack' = stack /\ (k.body = calls[c].body \/ calls[c].body = "idle")
  <2>1. \A i \in 1 .. Len(stack) : calls'[stack[i]].body = "running"
    BY <1>1, <1>2, <1>5 DEF StackRuns
  <2> QED
    BY <1>2, <1>5, <2>1 DEF StackRuns
<1>6. CASE stack' = Append(stack, c) /\ k.body = "running" /\ calls[c].body = "idle"
  <2>1. /\ stack' \in Seq(Calls) /\ Len(stack') = Len(stack) + 1
        /\ \A i \in 1 .. Len(stack) : stack'[i] = stack[i]
        /\ stack'[Len(stack) + 1] = c
    BY <1>2, <1>6, AppendProperties
  <2>2. \A i \in 1 .. Len(stack) + 1 : i \in 1 .. Len(stack) \/ i = Len(stack) + 1
    BY <1>2
  <2>3. \A i \in 1 .. Len(stack) : stack[i] # c
    BY <1>6 DEF StackRuns
  <2>4. \A i \in 1 .. Len(stack) + 1 : calls'[stack'[i]].body = "running"
    BY <1>1, <1>2, <1>6, <2>1, <2>2, <2>3 DEF StackRuns
  <2>5. \A i, j \in 1 .. Len(stack) + 1 : i # j => stack'[i] # stack'[j]
    BY <2>1, <2>2, <2>3 DEF StackRuns
  <2> QED
    BY <2>1, <2>4, <2>5 DEF StackRuns
<1> QED
  BY <1>3, <1>4, <1>5, <1>6

\* A call that logs is the one that runs, in its own context.
LEMMA MarkEffect ==
  ASSUME TracingTypeOK, TraceInv, NEW c \in Calls, NEW what \in {"attributes", "entry"}, Mark(c, what)
  PROVE  marks' \in [Calls -> Seq(Spots)] /\ \A d \in Calls : Placed(d)'
<1> DEFINE e == [what |-> what, span |-> Active]
<1>1. calls[c].body = "running" /\ Active = calls[c].ctx
  BY TopIsLast DEF Mark, TraceInv
<1>2. e \in Spots /\ e.span = calls[c].ctx
  BY <1>1 DEF Spots, TracingTypeOK, CallRecords
<1>3. marks' = [marks EXCEPT ![c] = Append(marks[c], e)] /\ calls' = calls /\ spans' = spans
  BY DEF Mark
<1> HIDE DEF e
<1>4. marks \in [Calls -> Seq(Spots)] /\ marks[c] \in Seq(Spots)
  BY DEF TracingTypeOK
<1>5. /\ Append(marks[c], e) \in Seq(Spots) /\ Len(Append(marks[c], e)) = Len(marks[c]) + 1
      /\ (\A i \in 1 .. Len(marks[c]) : Append(marks[c], e)[i] = marks[c][i])
      /\ Append(marks[c], e)[Len(marks[c]) + 1] = e
  BY <1>2, <1>4, AppendProperties
<1>6. marks' \in [Calls -> Seq(Spots)] /\ marks'[c] = Append(marks[c], e)
      /\ \A d \in Calls \ {c} : marks'[d] = marks[d]
  BY <1>3, <1>4, <1>5
<1>7. \A d \in Calls : Placed(d) /\ ContextOf(calls[d].parent)' = ContextOf(calls[d].parent)
  BY <1>3 DEF TraceInv, ContextOf
<1>8. \A i \in 1 .. Len(marks'[c]) : marks'[c][i].span = calls[c].ctx
  <2>1. \A i \in 1 .. Len(marks[c]) + 1 : i \in 1 .. Len(marks[c]) \/ i = Len(marks[c]) + 1
    BY <1>4, LenProperties
  <2>2. \A i \in 1 .. Len(marks[c]) : marks[c][i].span = calls[c].ctx
    BY <1>7 DEF Placed
  <2> QED
    BY <1>2, <1>5, <1>6, <2>1, <2>2
<1>9. Placed(c)'
  <2>1. calls[c].body \in Begun /\ Placed(c)
    BY <1>1, <1>7 DEF Begun
  <2> QED
    BY <1>3, <1>7, <1>8, <2>1 DEF Placed
<1>10. \A d \in Calls \ {c} : Placed(d)'
  <2> TAKE d \in Calls \ {c}
  <2>1. Placed(d) /\ ContextOf(calls[d].parent)' = ContextOf(calls[d].parent) /\ marks'[d] = marks[d]
    BY <1>6, <1>7
  <2> QED
    BY <1>3, <2>1 DEF Placed
<1> QED
  BY <1>6, <1>9, <1>10

\* How far a call has come, its span, and what was taken for its outcome, fit.
Fits(k, s) ==
  LET thenable == Decorated[k.method].returns = "thenable"
  IN /\ s.ends = IF s.state = "ended" THEN 1 ELSE 0
     /\ k.body = "idle" => k.handled = "none" /\ s.state = "none"
     /\ k.body = "refused" =>
          /\ k.handled = "none" /\ k.did = "none" /\ k.told = "error"
          /\ s.state # "none" => s.state = "ended" /\ s.status = "error"
     /\ k.body \in {"running", "suspended"} =>
          /\ k.did = "none" /\ k.told = "none"
          /\ k.handled = IF thenable /\ k.awaited THEN "ok" ELSE "none"
          /\ s.state # "none" => s.state = IF k.handled = "none" THEN "open" ELSE "ended"
          /\ Decorated[k.method].returns = "value" => ~ k.awaited
     /\ k.body = "ended" /\ thenable => k.did \in {"ok", "error"} /\ k.told = k.did /\ k.handled # "none"
     /\ k.body = "ended" /\ ~ thenable =>
          /\ k.did \in {"ok", "error"}
          /\ k.told = "none" => k.handled \in {"none", k.did} /\ (s.state # "none" => s.state = "open")
          /\ k.told # "none" => k.told = k.did /\ k.handled = k.did
                                /\ (s.state # "none" => s.state = "ended" /\ s.status = k.told)

\* A span shows what can be shown of the arguments.
Shows(k, s) == s.state # "none" /\ Decorated[k.method].span = "traced" => Sanitized(k.method) \subseteq s.shown

\* Every call that was handled is recorded in its metrics.
CountsExact == \A n \in Metrics : recorded[n] = Cardinality(CountedBy(n))

\* Whatever a call does next fits.
LEMMA FitsGoesOn ==
  ASSUME TracingTypeOK, NEW c \in Calls, NEW k \in CallRecords, NEW s, Same(c, k),
         Fits(calls[c], spans[c]), calls[c].method \in Methods, Top = c => calls[c].body = "running",
         \/ Suspends(c, k, s) \/ Resumes(c, k, s)
         \/ \E outcome \in {"ok", "error"} : Finishes(c, k, s, outcome)
         \/ Counts(c, k, s) \/ Closes(c, k, s)
  PROVE  /\ s \in SpanRecords /\ Fits(k, s) /\ spans[c].shown \subseteq s.shown
         /\ s.parent = spans[c].parent /\ (s.state = "none" <=> spans[c].state = "none")
         /\ \/ recorded' = recorded /\ k.handled = calls[c].handled
            \/ \E outcome \in {"ok", "error"} :
                 recorded' = Counted(c, outcome) /\ k.handled = outcome /\ calls[c].handled = "none"
<1> DEFINE Goal ==
      /\ s \in SpanRecords /\ Fits(k, s) /\ spans[c].shown \subseteq s.shown
      /\ s.parent = spans[c].parent /\ (s.state = "none" <=> spans[c].state = "none")
      /\ \/ recorded' = recorded /\ k.handled = calls[c].handled
         \/ \E outcome \in {"ok", "error"} :
              recorded' = Counted(c, outcome) /\ k.handled = outcome /\ calls[c].handled = "none"
<1> DEFINE h == calls[c]
           t == spans[c]
           returns == Decorated[h.method].returns
<1>1. t \in SpanRecords /\ k.method = h.method /\ MethodOf(c).returns = returns
      /\ returns \in {"value", "promise", "thenable"}
  BY TracingAssumption DEF TracingTypeOK, Same, MethodOf
<1>2. ASSUME NEW outcome \in {"ok", "error"}
      PROVE  /\ Ended(c, outcome) \in SpanRecords /\ Ended(c, outcome).parent = t.parent
             /\ t.state = "none" => Ended(c, outcome) = t
             /\ t.state # "none" =>
                  /\ Ended(c, outcome).state = "ended" /\ Ended(c, outcome).status = outcome
                  /\ Ended(c, outcome).ends = t.ends + 1
             /\ t.shown \subseteq Ended(c, outcome).shown
  BY <1>2, EndedKeeps
<1> HIDE DEF returns
<1>3. Fits(h, t) /\ h.body \in Begun /\ (Top = c => h.body = "running")
  BY DEF Same
<1>4. CASE Suspends(c, k, s)
  <2>1. h.body = "running" /\ h.handled = "none" /\ h.did = "none" /\ h.told = "none"
        /\ (t.state # "none" => t.state = "open") /\ t.ends = 0
    BY <1>3, <1>4 DEF Suspends, Fits
  <2>2. CASE returns = "thenable"
    BY <1>1, <1>2, <1>4, <2>1, <2>2 DEF Suspends, Tells, Fits, returns
  <2>3. CASE returns # "thenable"
    BY <1>1, <1>4, <2>1, <2>3 DEF Suspends, Quiet, Fits, returns
  <2> QED
    BY <2>2, <2>3
<1>5. CASE Resumes(c, k, s)
  BY <1>1, <1>3, <1>5 DEF Resumes, Quiet, Fits
<1>6. ASSUME NEW outcome \in {"ok", "error"}, Finishes(c, k, s, outcome) PROVE Goal
  <2>1. h.body = "running" /\ h.did = "none" /\ h.told = "none"
    BY <1>3, <1>6 DEF Finishes, Fits
  <2>2. CASE returns # "promise" /\ ~ h.awaited
    <3>1. h.handled = "none" /\ t.ends = 0 /\ (t.state # "none" => t.state = "open")
      BY <1>3, <2>1, <2>2 DEF Fits
    <3>2. k.told = outcome /\ k.handled = outcome /\ k.did = outcome /\ k.body = "ended"
          /\ s = Ended(c, outcome) /\ recorded' = Counted(c, outcome)
      BY <1>1, <1>6, <2>2 DEF Finishes, Tells
    <3>3. s \in SpanRecords /\ s.parent = t.parent /\ (s.state = "none" <=> t.state = "none") /\ t.shown \subseteq s.shown
          /\ (s.state # "none" => s.state = "ended" /\ s.status = outcome /\ s.ends = 1)
          /\ (s.state = "none" => s.ends = 0)
      BY <1>1, <1>2, <3>1, <3>2
    <3>4. Fits(k, s)
      BY <3>2, <3>3 DEF Fits
    <3> QED
      BY <3>1, <3>2, <3>3, <3>4
  <2>3. CASE ~ (returns # "promise" /\ ~ h.awaited)
    <3>1. returns # "value"
      BY <1>3, <2>1, <2>3 DEF Fits, returns
    <3>2. k.did = outcome /\ k.handled = h.handled /\ k.body = "ended" /\ s = t /\ recorded' = recorded
          /\ k.told = IF returns = "thenable" THEN outcome ELSE "none"
      BY <1>1, <1>6, <2>3 DEF Finishes, Quiet
    <3>3. CASE returns = "thenable"
      <4>1. h.handled = "ok"
        BY <1>3, <2>1, <2>3, <3>3 DEF Fits, returns
      <4>2. Fits(k, s)
        BY <1>1, <1>3, <3>2, <3>3, <4>1 DEF Fits, returns
      <4> QED
        BY <1>1, <3>2, <4>2
    <3>4. CASE returns # "thenable"
      <4>1. h.handled = "none" /\ (t.state # "none" => t.state = "open")
        BY <1>3, <2>1, <3>4 DEF Fits, returns
      <4>2. Fits(k, s)
        BY <1>1, <1>3, <3>2, <3>4, <4>1 DEF Fits, returns
      <4> QED
        BY <1>1, <3>2, <4>2
    <3> QED
      BY <3>3, <3>4
  <2> QED
    BY <2>2, <2>3
<1>7. CASE Counts(c, k, s)
  <2>1. h.body = "ended" /\ h.handled = "none" /\ s = t /\ recorded' = Counted(c, h.did)
        /\ k.body = "ended" /\ k.did = h.did /\ k.told = h.told /\ k.handled = h.did
    BY <1>7 DEF Counts
  <2>2. returns # "thenable" /\ h.did \in {"ok", "error"} /\ h.told = "none"
    BY <1>3, <2>1 DEF Fits, returns
  <2>3. Fits(k, s)
    BY <1>1, <1>3, <2>1, <2>2 DEF Fits, returns
  <2> QED
    BY <1>1, <2>1, <2>2, <2>3
<1>8. CASE Closes(c, k, s)
  <2>1. h.body = "ended" /\ h.handled # "none" /\ h.told = "none" /\ s = Ended(c, h.did) /\ recorded' = recorded
        /\ k.body = "ended" /\ k.did = h.did /\ k.told = h.did /\ k.handled = h.handled
    BY <1>8 DEF Closes
  <2>2. returns # "thenable" /\ h.did \in {"ok", "error"} /\ h.handled = h.did
        /\ (t.state # "none" => t.state = "open") /\ t.ends = 0
    BY <1>3, <2>1 DEF Fits, returns
  <2>3. s \in SpanRecords /\ s.parent = t.parent /\ (s.state = "none" <=> t.state = "none") /\ t.shown \subseteq s.shown
        /\ (s.state # "none" => s.state = "ended" /\ s.status = h.did /\ s.ends = 1)
        /\ (s.state = "none" => s.ends = 0)
    BY <1>1, <1>2, <2>1, <2>2
  <2>4. Fits(k, s)
    BY <1>1, <2>1, <2>2, <2>3 DEF Fits, returns
  <2> QED
    BY <2>1, <2>3, <2>4
<1> QED
  BY <1>4, <1>5, <1>6, <1>7, <1>8

\* A call that is handled is recorded, once; others are not.
LEMMA CountsGoesOn ==
  ASSUME TracingTypeOK, CountsExact, NEW c \in Calls, NEW k, calls' = [calls EXCEPT ![c] = k],
         k.method = calls[c].method \/ k.handled = "none",
         k.counting = calls[c].counting \/ k.handled = "none",
         \/ recorded' = recorded /\ k.handled = calls[c].handled
         \/ \E outcome \in {"ok", "error"} :
              recorded' = Counted(c, outcome) /\ k.handled = outcome /\ calls[c].handled = "none"
  PROVE  recorded' \in [Metrics -> Nat] /\ CountsExact'
<1>1. calls'[c] = k /\ \A d \in Calls \ {c} : calls'[d] = calls[d]
  BY DEF TracingTypeOK
<1>2. recorded \in [Metrics -> Nat]
  BY DEF TracingTypeOK
<1>3. \A n : \A d \in Calls \ {c} : d \in CountedBy(n)' <=> d \in CountedBy(n)
  <2>1. \A o : \A d \in Calls \ {c} : Recorders(d, o)' = Recorders(d, o)
    BY <1>1 DEF Recorders, MethodOf
  <2> QED
    BY <1>1, <2>1 DEF CountedBy, HandledCalls
<1>4. \A n : CountedBy(n) \subseteq Calls /\ CountedBy(n)' \subseteq Calls /\ IsFiniteSet(CountedBy(n))
  <2> TAKE n
  <2>1. CountedBy(n) \subseteq Calls /\ CountedBy(n)' \subseteq Calls
    BY DEF CountedBy, HandledCalls
  <2> QED
    BY <2>1, TracingAssumption, FS_Subset
<1>5. CASE recorded' = recorded /\ k.handled = calls[c].handled
  <2>1. ASSUME NEW n \in Metrics PROVE CountedBy(n)' = CountedBy(n)
    <3>1. c \in CountedBy(n)' <=> c \in CountedBy(n)
      <4>1. CASE k.handled = "none"
        BY <1>1, <1>5, <4>1 DEF CountedBy, HandledCalls
      <4>2. CASE k.handled # "none"
        <5>1. \A o : Recorders(c, o)' = Recorders(c, o)
          BY <1>1, <4>2 DEF Recorders, MethodOf
        <5> QED
          BY <1>1, <1>5, <4>2, <5>1 DEF CountedBy, HandledCalls
      <4> QED
        BY <4>1, <4>2
    <3> QED
      BY <1>3, <1>4, <3>1
  <2>2. ASSUME NEW n \in Metrics PROVE recorded'[n] = Cardinality(CountedBy(n))'
    BY <1>5, <2>1 DEF CountsExact
  <2> QED
    BY <1>2, <1>5, <2>2 DEF CountsExact
<1>6. ASSUME NEW outcome \in {"ok", "error"},
             recorded' = Counted(c, outcome), k.handled = outcome, calls[c].handled = "none"
      PROVE  recorded' \in [Metrics -> Nat] /\ CountsExact'
  <2>0. k.method = calls[c].method /\ k.counting = calls[c].counting
    BY <1>6
  <2>1. ASSUME NEW n \in Metrics
        PROVE  recorded'[n] = recorded[n] + (IF calls[c].counting /\ n \in Recorders(c, outcome) THEN 1 ELSE 0)
    BY <1>2, <1>6 DEF Counted
  <2>2. recorded' \in [Metrics -> Nat]
    <3>1. CASE calls[c].counting
      BY <1>2, <1>6, <3>1 DEF Counted
    <3>2. CASE ~ calls[c].counting
      BY <1>2, <1>6, <3>2 DEF Counted
    <3> QED
      BY <3>1, <3>2
  <2>3. ASSUME NEW n \in Metrics
        PROVE  Cardinality(CountedBy(n))' = Cardinality(CountedBy(n))
                 + (IF calls[c].counting /\ n \in Recorders(c, outcome) THEN 1 ELSE 0)
    <3> DEFINE old == CountedBy(n)
               new == CountedBy(n)'
    <3>2. c \notin old
      BY <1>6 DEF CountedBy, HandledCalls
    <3>3. Recorders(c, outcome)' = Recorders(c, outcome)
      BY <1>1, <2>0 DEF Recorders, MethodOf
    <3>4. c \in new <=> calls[c].counting /\ n \in Recorders(c, outcome)
      BY <1>1, <1>6, <2>0, <3>3 DEF CountedBy, HandledCalls
    <3>5. IsFiniteSet(old) /\ Cardinality(CountedBy(n))' = Cardinality(new)
      BY <1>4
    <3>6. new = IF calls[c].counting /\ n \in Recorders(c, outcome) THEN old \cup {c} ELSE old
      BY <1>3, <1>4, <3>2, <3>4
    <3> HIDE DEF old, new
    <3>7. Cardinality(old) \in Nat /\ Cardinality(old \cup {c}) = Cardinality(old) + 1
      BY <3>2, <3>5, FS_CardinalityType, FS_AddElement
    <3> QED
      BY <3>5, <3>6, <3>7 DEF old
  <2>4. ASSUME NEW n \in Metrics PROVE recorded'[n] = Cardinality(CountedBy(n))'
    <3>1. recorded[n] = Cardinality(CountedBy(n))
      BY DEF CountsExact
    <3> QED
      BY <2>1, <2>3, <3>1
  <2> QED
    BY <2>2, <2>4 DEF CountsExact
<1> QED
  BY <1>5, <1>6

\* What is registered are descriptors.
LEMMA DescriptorsTyped ==
  ASSUME TracingTypeOK, NEW c \in Calls, NEW m \in Methods, NEW labels \in Decorated[m].labels,
         Invoke(c, m, labels)
  PROVE  descriptors' \in [Metrics -> Descriptors]
<1>1. descriptors \in [Metrics -> Descriptors] /\ \A k : Descriptor(m, k, labels) \in Descriptors
  BY DEF TracingTypeOK, Descriptor, Descriptors, LabelLists
<1>2. \A k : RegisteredBefore(m, labels, k) \in [Metrics -> Descriptors]
  <2> TAKE k
  <2>1. ASSUME NEW n \in Metrics PROVE RegisteredBefore(m, labels, k)[n] \in Descriptors
    BY <1>1 DEF RegisteredBefore
  <2>2. RegisteredBefore(m, labels, k) = [n \in Metrics |-> RegisteredBefore(m, labels, k)[n]]
    BY DEF RegisteredBefore
  <2> HIDE DEF RegisteredBefore
  <2> QED
    BY <2>1, <2>2
<1>3. \/ descriptors' = descriptors
      \/ \E k : descriptors' = RegisteredBefore(m, labels, k)
  BY DEF Invoke, Registered
<1> QED
  BY <1>1, <1>2, <1>3

\* The inductive invariant of tracing.
TracingInv ==
  TracingTypeOK /\ TraceInv /\ (\A c \in Calls : Fits(calls[c], spans[c]) /\ Shows(calls[c], spans[c])) /\ CountsExact

\* At the start there are no calls.
LEMMA TracingInitial == TracingInit => TracingInv
<1> SUFFICES ASSUME TracingInit PROVE TracingInv
  OBVIOUS
<1>0. <<>> \in LabelLists
  BY DEF LabelLists
<1>1. IdleCall \in CallRecords /\ NoSpan \in SpanRecords
  BY <1>0 DEF IdleCall, NoSpan, CallRecords, SpanRecords
<1>2. stack = <<>> /\ Len(stack) = 0 /\ 1 .. 0 = {} /\ stack \in Seq(Calls)
  BY DEF TracingInit
<1>3. \A c \in Calls : calls[c] = IdleCall /\ spans[c] = NoSpan /\ marks[c] = <<>>
  BY DEF TracingInit
<1>4. TracingTypeOK
  <2>1. NoDescriptor \in Descriptors
    BY <1>0 DEF NoDescriptor, Descriptors
  <2>2. holder \in BOOLEAN /\ recorded \in [Metrics -> Nat]
    BY DEF TracingInit
  <2>3. calls \in [Calls -> CallRecords] /\ spans \in [Calls -> SpanRecords]
    BY <1>1 DEF TracingInit
  <2>4. <<>> \in Seq(Spots)
    BY EmptySeq
  <2>5. marks \in [Calls -> Seq(Spots)]
    BY <2>4 DEF TracingInit
  <2>6. descriptors \in [Metrics -> Descriptors]
    BY <2>1 DEF TracingInit
  <2> QED
    BY <1>2, <2>2, <2>3, <2>5, <2>6 DEF TracingTypeOK
<1>5. TraceInv
  <2>1. StackRuns
    BY <1>2 DEF StackRuns
  <2>2. \A c \in Calls : Placed(c)
    <3> TAKE c \in Calls
    <3>1. Len(marks[c]) = 0 /\ 1 .. 0 = {} /\ marks[c] = <<>>
      BY <1>3
    <3>2. calls[c].body = "idle" /\ calls[c].parent = NoCall /\ spans[c].state = "none"
      BY <1>3 DEF IdleCall, NoSpan
    <3> QED
      BY <3>1, <3>2 DEF Placed, Begun
  <2>3. CallersCameFirst
    BY <1>3, TracingAssumption DEF CallersCameFirst, IdleCall
  <2> QED
    BY <2>1, <2>2, <2>3 DEF TraceInv
<1>6. \A c \in Calls : Fits(calls[c], spans[c]) /\ Shows(calls[c], spans[c])
  BY <1>3 DEF Fits, Shows, IdleCall, NoSpan
<1>7. CountsExact
  <2>1. \A n \in Metrics : CountedBy(n) = {}
    BY <1>3 DEF CountedBy, HandledCalls, IdleCall
  <2>2. \A n \in Metrics : recorded[n] = 0
    BY DEF TracingInit
  <2> QED
    BY <2>1, <2>2, FS_EmptySet DEF CountsExact
<1> QED
  BY <1>4, <1>5, <1>6, <1>7 DEF TracingInv

\* A call begins.
LEMMA InvokeKeeps ==
  ASSUME TracingInv, NEW c \in Calls, NEW m \in Methods, NEW labels \in Decorated[m].labels,
         Invoke(c, m, labels)
  PROVE  TracingInv'
<1> USE DEF TracingInv
<1>0. StackRuns
  BY DEF TraceInv
<1>1. calls[c].body = "idle" /\ UNCHANGED <<holder, recorded, marks>>
  BY <1>0, InvokeEffect
<1>2. PICK k \in CallRecords, s \in SpanRecords :
        /\ calls' = [calls EXCEPT ![c] = k] /\ spans' = [spans EXCEPT ![c] = s]
        /\ k.method = m /\ k.parent = Top /\ k.did = "none" /\ k.handled = "none" /\ ~ k.awaited
        /\ s.state # "none" => s.parent = Active
        /\ Decorated[m].span = "traced" => s.shown = Sanitized(m)
        /\ Begins(c, k, s) \/ Refused(c, k, s)
  BY <1>0, InvokeEffect
<1>3. stack' \in Seq(Calls) /\ StackRuns'
  BY <1>0, <1>1, <1>2, StackGoesOn DEF Begins, Refused
<1>4. \A d \in Calls : Placed(d)'
  BY <1>1, <1>2, PlacedInvoke DEF Begins, Refused
<1>5. CallersCameFirst'
  BY <1>1, <1>2, CallersInvoke
<1>6. /\ calls' \in [Calls -> CallRecords] /\ spans' \in [Calls -> SpanRecords]
      /\ calls'[c] = k /\ spans'[c] = s
      /\ \A d \in Calls \ {c} : calls'[d] = calls[d] /\ spans'[d] = spans[d]
  BY <1>2 DEF TracingTypeOK
<1>7. \A d \in Calls : Fits(calls'[d], spans'[d]) /\ Shows(calls'[d], spans'[d])
  <2>1. Fits(k, s) /\ Shows(k, s)
    BY <1>2 DEF Begins, Refused, Fits, Shows
  <2> QED
    BY <1>6, <2>1
<1>8. recorded' \in [Metrics -> Nat] /\ CountsExact'
  <2>1. calls[c].handled = "none"
    BY <1>1 DEF Fits
  <2> QED
    BY <1>1, <1>2, <2>1, CountsGoesOn
<1>9. TracingTypeOK'
  BY <1>1, <1>3, <1>6, <1>8, DescriptorsTyped DEF TracingTypeOK
<1> QED
  BY <1>3, <1>4, <1>5, <1>7, <1>8, <1>9 DEF TraceInv

\* A call goes on.
LEMMA GoesOnKeepsInv ==
  ASSUME TracingInv, NEW c \in Calls, CallGoesOn(c)
  PROVE  TracingInv'
<1> USE DEF TracingInv
<1>0. StackRuns
  BY DEF TraceInv
<1>1. holder' = holder /\ marks' = marks /\ descriptors' = descriptors
  BY <1>0, GoesOn
<1>2. PICK k \in CallRecords :
        /\ calls' = [calls EXCEPT ![c] = k] /\ Same(c, k)
        /\ \E s : /\ spans' = [spans EXCEPT ![c] = s]
                  /\ \/ Suspends(c, k, s) \/ Resumes(c, k, s)
                     \/ \E outcome \in {"ok", "error"} : Finishes(c, k, s, outcome)
                     \/ Counts(c, k, s) \/ Closes(c, k, s)
  BY <1>0, GoesOn
<1>3. PICK s : /\ spans' = [spans EXCEPT ![c] = s]
               /\ \/ Suspends(c, k, s) \/ Resumes(c, k, s)
                  \/ \E outcome \in {"ok", "error"} : Finishes(c, k, s, outcome)
                  \/ Counts(c, k, s) \/ Closes(c, k, s)
  BY <1>2
<1>4. /\ Top = c => calls[c].body = "running"
      /\ calls[c].method \in Methods
      /\ Fits(calls[c], spans[c])
  <2>1. Top = c => calls[c].body = "running"
    BY <1>0, TopIsLast
  <2>2. Placed(c) /\ calls[c].body # "idle"
    BY <1>2 DEF TraceInv, Same, Begun
  <2> QED
    BY <2>1, <2>2 DEF Placed
<1>5. /\ s \in SpanRecords /\ Fits(k, s) /\ spans[c].shown \subseteq s.shown
      /\ s.parent = spans[c].parent /\ (s.state = "none" <=> spans[c].state = "none")
      /\ \/ recorded' = recorded /\ k.handled = calls[c].handled
         \/ \E outcome \in {"ok", "error"} :
              recorded' = Counted(c, outcome) /\ k.handled = outcome /\ calls[c].handled = "none"
  BY <1>2, <1>3, <1>4, FitsGoesOn
<1>6. \A d \in Calls : Placed(d)'
  <2>1. \A d \in Calls : Placed(d)
    BY DEF TraceInv
  <2> QED
    BY <1>1, <1>2, <1>3, <1>5, <2>1, PlacedGoesOn
<1>7. /\ calls' \in [Calls -> CallRecords] /\ spans' \in [Calls -> SpanRecords]
      /\ calls'[c] = k /\ spans'[c] = s
      /\ \A d \in Calls \ {c} : calls'[d] = calls[d] /\ spans'[d] = spans[d]
  BY <1>2, <1>3, <1>5 DEF TracingTypeOK
<1>8. CallersCameFirst'
  <2>1. \A d \in Calls : calls'[d].parent = calls[d].parent
    BY <1>2, <1>7 DEF Same
  <2> QED
    BY <2>1, CallersGoOn DEF TraceInv
<1>9. stack' \in Seq(Calls) /\ StackRuns'
  <2>1. \/ Top = c /\ stack' = Front(stack)
        \/ stack' = <<c>> /\ k.body = "running"
        \/ stack' = stack /\ k.body = calls[c].body
    BY <1>3 DEF Suspends, Resumes, Finishes, Counts, Closes
  <2> QED
    BY <1>0, <1>2, <2>1, StackGoesOn
<1>10. \A d \in Calls : Fits(calls'[d], spans'[d]) /\ Shows(calls'[d], spans'[d])
  <2>1. Shows(k, s)
    BY <1>2, <1>5 DEF Shows, Same
  <2> QED
    BY <1>5, <1>7, <2>1
<1>11. recorded' \in [Metrics -> Nat] /\ CountsExact'
  <2>1. k.method = calls[c].method /\ k.counting = calls[c].counting
    BY <1>2 DEF Same
  <2> QED
    BY <1>2, <1>5, <2>1, CountsGoesOn
<1>12. TracingTypeOK'
  BY <1>1, <1>7, <1>9, <1>11 DEF TracingTypeOK
<1> QED
  BY <1>6, <1>8, <1>9, <1>10, <1>11, <1>12 DEF TraceInv

\* What a call logs, and a registry that appears, change no call.
LEMMA OthersKeep ==
  ASSUME TracingInv, UNCHANGED <<descriptors, recorded, stack, calls, spans>>, holder' \in BOOLEAN,
         marks' \in [Calls -> Seq(Spots)], \A c \in Calls : Placed(c)'
  PROVE  TracingInv'
<1>1. TracingTypeOK'
  BY DEF TracingInv, TracingTypeOK
<1>2. StackRuns' /\ CallersCameFirst'
  BY DEF TracingInv, TraceInv, StackRuns, CallersCameFirst
<1>3. CountsExact'
  <2>1. \A n : CountedBy(n)' = CountedBy(n)
    BY DEF CountedBy, HandledCalls, Recorders, MethodOf
  <2> QED
    BY <2>1 DEF TracingInv, CountsExact
<1>4. \A c \in Calls : Fits(calls'[c], spans'[c]) /\ Shows(calls'[c], spans'[c])
  BY DEF TracingInv
<1> QED
  BY <1>1, <1>2, <1>3, <1>4 DEF TracingInv, TraceInv

\* The invariant is inductive.
LEMMA TracingInductive == TracingInv /\ [Tracing]_tracingVars => TracingInv'
<1> SUFFICES ASSUME TracingInv, [Tracing]_tracingVars PROVE TracingInv'
  OBVIOUS
<1>1. ASSUME holder' \in BOOLEAN, UNCHANGED <<descriptors, recorded, stack, calls, spans, marks>> PROVE TracingInv'
  <2>1. \A c \in Calls : Placed(c)'
    BY <1>1 DEF TracingInv, TraceInv, Placed, ContextOf
  <2>2. marks' \in [Calls -> Seq(Spots)]
    BY <1>1 DEF TracingInv, TracingTypeOK
  <2> QED
    BY <1>1, <2>1, <2>2, OthersKeep
<1>2. CASE UNCHANGED tracingVars
  BY <1>1, <1>2 DEF tracingVars, TracingInv, TracingTypeOK
<1>3. CASE RegistryAppears
  BY <1>1, <1>3 DEF RegistryAppears
<1>4. ASSUME NEW c \in Calls, NEW m \in Methods, NEW labels \in Decorated[m].labels, Invoke(c, m, labels)
      PROVE  TracingInv'
  BY <1>4, InvokeKeeps
<1>5. ASSUME NEW c \in Calls, CallGoesOn(c) PROVE TracingInv'
  BY <1>5, GoesOnKeepsInv
<1>6. ASSUME NEW c \in Calls, NEW what \in {"attributes", "entry"}, Mark(c, what) PROVE TracingInv'
  <2>1. marks' \in [Calls -> Seq(Spots)] /\ \A d \in Calls : Placed(d)'
    BY <1>6, MarkEffect DEF TracingInv
  <2>2. UNCHANGED <<holder, descriptors, recorded, stack, calls, spans>>
    BY <1>6 DEF Mark
  <2>3. holder' \in BOOLEAN
    BY <2>2 DEF TracingInv, TracingTypeOK
  <2> QED
    BY <2>1, <2>2, <2>3, OthersKeep
<1>7. ASSUME NEW c \in Calls, AddAttributes(c) \/ Log(c) PROVE TracingInv'
  BY <1>6, <1>7 DEF AddAttributes, Log
<1> QED
  BY <1>2, <1>3, <1>4, <1>5, <1>7 DEF Tracing

\* A trace has the shape of the calls.
LEMMA InvTraces == TracingInv => TraceFollowsCalls
<1> SUFFICES ASSUME TracingInv, NEW c \in Calls
             PROVE  /\ spans[c].state # "none" => spans[c].parent = SpanAbove[calls[c].parent]
                    /\ \A mark \in ToSet(marks[c]) : mark.span = SpanAbove[c]
  BY DEF TraceFollowsCalls
<1>1. /\ SpanAbove[NoCall] = NoCall
      /\ \A d \in Calls : SpanAbove[d] = IF spans[d].state # "none" THEN d ELSE ContextOf(calls[d].parent)
  BY AboveIsContext DEF TracingInv
<1>2. \A d \in Calls : Placed(d) /\ calls[d].parent \in Calls \cup {NoCall}
  BY DEF TracingInv, TraceInv, TracingTypeOK, CallRecords
<1>3. \A d \in Calls : calls[d].body \in Begun => SpanAbove[d] = calls[d].ctx
  BY <1>1, <1>2 DEF Placed
<1>4. SpanAbove[calls[c].parent] = ContextOf(calls[c].parent)
  <2>1. CASE calls[c].parent = NoCall
    BY <1>1, <2>1 DEF ContextOf
  <2>2. CASE calls[c].parent # NoCall
    <3>1. calls[c].parent \in Calls /\ calls[calls[c].parent].body \in Begun
      BY <1>2, <2>2 DEF Placed
    <3> QED
      BY <1>3, <2>2, <3>1 DEF ContextOf
  <2> QED
    BY <2>1, <2>2
<1>5. ASSUME NEW mark \in ToSet(marks[c]) PROVE mark.span = SpanAbove[c]
  <2>1. marks[c] \in Seq(Spots)
    BY DEF TracingInv, TracingTypeOK
  <2>2. DOMAIN marks[c] = 1 .. Len(marks[c])
    BY <2>1, LenProperties
  <2>3. PICK i \in 1 .. Len(marks[c]) : mark = marks[c][i]
    BY <2>2 DEF ToSet
  <2>4. marks[c] # <<>>
    BY <2>3
  <2>5. calls[c].body \in Begun /\ mark.span = calls[c].ctx
    BY <1>2, <2>3, <2>4 DEF Placed
  <2> QED
    BY <1>3, <2>5
<1>6. spans[c].state # "none" => spans[c].parent = ContextOf(calls[c].parent)
  BY <1>2 DEF Placed
<1> QED
  BY <1>4, <1>5, <1>6

\* Span, counters and caller agree.
LEMMA InvEnds == TracingInv => EndsAgree
<1> SUFFICES ASSUME TracingInv PROVE EndsAgree
  OBVIOUS
<1>1. ASSUME NEW c \in Calls
      PROVE  /\ Fits(calls[c], spans[c]) /\ calls[c] \in CallRecords /\ spans[c] \in SpanRecords
             /\ MethodOf(c).returns = Decorated[calls[c].method].returns
             /\ calls[c].body = "idle" => spans[c].state = "none"
  BY DEF TracingInv, TracingTypeOK, TraceInv, Placed, MethodOf
<1>2. SpanEndsWithCall
  <2> SUFFICES ASSUME NEW c \in Calls
               PROVE  /\ spans[c].ends <= 1 /\ (spans[c].ends = 1 <=> spans[c].state = "ended")
                      /\ spans[c].state # "none" /\ MethodOf(c).returns # "thenable" =>
                           IF calls[c].told = "none" THEN spans[c].state = "open"
                           ELSE spans[c].state = "ended" /\ spans[c].status = calls[c].told
    BY DEF SpanEndsWithCall
  <2> DEFINE k == calls[c]
             s == spans[c]
  <2>1. Fits(k, s) /\ k \in CallRecords /\ s \in SpanRecords
        /\ MethodOf(c).returns = Decorated[k.method].returns /\ (k.body = "idle" => s.state = "none")
    BY <1>1
  <2> HIDE DEF k, s
  <2>2. s.ends <= 1 /\ (s.ends = 1 <=> s.state = "ended")
    BY <2>1 DEF Fits
  <2>3. s.state # "none" /\ Decorated[k.method].returns # "thenable" =>
          IF k.told = "none" THEN s.state = "open" ELSE s.state = "ended" /\ s.status = k.told
    BY <2>1 DEF Fits, CallRecords
  <2> QED
    BY <2>1, <2>2, <2>3 DEF k, s
<1>3. CountsAreCalls
  <2>1. ASSUME NEW n \in Metrics
        PROVE  recorded[n] \in Cardinality(CountedBy(n)) .. Cardinality(CountedBy(n) \cup TimedBy(n))
    <3> DEFINE S == CountedBy(n)
               T == CountedBy(n) \cup TimedBy(n)
    <3>1. recorded[n] = Cardinality(S)
      BY DEF TracingInv, CountsExact
    <3>2. S \subseteq T /\ T \subseteq Calls /\ IsFiniteSet(Calls)
      BY TracingAssumption DEF CountedBy, TimedBy, HandledCalls
    <3> HIDE DEF S, T
    <3>3. IsFiniteSet(T)
      BY <3>2, FS_Subset
    <3>4. Cardinality(S) <= Cardinality(T) /\ Cardinality(T) \in Nat /\ Cardinality(S) \in Nat
      BY <3>2, <3>3, FS_Subset, FS_CardinalityType
    <3>5. recorded[n] \in Cardinality(S) .. Cardinality(T)
      BY <3>1, <3>4
    <3> QED
      BY <3>5 DEF S, T
  <2>2. \A c \in Calls : calls[c].body = "ended" /\ MethodOf(c).returns # "thenable" =>
          calls[c].handled \in (IF calls[c].told = "none" THEN {"none", calls[c].did} ELSE {calls[c].told})
    <3> TAKE c \in Calls
    <3> QED
      BY <1>1 DEF Fits
  <2>3. \A c \in Calls : calls[c].body = "refused" => calls[c].handled = "none" /\ calls[c].did = "none"
    BY <1>1 DEF Fits
  <2> QED
    BY <2>1, <2>2, <2>3 DEF CountsAreCalls
<1> QED
  BY <1>2, <1>3 DEF EndsAgree

\* The inductive invariant holds.
LEMMA TracingInvariance == TracingSpec => []TracingInv
BY TracingInitial, TracingInductive, PTL DEF TracingSpec

\* For any number of calls, however they nest, await, throw and interleave, the parent of
\* a span is the span of the nearest traced caller, and what a call logs or sets is given
\* to the nearest span around it.
THEOREM TraceCorrect == TracingSpec => []TraceFollowsCalls
BY TracingInvariance, InvTraces, PTL

\* For any number of calls, and whichever are refused, each span ends once, with what the
\* caller is told; every counter has counted the calls that were handled as what it counts,
\* each once, and every histogram of durations has at least the successes.  That it has the
\* failures too, as is documented of the option for timing, is not claimed.
THEOREM EndsCorrect == TracingSpec => []EndsAgree
BY TracingInvariance, InvEnds, PTL

\* Without digits there is no card.
LEMMA NoDigits == ~ IsValidCreditCard(<<>>) /\ <<>> \in Seq(0 .. 9) /\ Len(<<>>) = 0
<1>1. Len(<<>>) = 0 /\ 0 \notin 13 .. 19
  OBVIOUS
<1> QED
  BY <1>1, EmptySeq DEF IsValidCreditCard

\* What is left of a text, and that the digits of no card are.
LEMMA TextRedacted ==
  ASSUME NEW t \in Texts
  PROVE  /\ DetectAndRedactPII(t).is = "text" /\ ~ DetectAndRedactPII(t).personal
         /\ DetectAndRedactPII(t).digits \in Seq(0 .. 9) /\ Len(DetectAndRedactPII(t).digits) \in {0, 16}
         /\ ~ IsValidCreditCard(DetectAndRedactPII(t).digits)
         /\ ~ IsValidCreditCard(t.digits) => DetectAndRedactPII(t).digits = t.digits
<1> DEFINE d == IF IsValidCreditCard(t.digits) THEN <<>> ELSE t.digits
<1>1. DetectAndRedactPII(t) = [t EXCEPT !.personal = FALSE, !.digits = d]
  BY DEF DetectAndRedactPII
<1>3. ~ IsValidCreditCard(d)
  BY NoDigits
<1>4. d \in Seq(0 .. 9) /\ Len(d) \in {0, 16}
  <2>1. t.digits \in Seq(0 .. 9) /\ Len(t.digits) \in {0, 16}
    BY DEF Texts, Digits
  <2> QED
    BY <2>1, NoDigits
<1>6. ~ IsValidCreditCard(t.digits) => d = t.digits
  OBVIOUS
<1> HIDE DEF d
<1>5. DetectAndRedactPII(t).is = "text" /\ ~ DetectAndRedactPII(t).personal
      /\ DetectAndRedactPII(t).digits = d
  BY <1>1 DEF Texts
<1> QED
  BY <1>3, <1>4, <1>5, <1>6

\* The items of a list that is shown, and what is left of them.
ShownItem(item) == IF item.is = "text" THEN DetectAndRedactPII(item) ELSE item
LEMMA ItemsShown ==
  ASSUME NEW a \in Arguments, a.is = "list", IsSimple(a)
  PROVE  /\ SanitizeArgument(a).is = "list"
         /\ TextsOf(SanitizeArgument(a)) = {DetectAndRedactPII(text) : text \in TextsOf(a)}
         /\ TextsOf(a) \subseteq Texts
<1>1. a \in [is : {"list"}, items : Seq(Items)]
  BY DEF Arguments, Items, Texts
<1>2. a.items \in Seq(Items)
  BY <1>1
<1>3. DOMAIN a.items = 1 .. Len(a.items) /\ \A k \in DOMAIN a.items : a.items[k] \in Items
  BY <1>2, LenProperties, ElementOfSeq
<1>4. \A item \in Items : item.is = "text" => item \in Texts
  BY DEF Items, Texts
<1> DEFINE shown == [k \in DOMAIN a.items |-> ShownItem(a.items[k])]
<1>5. SanitizeArgument(a) = [a EXCEPT !.items = shown]
  BY DEF SanitizeArgument, ShownItem
<1> HIDE DEF shown
<1>6. SanitizeArgument(a).is = "list" /\ SanitizeArgument(a).items = shown
  BY <1>1, <1>5
<1>7. TextsOf(SanitizeArgument(a)) = {item \in ToSet(shown) : item.is = "text"}
      /\ TextsOf(a) = {item \in ToSet(a.items) : item.is = "text"}
  BY <1>6 DEF TextsOf
<1>8. TextsOf(a) \subseteq Texts
  BY <1>3, <1>4, <1>7 DEF ToSet
<1>9. \A k \in DOMAIN a.items : ShownItem(a.items[k]).is = a.items[k].is
  BY <1>3, <1>4, TextRedacted DEF ShownItem
<1>10. ASSUME NEW left \in TextsOf(SanitizeArgument(a)) PROVE \E text \in TextsOf(a) : left = DetectAndRedactPII(text)
  <2>1. PICK k \in DOMAIN a.items : left = ShownItem(a.items[k]) /\ left.is = "text"
    BY <1>7 DEF ToSet, shown
  <2>2. a.items[k].is = "text"
    BY <1>9, <2>1
  <2> QED
    BY <1>7, <2>1, <2>2 DEF ToSet, ShownItem
<1>11. ASSUME NEW text \in TextsOf(a) PROVE DetectAndRedactPII(text) \in TextsOf(SanitizeArgument(a))
  <2>1. PICK k \in DOMAIN a.items : text = a.items[k] /\ text.is = "text"
    BY <1>7 DEF ToSet
  <2>2. shown[k] = DetectAndRedactPII(text) /\ k \in DOMAIN shown /\ shown[k].is = "text"
    BY <1>9, <2>1 DEF shown, ShownItem
  <2> QED
    BY <1>7, <2>2 DEF ToSet
<1> QED
  BY <1>6, <1>8, <1>10, <1>11

\* What is left of the texts of an argument or a result.
LEMMA ArgumentRedacted ==
  ASSUME NEW a \in Arguments, NEW text \in TextsOf(SanitizeArgument(a))
  PROVE  /\ ~ text.personal /\ ~ IsValidCreditCard(text.digits)
         /\ text.digits \in Seq(0 .. 9) /\ Len(text.digits) \in {0, 16}
<1>1. CASE a \in Texts
  <2>1. a.is = "text" /\ SanitizeArgument(a) = DetectAndRedactPII(a)
    BY <1>1 DEF SanitizeArgument, Texts
  <2>2. TextsOf(SanitizeArgument(a)) = {DetectAndRedactPII(a)}
    BY <1>1, <2>1, TextRedacted DEF TextsOf
  <2> QED
    BY <1>1, <2>2, TextRedacted
<1>2. CASE a.is = "list" /\ IsSimple(a)
  BY <1>2, ItemsShown, TextRedacted
<1>3. CASE a.is = "list" /\ ~ IsSimple(a)
  <2>1. SanitizeArgument(a) = [is |-> "size"]
    BY <1>3 DEF SanitizeArgument
  <2> QED
    BY <2>1 DEF TextsOf
<1>4. CASE a.is \in {"number", "boolean"}
  <2>1. SanitizeArgument(a) = a
    BY <1>4 DEF SanitizeArgument
  <2> QED
    BY <1>4, <2>1 DEF TextsOf
<1>5. CASE a.is = "null"
  <2>1. SanitizeArgument(a) = Word
    BY <1>5 DEF SanitizeArgument
  <2>2. text = Word
    BY <2>1 DEF TextsOf, Word
  <2> QED
    BY <2>2, NoDigits DEF Word
<1>6. CASE a.is \in {"object", "function"}
  <2>1. SanitizeArgument(a) \in {[is |-> "size"], Nothing}
    BY <1>6 DEF SanitizeArgument
  <2> QED
    BY <2>1 DEF TextsOf, Nothing
<1>7. a \in Texts \/ a.is \in {"number", "boolean", "object", "function", "null", "list"}
  BY DEF Arguments, Items
<1> QED
  BY <1>1, <1>2, <1>3, <1>4, <1>5, <1>6, <1>7

\* Digits that are those of no card are left, in a text and in the items of a list.
LEMMA DigitsKept ==
  ASSUME NEW a \in Arguments, a.is = "text" \/ (a.is = "list" /\ IsSimple(a)),
         NEW text \in TextsOf(a), ~ IsValidCreditCard(text.digits)
  PROVE  /\ SanitizeArgument(a) # Nothing /\ SanitizeArgument(a).is = a.is
         /\ \E left \in TextsOf(SanitizeArgument(a)) : left.digits = text.digits
<1>1. CASE a.is = "text"
  <2>1. a \in Texts /\ text = a
    BY <1>1 DEF Arguments, Items, Texts, TextsOf
  <2>2. SanitizeArgument(a) = DetectAndRedactPII(a)
    BY <1>1 DEF SanitizeArgument
  <2>3. SanitizeArgument(a).is = "text" /\ SanitizeArgument(a).digits = text.digits
    BY <2>1, <2>2, TextRedacted
  <2>4. TextsOf(SanitizeArgument(a)) = {SanitizeArgument(a)}
    BY <2>3 DEF TextsOf
  <2> QED
    BY <1>1, <2>3, <2>4 DEF Nothing
<1>2. CASE a.is = "list" /\ IsSimple(a)
  <2>1. SanitizeArgument(a).is = "list" /\ DetectAndRedactPII(text) \in TextsOf(SanitizeArgument(a)) /\ text \in Texts
    BY <1>2, ItemsShown
  <2>2. DetectAndRedactPII(text).digits = text.digits
    BY <2>1, TextRedacted
  <2> QED
    BY <1>2, <2>1, <2>2 DEF Nothing
<1> QED
  BY <1>1, <1>2

\* Of the arguments and results of methods no span shows personal data, nor digits that
\* IsValidCreditCard takes for the number of a card.
ShownIsRedacted ==
  \A c \in Calls : \A v \in spans[c].shown : \A text \in TextsOf(v) :
    ~ text.personal /\ ~ IsValidCreditCard(text.digits)

\* What the invariant says of what spans show.
LEMMA InvRedacted == TracingInv => ShownIsRedacted
<1> SUFFICES ASSUME TracingInv, NEW c \in Calls, NEW v \in spans[c].shown, NEW text \in TextsOf(v)
             PROVE  ~ text.personal /\ ~ IsValidCreditCard(text.digits)
  BY DEF ShownIsRedacted
<1>1. v \in Values
  BY DEF TracingInv, TracingTypeOK, SpanRecords
<1>2. PICK m \in Methods : \E a \in ToSet(Decorated[m].args) \cup {Decorated[m].result} : v = SanitizeArgument(a)
  BY <1>1 DEF Values
<1>3. PICK a \in Arguments : v = SanitizeArgument(a)
  BY <1>2, TracingAssumption
<1> QED
  BY <1>3, ArgumentRedacted

-----------------------------------------------------------------------------
(* Sums.  A sum over a finite set is written as the number of points in      *)
(* columns, so that it is there without a recursion.                         *)

\* A sum as a number of points: a column of t[k] points over each k of s.
Points(t, s) == {e \in s \X (Nat \ {0}) : e[2] <= t[e[1]]}
Weights(S) == {t \in [S -> Nat] : \E m \in Nat : \A x \in S : t[x] <= m}

LEMMA PointsFinite ==
  ASSUME NEW S, IsFiniteSet(S), NEW t \in Weights(S), NEW s \in SUBSET S
  PROVE  IsFiniteSet(Points(t, s))
<1> PICK m \in Nat : t \in [S -> Nat] /\ \A y \in S : t[y] <= m
  BY DEF Weights
<1>1. IsFiniteSet(1 .. m) /\ IsFiniteSet(s)
  BY FS_Interval, FS_Subset
<1>2. IsFiniteSet(s \X (1 .. m))
  BY <1>1, FS_Product
<1>3. Points(t, s) \in SUBSET (s \X (1 .. m))
  BY DEF Points
<1> QED
  BY <1>2, <1>3, FS_Subset

\* A column of n points.
LEMMA Column ==
  ASSUME NEW x, NEW n \in Nat
  PROVE  IsFiniteSet({x} \X (1 .. n)) /\ Cardinality({x} \X (1 .. n)) = n
<1>1. IsFiniteSet(1 .. n) /\ Cardinality(1 .. n) = n
  BY FS_Interval
<1>2. IsFiniteSet({x}) /\ Cardinality({x}) = 1
  BY FS_Singleton
<1>3. IsFiniteSet({x} \X (1 .. n)) /\ Cardinality({x} \X (1 .. n)) = 1 * n
  BY <1>1, <1>2, FS_Product
<1> QED
  BY <1>3

\* One column more has as many points more.
LEMMA PointsAdd ==
  ASSUME NEW S, IsFiniteSet(S), NEW t \in Weights(S), NEW s \in SUBSET S, NEW x \in s
  PROVE  Cardinality(Points(t, s)) = t[x] + Cardinality(Points(t, s \ {x}))
         /\ Cardinality(Points(t, s \ {x})) \in Nat
<1> DEFINE A == {x} \X (1 .. t[x])
           B == Points(t, s \ {x})
<1> PICK m \in Nat : t \in [S -> Nat] /\ \A y \in S : t[y] <= m
  BY DEF Weights
<1>1. t[x] \in Nat
  OBVIOUS
<1>2. Points(t, s) = A \cup B /\ A \cap B = {}
  BY <1>1 DEF Points
<1>3. IsFiniteSet(A) /\ Cardinality(A) = t[x]
  BY <1>1, Column
<1>4. IsFiniteSet(B)
  BY PointsFinite
<1> HIDE DEF A, B
<1>5. Cardinality(A \cup B) = t[x] + Cardinality(B) - Cardinality({})
  BY <1>2, <1>3, <1>4, FS_Union
<1> QED
  BY <1>1, <1>2, <1>4, <1>5, FS_EmptySet, FS_CardinalityType DEF B

\* f adds up what the members of S weigh, x choosing the next one.
Summing(f, t, x, S) ==
  /\ x \in [(SUBSET S) \ {{}} -> S] /\ \A s \in (SUBSET S) \ {{}} : x[s] \in s
  /\ f[{}] = 0
  /\ \A s \in (SUBSET S) \ {{}} :
       f[s] \in {t[x[s]] + f[s \ {x[s]}], f[s \ {x[s]}] + t[x[s]]}

\* The number of points over the parts of S.
NumberOfPoints(t, S) == [s \in SUBSET S |-> Cardinality(Points(t, s))]

\* The number of points is such a sum.
LEMMA PointsSum ==
  ASSUME NEW S, IsFiniteSet(S), NEW t \in Weights(S),
         NEW x \in [(SUBSET S) \ {{}} -> S], \A s \in (SUBSET S) \ {{}} : x[s] \in s
  PROVE  Summing(NumberOfPoints(t, S), t, x, S)
<1> DEFINE f == [s \in SUBSET S |-> Cardinality(Points(t, s))]
<1>1. f[{}] = 0
  <2>1. Points(t, {}) = {}
    BY DEF Points
  <2> QED
    BY <2>1, FS_EmptySet
<1>2. \A s \in (SUBSET S) \ {{}} : f[s] = t[x[s]] + f[s \ {x[s]}]
  BY PointsAdd
<1> HIDE DEF f
<1>3. Summing(f, t, x, S)
  BY <1>1, <1>2 DEF Summing
<1> QED
  BY <1>3 DEF f, NumberOfPoints

\* It is a natural number.
LEMMA PointsCount ==
  ASSUME NEW S, IsFiniteSet(S), NEW t \in Weights(S), NEW s \in SUBSET S
  PROVE  NumberOfPoints(t, S)[s] \in Nat
BY PointsFinite, FS_CardinalityType DEF NumberOfPoints

\* There is no other: a fold over a finite set does not depend on what is chosen first.
LEMMA SumUnique ==
  ASSUME NEW S, IsFiniteSet(S), NEW t \in Weights(S),
         NEW f, NEW x, Summing(f, t, x, S)
  PROVE  f[S] = Cardinality(Points(t, S)) /\ f[S] \in Nat
<1> DEFINE g == NumberOfPoints(t, S)
           Bad == {s \in SUBSET S : f[s] # g[s]}
           R == StrictSubsetOrdering(S)
<1>1. Summing(g, t, x, S)
  <2>1. x \in [(SUBSET S) \ {{}} -> S] /\ \A s \in (SUBSET S) \ {{}} : x[s] \in s
    BY DEF Summing
  <2> QED
    BY <2>1, PointsSum
<1>2. \A s \in SUBSET S : s \in FiniteSubsetsOf(S)
  BY FS_Subset DEF FiniteSubsetsOf
<1>3. \A s \in SUBSET S : g[s] \in Nat
  BY PointsCount
<1>4. Bad = {}
  <2> SUFFICES ASSUME Bad # {} PROVE FALSE
    OBVIOUS
  <2> HIDE DEF g
  <2>1. Bad \subseteq FiniteSubsetsOf(S)
    BY <1>2
  <2>2. PICK s \in Bad : \A r \in Bad : ~ (<<r, s>> \in R)
    BY <2>1, FS_StrictSubsetOrderingWellFounded, WFMin
  <2>3. CASE s = {}
    BY <1>1, <2>3 DEF Summing
  <2>4. CASE s # {}
    <3> DEFINE r == s \ {x[s]}
    <3>1. s \in (SUBSET S) \ {{}} /\ x[s] \in s /\ r \in SUBSET S
      BY <2>4 DEF Summing
    <3>2. <<r, s>> \in R
      BY <3>1 DEF StrictSubsetOrdering
    <3>3. f[r] = g[r]
      BY <2>2, <3>1, <3>2
    <3>4. f[s] \in {t[x[s]] + f[r], f[r] + t[x[s]]} /\ g[s] \in {t[x[s]] + g[r], g[r] + t[x[s]]}
      BY <1>1, <3>1 DEF Summing
    <3>5. t[x[s]] \in Nat /\ g[r] \in Nat
      BY <1>3, <3>1 DEF Weights
    <3> QED
      BY <2>2, <3>3, <3>4, <3>5
  <2> QED
    BY <2>3, <2>4
<1>5. g[S] = Cardinality(Points(t, S))
  BY DEF NumberOfPoints
<1> QED
  BY <1>4, <1>3, <1>5

\* h adds up what the members of S weigh, whichever is chosen next.
AnySum(h, t, S) ==
  h = [s \in SUBSET S |-> IF s = {} THEN 0 ELSE LET x == CHOOSE x \in s : TRUE IN t[x] + h[s \ {x}]]

LEMMA AnySumIs ==
  ASSUME NEW S, IsFiniteSet(S), NEW t \in Weights(S)
  PROVE  /\ AnySum(NumberOfPoints(t, S), t, S)
         /\ \A h : AnySum(h, t, S) => h[S] = Cardinality(Points(t, S))
         /\ Cardinality(Points(t, S)) \in Nat
<1> DEFINE any == [s \in (SUBSET S) \ {{}} |-> CHOOSE x \in s : TRUE]
           points == NumberOfPoints(t, S)
<1>1. ASSUME NEW s \in (SUBSET S) \ {{}}
      PROVE  any[s] = (CHOOSE x \in s : TRUE) /\ any[s] \in s /\ any[s] \in S
  <2>1. \E x \in s : TRUE
    OBVIOUS
  <2>2. (CHOOSE x \in s : TRUE) \in s
    BY <2>1
  <2> QED
    BY <2>2
<1>2. any \in [(SUBSET S) \ {{}} -> S] /\ \A s \in (SUBSET S) \ {{}} : any[s] \in s
  BY <1>1
<1> HIDE DEF any
<1>3. Summing(points, t, any, S)
  BY <1>2, PointsSum
<1>4. points = [s \in SUBSET S |-> points[s]] /\ \A s \in SUBSET S : points[s] \in Nat
  BY PointsCount DEF NumberOfPoints
<1>5. \A x \in S : t[x] \in Nat
  BY DEF Weights
<1> HIDE DEF points
<1>6. ASSUME NEW s \in (SUBSET S) \ {{}}
      PROVE  LET x == CHOOSE x \in s : TRUE IN points[s] = t[x] + points[s \ {x}]
  <2>1. points[s] \in {t[any[s]] + points[s \ {any[s]}], points[s \ {any[s]}] + t[any[s]]}
    BY <1>3 DEF Summing
  <2>2. t[any[s]] \in Nat /\ points[s \ {any[s]}] \in Nat
    BY <1>1, <1>4, <1>5
  <2>3. points[s] = t[any[s]] + points[s \ {any[s]}]
    BY <2>1, <2>2
  <2> QED
    BY <1>1, <2>3
<1>7. points[{}] = 0
  BY <1>3 DEF Summing
<1>8. AnySum(points, t, S)
  BY <1>4, <1>6, <1>7 DEF AnySum
<1>9. ASSUME NEW h, AnySum(h, t, S) PROVE h[S] = Cardinality(Points(t, S))
  <2>1. ASSUME NEW s \in (SUBSET S) \ {{}} PROVE h[s] = t[any[s]] + h[s \ {any[s]}]
    <3>1. h[s] = LET x == CHOOSE x \in s : TRUE IN t[x] + h[s \ {x}]
      BY <1>9 DEF AnySum
    <3> QED
      BY <1>1, <3>1
  <2>2. h[{}] = 0
    BY <1>9 DEF AnySum
  <2>3. Summing(h, t, any, S)
    BY <1>2, <2>1, <2>2 DEF Summing
  <2> QED
    BY <2>3, SumUnique
<1>10. Cardinality(Points(t, S)) \in Nat
  BY PointsFinite, FS_CardinalityType
<1> QED
  BY <1>8, <1>9, <1>10 DEF points

-----------------------------------------------------------------------------
(* The check of cards.                                                       *)

\* A set of places that is not empty has a last one.
LEMMA Greatest ==
  ASSUME NEW n \in Nat, NEW T, T \subseteq 1 .. n, T # {}
  PROVE  (CHOOSE x \in T : \A y \in T : x >= y) \in T
<1> DEFINE R == {ss \in Nat \X Nat : ss[1] < ss[2]}
           U == {n - x : x \in T}
<1>1. IsWellFoundedOn(R, Nat)
  BY NatLessThanWellFounded DEF OpToRel
<1>2. U \subseteq Nat /\ U # {}
  <2>1. \E x \in T : n - x \in U
    OBVIOUS
  <2>2. \A x \in T : n - x \in Nat
    OBVIOUS
  <2> QED
    BY <2>1, <2>2
<1> HIDE DEF R, U
<1>3. PICK u \in U : \A y \in U : ~ (<<y, u>> \in R)
  BY <1>2, <1>1, WFMin
<1>4. \A y \in U : ~ (y < u)
  BY <1>2, <1>3 DEF R
<1>5. PICK x \in T : u = n - x
  BY DEF U
<1>6. \A y \in T : x >= y
  <2> TAKE y \in T
  <2>1. n - y \in U
    BY DEF U
  <2> QED
    BY <1>4, <1>5, <2>1
<1> QED
  BY <1>6

\* What Max and a free choice choose of a set of places.
LEMMA Chosen ==
  ASSUME NEW n \in Nat, NEW S, S = 1 .. n
  PROVE  \A s \in (SUBSET S) \ {{}} : (CHOOSE i \in s : TRUE) \in s /\ Max(s) \in s
<1> SUFFICES ASSUME NEW s, s \subseteq 1 .. n, s # {}
             PROVE  (CHOOSE i \in s : TRUE) \in s /\ Max(s) \in s
  OBVIOUS
<1>1. \E i \in s : TRUE
  OBVIOUS
<1>2. (CHOOSE i \in s : TRUE) \in s
  BY <1>1
<1>3. Max(s) \in s
  BY Greatest DEF Max
<1> QED
  BY <1>2, <1>3

\* The check of the code is that of Luhn: walked from the end or summed up in any order,
\* with nines cast out or with the digits of the doubled ones.
LEMMA CardIsLuhn ==
  ASSUME NEW d \in Seq(0 .. 9)
  PROVE  IsValidCreditCard(d) <=> Len(d) \in 13 .. 19 /\ LuhnSum(d) % 10 = 0
<1> DEFINE n == Len(d)
           S == DOMAIN d
           term(i) == IF (n - i) % 2 = 0 THEN d[i] ELSE ((2 * d[i]) \div 10) + ((2 * d[i]) % 10)
           doubled(y) == IF 2 * y > 9 THEN 2 * y - 9 ELSE 2 * y
           weight(i) == IF (n - i) % 2 = 1 THEN doubled(d[i]) ELSE d[i]
           t == [i \in S |-> term(i)]
           last == [s \in (SUBSET S) \ {{}} |-> Max(s)]
           points == NumberOfPoints(t, S)
           total == Cardinality(Points(t, S))
<1>1. n \in Nat /\ S = 1 .. n /\ IsFiniteSet(S) /\ \A i \in S : d[i] \in 0 .. 9
  <2>1. n \in Nat /\ S = 1 .. n /\ \A i \in S : d[i] \in 0 .. 9
    BY LenProperties, ElementOfSeq
  <2> QED
    BY <2>1, FS_Interval
<1>2. \A i \in S : term(i) \in 0 .. 18 /\ term(i) = weight(i)
  <2> TAKE i \in S
  <2>1. \A y \in 0 .. 9 : ((2 * y) \div 10) + ((2 * y) % 10) = doubled(y) /\ doubled(y) \in 0 .. 18
    OBVIOUS
  <2>2. (n - i) % 2 \in {0, 1} /\ d[i] \in 0 .. 9
    BY <1>1
  <2> QED
    BY <2>1, <2>2
<1> HIDE DEF term, weight, n
<1>3. t \in Weights(S)
  <2>1. t \in [S -> Nat] /\ \A i \in S : t[i] <= 18
    BY <1>2
  <2> HIDE DEF t
  <2> QED
    BY <2>1 DEF Weights
<1>4. \A s \in (SUBSET S) \ {{}} : (CHOOSE i \in s : TRUE) \in S /\ last[s] = Max(s) /\ last[s] \in s
  BY <1>1, Chosen
<1>5. \A i \in S : t[i] = term(i) /\ t[i] = weight(i) /\ t[i] \in Nat
  BY <1>2
<1>6. last \in [(SUBSET S) \ {{}} -> S]
  BY <1>4
<1> HIDE DEF t, last
<1>7. AnySum(points, t, S) /\ Summing(points, t, last, S) /\ \A s \in SUBSET S : points[s] \in Nat
  BY <1>1, <1>3, <1>4, <1>6, AnySumIs, PointsSum, PointsCount
<1>8. points = [s \in SUBSET S |-> points[s]]
  BY DEF NumberOfPoints
<1> HIDE DEF points
<1>9. LuhnSum(d) = total
  <2> DEFINE f[s \in SUBSET S] ==
               IF s = {} THEN 0 ELSE LET x == CHOOSE x \in s : TRUE IN term(x) + f[s \ {x}]
  <2>1. LuhnSum(d) = f[S]
    BY DEF LuhnSum, MapThenSumSet, MapThenFoldSet, term, n
  <2>2. \A s \in (SUBSET S) \ {{}} : t[CHOOSE x \in s : TRUE] = term(CHOOSE x \in s : TRUE)
    BY <1>4, <1>5
  <2>3. points = [s \in SUBSET S |->
                    IF s = {} THEN 0 ELSE LET x == CHOOSE x \in s : TRUE IN t[x] + points[s \ {x}]]
    BY <1>7 DEF AnySum
  <2>4. points = [s \in SUBSET S |->
                    IF s = {} THEN 0 ELSE LET x == CHOOSE x \in s : TRUE IN term(x) + points[s \ {x}]]
    BY <2>2, <2>3
  <2>5. f = [s \in SUBSET S |->
               IF s = {} THEN 0 ELSE LET x == CHOOSE x \in s : TRUE IN term(x) + f[s \ {x}]]
    BY <2>4
  <2> HIDE DEF f
  <2>6. AnySum(f, t, S)
    BY <2>2, <2>5 DEF AnySum
  <2> QED
    BY <1>1, <1>3, <2>1, <2>6, AnySumIs
<1>10. FoldLeftDomain(LAMBDA acc, i : acc + weight(i), 0, d) = total
  <2> DEFINE e == [i \in DOMAIN d |-> i]
             f[s \in SUBSET DOMAIN e] ==
               IF s = {} THEN 0 ELSE LET x == Max(s) IN f[s \ {x}] + weight(e[x])
  <2>1. FoldLeftDomain(LAMBDA acc, i : acc + weight(i), 0, d) = f[DOMAIN e]
    BY DEF FoldLeftDomain, FoldLeft, MapThenFoldSet
  <2>2. DOMAIN e = S /\ \A s \in SUBSET S : s # {} => e[Max(s)] = Max(s)
    BY <1>4
  <2> HIDE DEF e
  <2>3. ASSUME NEW s \in SUBSET S, s # {}
        PROVE  LET x == Max(s) IN points[s] = points[s \ {x}] + weight(x)
    <3>1. points[s] \in {t[last[s]] + points[s \ {last[s]}], points[s \ {last[s]}] + t[last[s]]}
      BY <1>7, <2>3 DEF Summing
    <3>2. last[s] = Max(s) /\ t[last[s]] = weight(last[s]) /\ t[last[s]] \in Nat
      BY <1>4, <1>5, <2>3
    <3>3. points[s \ {last[s]}] \in Nat
      BY <1>7
    <3> QED
      BY <3>1, <3>2, <3>3
  <2>4. points[{}] = 0
    BY <1>7 DEF Summing
  <2>5. points = [s \in SUBSET DOMAIN e |->
                    IF s = {} THEN 0 ELSE LET x == Max(s) IN points[s \ {x}] + weight(e[x])]
    BY <1>8, <2>2, <2>3, <2>4
  <2>6. f = [s \in SUBSET DOMAIN e |->
               IF s = {} THEN 0 ELSE LET x == Max(s) IN f[s \ {x}] + weight(e[x])]
    BY <2>5
  <2> HIDE DEF f
  <2>7. Summing(f, t, last, S)
    <3>1. ASSUME NEW s \in (SUBSET S) \ {{}} PROVE f[s] = f[s \ {last[s]}] + t[last[s]]
      <4>1. f[s] = LET x == Max(s) IN f[s \ {x}] + weight(e[x])
        BY <2>2, <2>6
      <4>2. last[s] = Max(s) /\ last[s] \in S
        BY <1>4
      <4> QED
        BY <1>5, <2>2, <4>1, <4>2
    <3>2. f[{}] = 0
      BY <2>2, <2>6
    <3> QED
      BY <1>7, <3>1, <3>2 DEF Summing
  <2>8. f[S] = total
    BY <1>1, <1>3, <2>7, SumUnique
  <2> QED
    BY <2>1, <2>2, <2>8
<1> QED
  BY <1>9, <1>10 DEF IsValidCreditCard, weight, n

\* The digits of a text that a method is given.
LEMMA TextHasDigits == ASSUME NEW a \in Arguments, NEW text \in TextsOf(a) PROVE text.digits \in Seq(0 .. 9)
<1>1. text \in Texts
  <2>1. CASE a.is = "text"
    BY <2>1 DEF TextsOf, Arguments, Items, Texts
  <2>2. CASE a.is = "list"
    <3>1. a \in [is : {"list"}, items : Seq(Items)]
      BY <2>2 DEF Arguments, Items, Texts
    <3>2. a.items \in Seq(Items)
      BY <3>1
    <3>3. \A k \in DOMAIN a.items : a.items[k] \in Items
      BY <3>2, LenProperties, ElementOfSeq
    <3>4. \A item \in Items : item.is = "text" => item \in Texts
      BY DEF Items, Texts
    <3> QED
      BY <2>2, <3>3, <3>4 DEF TextsOf, ToSet
  <2>3. CASE a.is \notin {"text", "list"}
    BY <2>3 DEF TextsOf
  <2> QED
    BY <2>1, <2>2, <2>3
<1> QED
  BY <1>1 DEF Texts, Digits

\* Whatever methods are given and return, texts, numbers or lists of them, a span shows
\* of their texts nobody's address and no digits that satisfy the formula of Luhn, and all
\* other digits of the texts that are shown.  A number is shown whatever it is.
THEOREM SpansCorrect == TracingSpec => []SpansShowNobody
<1>1. ASSUME TracingInv PROVE SpansShowNobody
  <2>1. ASSUME NEW c \in Calls, NEW v \in spans[c].shown, NEW text \in TextsOf(v)
        PROVE  ~ text.personal /\ (text.digits # <<>> => LuhnSum(text.digits) % 10 # 0)
    <3>1. ~ text.personal /\ ~ IsValidCreditCard(text.digits)
      BY <1>1, InvRedacted DEF ShownIsRedacted
    <3>2. text.digits \in Seq(0 .. 9) /\ Len(text.digits) \in {0, 16}
      <4>1. v \in Values
        BY <1>1 DEF TracingInv, TracingTypeOK, SpanRecords
      <4>2. PICK m \in Methods : \E a \in ToSet(Decorated[m].args) \cup {Decorated[m].result} : v = SanitizeArgument(a)
        BY <4>1 DEF Values
      <4>3. PICK a \in Arguments : v = SanitizeArgument(a)
        BY <4>2, TracingAssumption
      <4> QED
        BY <4>3, ArgumentRedacted
    <3>3. text.digits # <<>> => Len(text.digits) = 16
      BY <3>2, EmptySeq
    <3> QED
      BY <3>1, <3>2, <3>3, CardIsLuhn
  <2>2. ASSUME NEW c \in Calls, spans[c].state # "none", MethodOf(c).span = "traced",
               NEW a \in ToSet(MethodOf(c).args), a.is = "text" \/ (a.is = "list" /\ IsSimple(a)),
               NEW text \in TextsOf(a), LuhnSum(text.digits) % 10 # 0
        PROVE  \E v \in spans[c].shown : v.is = a.is /\ \E left \in TextsOf(v) : left.digits = text.digits
    <3> DEFINE m == calls[c].method
               v == SanitizeArgument(a)
    <3>1. m \in Methods /\ Decorated[m].span = "traced" /\ a \in ToSet(Decorated[m].args)
      <4>1. Placed(c)
        BY <1>1 DEF TracingInv, TraceInv
      <4> QED
        BY <2>2, <4>1 DEF Placed, MethodOf
    <3>2. a \in Arguments
      BY <3>1, TracingAssumption
    <3>3. ~ IsValidCreditCard(text.digits)
      BY <2>2, <3>2, TextHasDigits, CardIsLuhn
    <3>4. v # Nothing /\ v.is = a.is /\ \E left \in TextsOf(v) : left.digits = text.digits
      BY <2>2, <3>2, <3>3, DigitsKept
    <3>5. v \in Sanitized(m)
      BY <3>1, <3>4 DEF Sanitized
    <3>6. Sanitized(m) \subseteq spans[c].shown
      <4>1. Shows(calls[c], spans[c])
        BY <1>1 DEF TracingInv
      <4> QED
        BY <2>2, <3>1, <4>1 DEF Shows
    <3> QED
      BY <3>4, <3>5, <3>6
  <2> QED
    BY <2>1, <2>2 DEF SpansShowNobody
<1> QED
  BY <1>1, TracingInvariance, PTL

-----------------------------------------------------------------------------
(* ProfilingMetrics                                                          *)

\* Multiplication keeps the order.
LEMMA TimesOrder ==
  \A a, b \in Int, c \in Nat : a <= b => c * a <= c * b /\ a * c <= b * c
OBVIOUS

\* The quotient and what is left.
LEMMA Quotient ==
  ASSUME NEW a \in Int, NEW b \in Nat \ {0}
  PROVE  /\ a \div b \in Int
         /\ b * (a \div b) <= a /\ a < b * (a \div b) + b
         /\ \A x \in Int : b * x <= a => x <= a \div b
         /\ \A x \in Int : a < b * x + b => a \div b <= x
<1> DEFINE q == a \div b
<1>1. q \in Int
  OBVIOUS
<1>2. a = b * q + (a % b) /\ a % b \in 0 .. b - 1
  OBVIOUS
<1> HIDE DEF q
<1>3. b * q \in Int /\ b * q <= a /\ a < b * q + b
  <2>1. b * q \in Int
    BY <1>1
  <2> QED
    BY <1>2, <2>1
<1>4. ASSUME NEW x \in Int, b * x <= a PROVE x <= q
  <2> SUFFICES ASSUME q + 1 <= x PROVE FALSE
    BY <1>1
  <2>1. b * (q + 1) <= b * x
    BY <1>1, TimesOrder
  <2>2. b * (q + 1) = b * q + b /\ b * x \in Int
    BY <1>1
  <2> QED
    BY <1>3, <1>4, <2>1, <2>2
<1>5. ASSUME NEW x \in Int, a < b * x + b PROVE q <= x
  <2> SUFFICES ASSUME x + 1 <= q PROVE FALSE
    BY <1>1
  <2>1. b * (x + 1) <= b * q
    BY <1>1, TimesOrder
  <2>2. b * (x + 1) = b * x + b /\ b * x \in Int
    OBVIOUS
  <2> QED
    BY <1>3, <1>5, <2>1, <2>2
<1> QED
  BY <1>1, <1>3, <1>4, <1>5 DEF q

\* An average lies between the bounds of what it is taken of, and rounded half up to
\* 1/p is off by half of it at most.
LEMMA Mean ==
  ASSUME NEW n \in Nat \ {0}, NEW t \in Nat, NEW p \in Nat \ {0}, NEW lo \in Int, NEW hi \in Int,
         lo * n <= t, t <= hi * n
  PROVE  LET told == (2 * p * t + n) \div (2 * n)
         IN /\ lo <= t \div n /\ t \div n <= hi
            /\ lo * p <= told /\ told <= hi * p
            /\ 2 * (told * n - t * p) \in -n + 1 .. n
<1> DEFINE a == 2 * p * t + n
           b == 2 * n
           told == a \div b
<1>1. a \in Int /\ b \in Nat \ {0}
  OBVIOUS
<1>2. t \div n \in Int /\ lo <= t \div n /\ t \div n <= hi
  <2>1. n * lo <= t /\ t < n * hi + n
    OBVIOUS
  <2> QED
    BY <2>1, Quotient
<1>3. p * (lo * n) <= p * t /\ p * t <= p * (hi * n)
  <2>1. lo * n \in Int /\ hi * n \in Int /\ t \in Int /\ p \in Nat
    OBVIOUS
  <2> QED
    BY <2>1, TimesOrder
<1>4. b * (lo * p) <= a /\ a < b * (hi * p) + b
  <2>1. b * (lo * p) = 2 * (p * (lo * n)) /\ b * (hi * p) = 2 * (p * (hi * n)) /\ a = 2 * (p * t) + n
    OBVIOUS
  <2>2. p * (lo * n) \in Int /\ p * (hi * n) \in Int /\ p * t \in Int
    OBVIOUS
  <2> QED
    BY <1>3, <2>1, <2>2
<1>5. lo * p \in Int /\ hi * p \in Int
  OBVIOUS
<1>6. told \in Int /\ b * told <= a /\ a < b * told + b /\ lo * p <= told /\ told <= hi * p
  <2> HIDE DEF a, b
  <2> QED
    BY <1>1, <1>4, <1>5, Quotient
<1>7. 2 * (told * n - t * p) \in -n + 1 .. n
  <2>1. b * told = 2 * (told * n) /\ a = 2 * (t * p) + n /\ told * n \in Int /\ t * p \in Int
    BY <1>6
  <2> HIDE DEF a, b, told
  <2>2. 2 * (told * n - t * p) = b * told - (a - n) /\ b * told \in Int
    BY <1>1, <2>1
  <2> QED
    BY <1>1, <1>6, <2>2 DEF b
<1> QED
  BY <1>2, <1>6, <1>7

\* Of finitely many members one has the greatest value.
LEMMA HasGreatest ==
  ASSUME NEW S, IsFiniteSet(S), S # {}, NEW v \in [S -> Int]
  PROVE  \E x \in S : \A y \in S : v[y] <= v[x]
<1> DEFINE Good(s) == \E x \in s : \A y \in s : v[y] <= v[x]
           Bad == {s \in (SUBSET S) \ {{}} : ~ Good(s)}
           R == StrictSubsetOrdering(S)
<1> SUFFICES ASSUME Bad # {} PROVE FALSE
  OBVIOUS
<1>1. Bad \subseteq FiniteSubsetsOf(S)
  BY FS_Subset DEF FiniteSubsetsOf
<1>2. PICK s \in Bad : \A r \in Bad : ~ (<<r, s>> \in R)
  BY <1>1, FS_StrictSubsetOrderingWellFounded, WFMin
<1>3. PICK z \in s : TRUE
  OBVIOUS
<1> DEFINE r == s \ {z}
<1>4. r \in SUBSET S /\ <<r, s>> \in R
  BY <1>3 DEF StrictSubsetOrdering
<1>5. CASE r = {}
  <2>1. \A y \in s : v[y] <= v[z]
    BY <1>3, <1>5
  <2> QED
    BY <1>3, <2>1
<1>6. CASE r # {}
  <2>1. r \notin Bad
    BY <1>2, <1>4
  <2>2. PICK x \in r : \A y \in r : v[y] <= v[x]
    BY <1>4, <1>6, <2>1
  <2>3. \A y \in s : v[y] \in Int
    OBVIOUS
  <2>4. (\A y \in s : v[y] <= v[x]) \/ (\A y \in s : v[y] <= v[z])
    BY <1>3, <2>2, <2>3
  <2> QED
    BY <1>3, <2>2, <2>4
<1> QED
  BY <1>5, <1>6

\* What RecordRequest is given.
Metric == [status : Statuses, duration : Durations, tag : Tags \cup {"none"}]

\* The places of the requests that count, those of them that failed, and what they took.
Valid(ms) == {k \in DOMAIN ms : ms[k].duration >= 0}
Failures(ms) == {k \in Valid(ms) : ~ Successful(ms[k].status)}
Spent(ms) == [k \in Valid(ms) |-> ms[k].duration]
TimeOf(ms) == Cardinality(Points(Spent(ms), Valid(ms)))

\* The counters are the numbers of these places; and the time is that of as many requests
\* as were counted, none shorter than the shortest nor longer than the longest.
Exact(ms, r) ==
  /\ ms \in Seq(Metric)
  /\ r \in [total : Nat, successful : Nat, failed : Nat, time : Nat]
  /\ r.total = Cardinality(Valid(ms))
  /\ r.failed = Cardinality(Failures(ms))
  /\ r.total = r.successful + r.failed
  /\ r.time = TimeOf(ms)
  /\ \A lo, hi \in Int :
       (\A k \in Valid(ms) : lo <= ms[k].duration /\ ms[k].duration <= hi)
         => lo * r.total <= r.time /\ r.time <= hi * r.total
CountersExact == Exact(samples, requests)

\* The durations that count have a bound.
LEMMA SpentWeighs ==
  ASSUME NEW ms \in Seq(Metric)
  PROVE  /\ IsFiniteSet(Valid(ms)) /\ IsFiniteSet(Failures(ms))
         /\ Spent(ms) \in Weights(Valid(ms))
         /\ \A k \in Valid(ms) : ms[k] \in Metric /\ ms[k].duration \in Nat
<1>1. Len(ms) \in Nat /\ DOMAIN ms = 1 .. Len(ms) /\ IsFiniteSet(DOMAIN ms)
  <2>1. Len(ms) \in Nat /\ DOMAIN ms = 1 .. Len(ms)
    BY LenProperties
  <2>2. \A m \in Nat : IsFiniteSet(1 .. m)
    BY FS_Interval
  <2> QED
    BY <2>1, <2>2
<1>2. IsFiniteSet(Valid(ms)) /\ IsFiniteSet(Failures(ms))
  BY <1>1, FS_Subset DEF Valid, Failures
<1>3. ASSUME NEW k \in Valid(ms) PROVE ms[k] \in Metric /\ ms[k].duration \in Nat
  <2>1. k \in 1 .. Len(ms) /\ ms[k].duration >= 0
    BY <1>1 DEF Valid
  <2>2. ms[k] \in Metric
    BY <2>1, ElementOfSeq
  <2>3. ms[k].duration \in Int
    BY <2>2, ProfilingAssumption DEF Metric
  <2> QED
    BY <2>1, <2>2, <2>3
<1>4. Spent(ms) \in [Valid(ms) -> Nat]
  BY <1>3 DEF Spent
<1>5. \E m \in Nat : \A k \in Valid(ms) : Spent(ms)[k] <= m
  <2>1. CASE Valid(ms) = {}
    BY <2>1
  <2>2. CASE Valid(ms) # {}
    <3>1. Spent(ms) \in [Valid(ms) -> Int]
      BY <1>4
    <3>2. PICK x \in Valid(ms) : \A y \in Valid(ms) : Spent(ms)[y] <= Spent(ms)[x]
      BY <1>2, <2>2, <3>1, HasGreatest
    <3>3. Spent(ms)[x] \in Nat
      BY <1>4
    <3> QED
      BY <3>2, <3>3
  <2> QED
    BY <2>1, <2>2
<1> QED
  BY <1>2, <1>3, <1>4, <1>5 DEF Weights

\* One request more.
LEMMA OneMore ==
  ASSUME NEW ms \in Seq(Metric), NEW m \in Metric
  PROVE  LET more == Append(ms, m)
             next == Len(ms) + 1
         IN /\ more \in Seq(Metric) /\ next \notin Valid(ms)
            /\ \A k \in Valid(ms) : more[k] = ms[k]
            /\ m.duration < 0 => /\ Valid(more) = Valid(ms) /\ Failures(more) = Failures(ms)
                                 /\ TimeOf(more) = TimeOf(ms)
            /\ m.duration >= 0 =>
                 /\ Valid(more) = Valid(ms) \cup {next} /\ more[next] = m
                 /\ Failures(more) = Failures(ms) \cup (IF Successful(m.status) THEN {} ELSE {next})
                 /\ TimeOf(more) = TimeOf(ms) + m.duration
<1> DEFINE more == Append(ms, m)
           next == Len(ms) + 1
           S == Valid(ms)
           T == Valid(more)
<1>1. /\ more \in Seq(Metric) /\ Len(ms) \in Nat /\ next \in Nat /\ DOMAIN ms = 1 .. Len(ms)
      /\ DOMAIN more = 1 .. next /\ more[next] = m /\ \A k \in DOMAIN ms : more[k] = ms[k]
  <2>1. more \in Seq(Metric) /\ Len(more) = Len(ms) + 1 /\ \A k \in 1 .. Len(ms) : more[k] = ms[k]
    BY AppendProperties
  <2>2. more[next] = m
    BY AppendProperties
  <2>3. Len(ms) \in Nat /\ DOMAIN ms = 1 .. Len(ms) /\ DOMAIN more = 1 .. Len(more)
    BY <2>1, LenProperties
  <2> HIDE DEF more
  <2> QED
    BY <2>1, <2>2, <2>3
<1> HIDE DEF more
<1>2. next \notin DOMAIN ms /\ next \in DOMAIN more /\ DOMAIN more = DOMAIN ms \cup {next}
  BY <1>1
<1> HIDE DEF next
<1>3. next \notin S /\ \A k \in S : more[k] = ms[k]
  BY <1>1, <1>2 DEF Valid
<1>4. T = S \cup (IF m.duration >= 0 THEN {next} ELSE {})
  BY <1>1, <1>2 DEF Valid
<1>5. ASSUME m.duration < 0
      PROVE  T = S /\ Failures(more) = Failures(ms) /\ TimeOf(more) = TimeOf(ms)
  <2>1. m.duration \in Int
    BY ProfilingAssumption DEF Metric
  <2>2. T = S
    BY <1>4, <1>5, <2>1
  <2>3. Failures(more) = Failures(ms)
    BY <1>3, <2>2 DEF Failures
  <2>4. Spent(more) = Spent(ms)
    BY <1>3, <2>2 DEF Spent
  <2> QED
    BY <2>2, <2>3, <2>4 DEF TimeOf
<1>6. ASSUME m.duration >= 0
      PROVE  /\ T = S \cup {next}
             /\ Failures(more) = Failures(ms) \cup (IF Successful(m.status) THEN {} ELSE {next})
             /\ TimeOf(more) = TimeOf(ms) + m.duration
  <2>1. T = S \cup {next} /\ T \ {next} = S /\ next \in T
    BY <1>3, <1>4, <1>6
  <2>2. Failures(more) = Failures(ms) \cup (IF Successful(m.status) THEN {} ELSE {next})
    BY <1>1, <1>3, <2>1 DEF Failures
  <2>3. IsFiniteSet(T) /\ Spent(more) \in Weights(T)
    BY <1>1, SpentWeighs
  <2>4. /\ Cardinality(Points(Spent(more), T)) = Spent(more)[next] + Cardinality(Points(Spent(more), S))
        /\ Cardinality(Points(Spent(more), S)) \in Nat
    <3> HIDE DEF S, T
    <3>1. T \in SUBSET T
      OBVIOUS
    <3>2. \A k \in T :
             /\ Cardinality(Points(Spent(more), T)) = Spent(more)[k] + Cardinality(Points(Spent(more), T \ {k}))
             /\ Cardinality(Points(Spent(more), T \ {k})) \in Nat
      BY <2>3, <3>1, PointsAdd
    <3> QED
      BY <2>1, <3>2
  <2>5. Spent(more)[next] = m.duration
    BY <1>1, <2>1 DEF Spent
  <2>6. Points(Spent(more), S) = Points(Spent(ms), S)
    <3>1. \A k \in S : Spent(more)[k] = Spent(ms)[k]
      BY <1>3, <2>1 DEF Spent
    <3> HIDE DEF S
    <3> QED
      BY <3>1 DEF Points
  <2>7. m.duration \in Int
    BY ProfilingAssumption DEF Metric
  <2>8. TimeOf(more) = TimeOf(ms) + m.duration
    BY <2>4, <2>5, <2>6, <2>7 DEF TimeOf
  <2> QED
    BY <2>1, <2>2, <2>8
<1>7. m.duration < 0 => T = S /\ Failures(more) = Failures(ms) /\ TimeOf(more) = TimeOf(ms)
  BY <1>5
<1>8. m.duration >= 0 =>
             /\ T = S \cup {next}
             /\ Failures(more) = Failures(ms) \cup (IF Successful(m.status) THEN {} ELSE {next})
             /\ TimeOf(more) = TimeOf(ms) + m.duration
  BY <1>6
<1> QED
  BY <1>1, <1>3, <1>7, <1>8 DEF more, next

\* No request is recorded.
LEMMA NoneExact == Exact(<<>>, NoRequests)
<1> DEFINE none == <<>>
<1>1. Valid(none) = {} /\ Failures(none) = {}
  BY DEF Valid, Failures
<1>2. TimeOf(none) = 0
  <2>1. Points(Spent(none), {}) = {}
    BY DEF Points
  <2> QED
    BY <1>1, <2>1, FS_EmptySet DEF TimeOf
<1>3. Cardinality({}) = 0
  BY FS_EmptySet
<1>4. none \in Seq(Metric)
  OBVIOUS
<1>5. /\ NoRequests.total = 0 /\ NoRequests.failed = 0 /\ NoRequests.successful = 0 /\ NoRequests.time = 0
      /\ NoRequests \in [total : Nat, successful : Nat, failed : Nat, time : Nat]
  BY DEF NoRequests
<1> HIDE DEF none
<1>6. Exact(none, NoRequests)
  BY <1>1, <1>2, <1>3, <1>4, <1>5 DEF Exact
<1> QED
  BY <1>6 DEF none

\* A request keeps the counters exact.
LEMMA RequestExact ==
  ASSUME CountersExact, NEW s \in Statuses, NEW d \in Durations, NEW t \in Tags \cup {"none"},
         RecordRequest(s, d, t)
  PROVE  CountersExact'
<1> DEFINE m == [status |-> s, duration |-> d, tag |-> t]
           next == Len(samples) + 1
<1>1. m \in Metric /\ m.duration = d /\ m.status = s /\ d \in Int
  BY ProfilingAssumption DEF Metric
<1>2. samples' = Append(samples, m) /\ samples \in Seq(Metric)
  BY DEF RecordRequest, CountersExact, Exact
<1> HIDE DEF m
<1>3. /\ samples' \in Seq(Metric) /\ next \notin Valid(samples)
      /\ \A k \in Valid(samples) : samples'[k] = samples[k]
      /\ d < 0 => /\ Valid(samples') = Valid(samples) /\ Failures(samples') = Failures(samples)
                  /\ TimeOf(samples') = TimeOf(samples)
      /\ d >= 0 =>
           /\ Valid(samples') = Valid(samples) \cup {next} /\ samples'[next] = m
           /\ Failures(samples') = Failures(samples) \cup (IF Successful(s) THEN {} ELSE {next})
           /\ TimeOf(samples') = TimeOf(samples) + d
  BY <1>1, <1>2, OneMore
<1> HIDE DEF next
<1>4. CASE d < 0
  <2>1. requests' = requests
    BY <1>4 DEF RecordRequest
  <2>2. /\ samples' \in Seq(Metric) /\ Valid(samples') = Valid(samples)
        /\ Failures(samples') = Failures(samples) /\ TimeOf(samples') = TimeOf(samples)
        /\ \A k \in Valid(samples) : samples'[k] = samples[k]
    BY <1>3, <1>4
  <2>3. ASSUME NEW lo \in Int, NEW hi \in Int,
               \A k \in Valid(samples') : lo <= samples'[k].duration /\ samples'[k].duration <= hi
        PROVE  lo * requests.total <= requests.time /\ requests.time <= hi * requests.total
    <3>1. \A k \in Valid(samples) : lo <= samples[k].duration /\ samples[k].duration <= hi
      BY <2>2, <2>3
    <3> QED
      BY <3>1 DEF CountersExact, Exact
  <2> QED
    BY <2>1, <2>2, <2>3 DEF CountersExact, Exact
<1>5. CASE d >= 0
  <2> DEFINE one == IF Successful(s) THEN 1 ELSE 0
  <2>1. requests' = [total |-> requests.total + 1, time |-> requests.time + d,
                     successful |-> requests.successful + one, failed |-> requests.failed + (1 - one)]
    BY <1>1, <1>5 DEF RecordRequest
  <2>2. requests \in [total : Nat, successful : Nat, failed : Nat, time : Nat] /\ one \in {0, 1} /\ d \in Nat
    BY <1>1, <1>5 DEF CountersExact, Exact
  <2>3. IsFiniteSet(Valid(samples)) /\ IsFiniteSet(Failures(samples))
    BY <1>2, SpentWeighs
  <2>4. requests'.total = Cardinality(Valid(samples'))
    <3>1. Cardinality(Valid(samples) \cup {next}) = Cardinality(Valid(samples)) + 1
      BY <1>3, <2>3, FS_AddElement
    <3> QED
      BY <1>3, <1>5, <2>1, <3>1 DEF CountersExact, Exact
  <2>5. requests'.failed = Cardinality(Failures(samples'))
    <3>1. Cardinality(Failures(samples) \cup {next}) = Cardinality(Failures(samples)) + 1
      BY <1>3, <2>3, FS_AddElement DEF Failures
    <3>2. requests.failed \in Nat /\ requests.failed = Cardinality(Failures(samples))
      BY DEF CountersExact, Exact
    <3>3. CASE Successful(s)
      <4>1. Failures(samples') = Failures(samples)
        BY <1>3, <1>5, <3>3
      <4>2. requests'.failed = requests.failed
        BY <2>1, <3>2, <3>3
      <4> QED
        BY <3>2, <4>1, <4>2
    <3>4. CASE ~ Successful(s)
      <4>1. Failures(samples') = Failures(samples) \cup {next}
        BY <1>3, <1>5, <3>4
      <4>2. requests'.failed = requests.failed + 1
        BY <2>1, <3>2, <3>4
      <4> QED
        BY <3>1, <3>2, <4>1, <4>2
    <3> QED
      BY <3>3, <3>4
  <2>6. requests' \in [total : Nat, successful : Nat, failed : Nat, time : Nat]
    BY <2>1, <2>2
  <2>7. requests'.total = requests'.successful + requests'.failed
    BY <2>1, <2>2 DEF CountersExact, Exact
  <2>8. requests'.time = TimeOf(samples')
    BY <1>3, <1>5, <2>1 DEF CountersExact, Exact
  <2>9. ASSUME NEW lo \in Int, NEW hi \in Int,
               \A k \in Valid(samples') : lo <= samples'[k].duration /\ samples'[k].duration <= hi
        PROVE  lo * requests'.total <= requests'.time /\ requests'.time <= hi * requests'.total
    <3>1. \A k \in Valid(samples) : lo <= samples[k].duration /\ samples[k].duration <= hi
      BY <1>3, <1>5, <2>9
    <3>2. lo <= d /\ d <= hi
      BY <1>1, <1>3, <1>5, <2>9
    <3>3. lo * requests.total <= requests.time /\ requests.time <= hi * requests.total
      BY <3>1 DEF CountersExact, Exact
    <3>4. requests'.total = requests.total + 1 /\ requests'.time = requests.time + d
      BY <2>1
    <3>5. /\ lo * (requests.total + 1) = lo * requests.total + lo /\ lo * requests.total \in Int
          /\ hi * (requests.total + 1) = hi * requests.total + hi /\ hi * requests.total \in Int
          /\ requests.time \in Nat
      BY <2>2
    <3> QED
      BY <2>2, <3>2, <3>3, <3>4, <3>5
  <2> QED
    BY <1>3, <2>4, <2>5, <2>6, <2>7, <2>8, <2>9 DEF CountersExact, Exact
<1> QED
  BY <1>1, <1>4, <1>5

\* The counters are exact in every state.
LEMMA CountersInvariance == ProfilingSpec => []CountersExact
<1>1. ProfilingInit => CountersExact
  BY NoneExact DEF ProfilingInit, CountersExact
<1>2. ASSUME CountersExact, [ProfilingNext]_profilingVars PROVE CountersExact'
  <2>1. ASSUME UNCHANGED <<requests, samples>> PROVE CountersExact'
    BY <1>2, <2>1 DEF CountersExact, Exact
  <2>2. CASE UNCHANGED profilingVars
    BY <2>1, <2>2 DEF profilingVars, countVars
  <2>3. ASSUME NEW d \in Durations, RecordCPUSample(d) \/ RecordMemorySample(d) PROVE CountersExact'
    BY <2>1, <2>3 DEF RecordCPUSample, RecordMemorySample
  <2>4. ASSUME NEW s \in Statuses, NEW d \in Durations, NEW t \in Tags \cup {"none"}, RecordRequest(s, d, t)
        PROVE  CountersExact'
    BY <1>2, <2>4, RequestExact
  <2>5. CASE Reset
    BY <2>5, NoneExact DEF Reset, CountersExact
  <2>6. CASE Retrying
    BY <2>1, <2>6 DEF Retrying, Retry, countVars
  <2> QED
    BY <1>2, <2>2, <2>3, <2>4, <2>5, <2>6 DEF ProfilingNext, Counting
<1> QED
  BY <1>1, <1>2, PTL DEF ProfilingSpec

\* The requests that are kept are those that count.
LEMMA KeptIsCounted ==
  /\ DOMAIN Kept = Valid(samples)
  /\ \A k \in Valid(samples) : Kept[k] = samples[k]
BY DEF Kept, Restrict, Valid

\* The durations of an array of metrics add up to the time.
LEMMA TotalIsTime ==
  ASSUME samples \in Seq(Metric)
  PROVE  Total(Kept) = TimeOf(samples)
<1> DEFINE S == DOMAIN Kept
           t == Spent(samples)
           f[s \in SUBSET S] ==
             IF s = {} THEN 0 ELSE LET x == CHOOSE x \in s : TRUE IN Kept[x].duration + f[s \ {x}]
           points == NumberOfPoints(t, S)
<1>1. S = Valid(samples) /\ \A k \in S : Kept[k].duration = t[k]
  BY KeptIsCounted DEF Spent
<1>2. IsFiniteSet(S) /\ t \in Weights(S)
  BY <1>1, SpentWeighs
<1>3. Total(Kept) = f[S]
  BY DEF Total, MapThenSumSet, MapThenFoldSet
<1> HIDE DEF S, t
<1>4. AnySum(points, t, S)
  BY <1>2, AnySumIs
<1>5. \A s \in (SUBSET S) \ {{}} : (CHOOSE x \in s : TRUE) \in S
  <2> SUFFICES ASSUME NEW s \in (SUBSET S) \ {{}} PROVE (CHOOSE x \in s : TRUE) \in s
    OBVIOUS
  <2>1. \E x \in s : TRUE
    OBVIOUS
  <2> QED
    BY <2>1
<1> HIDE DEF points
<1>6. points = [s \in SUBSET S |->
                  IF s = {} THEN 0 ELSE LET x == CHOOSE x \in s : TRUE IN Kept[x].duration + points[s \ {x}]]
  <2>1. points = [s \in SUBSET S |->
                    IF s = {} THEN 0 ELSE LET x == CHOOSE x \in s : TRUE IN t[x] + points[s \ {x}]]
    BY <1>4 DEF AnySum
  <2>2. \A s \in (SUBSET S) \ {{}} : t[CHOOSE x \in s : TRUE] = Kept[CHOOSE x \in s : TRUE].duration
    BY <1>1, <1>5
  <2> QED
    BY <2>1, <2>2
<1>7. f = [s \in SUBSET S |->
             IF s = {} THEN 0 ELSE LET x == CHOOSE x \in s : TRUE IN Kept[x].duration + f[s \ {x}]]
  BY <1>6
<1> HIDE DEF f
<1>8. AnySum(f, t, S)
  <2>1. \A s \in (SUBSET S) \ {{}} : t[CHOOSE x \in s : TRUE] = Kept[CHOOSE x \in s : TRUE].duration
    BY <1>1, <1>5
  <2> QED
    BY <1>7, <2>1 DEF AnySum
<1>9. f[S] = Cardinality(Points(t, S))
  BY <1>2, <1>8, AnySumIs
<1> QED
  BY <1>1, <1>3, <1>9 DEF TimeOf, t

\* The shortest and the longest of the requests that count.
LEMMA Extremes ==
  ASSUME CountersExact, DOMAIN Kept # {}
  PROVE  LET ds == {Kept[k].duration : k \in DOMAIN Kept}
         IN /\ Min(ds) \in Int /\ Max(ds) \in Int
            /\ Min(ds) * requests.total <= requests.time /\ requests.time <= Max(ds) * requests.total
<1> DEFINE S == Valid(samples)
           v == Spent(samples)
           w == [k \in S |-> 0 - v[k]]
           ds == {Kept[k].duration : k \in DOMAIN Kept}
<1>1. DOMAIN Kept = S /\ S # {} /\ \A k \in S : Kept[k].duration = samples[k].duration /\ v[k] = samples[k].duration
  BY KeptIsCounted DEF Spent
<1>2. IsFiniteSet(S) /\ v \in [S -> Nat]
  BY SpentWeighs DEF CountersExact, Exact, Weights
<1>3. v \in [S -> Int] /\ w \in [S -> Int] /\ \A k \in S : w[k] = 0 - v[k]
  BY <1>2
<1> HIDE DEF S, v, w
<1>4. PICK x \in S : \A y \in S : v[y] <= v[x]
  BY <1>1, <1>2, <1>3, HasGreatest
<1>5. PICK z \in S : \A y \in S : w[y] <= w[z]
  BY <1>1, <1>2, <1>3, HasGreatest
<1>6. \A y \in S : v[z] <= v[y] /\ v[y] \in Nat
  BY <1>2, <1>3, <1>5
<1>7. ds = {v[k] : k \in S}
  BY <1>1
<1> HIDE DEF ds
<1>8. Max(ds) = v[x]
  <2>1. v[x] \in ds /\ \A d \in ds : v[x] >= d /\ d \in Int
    BY <1>4, <1>6, <1>7
  <2> QED
    BY <2>1 DEF Max
<1>9. Min(ds) = v[z]
  <2>1. v[z] \in ds /\ \A d \in ds : v[z] <= d /\ d \in Int
    BY <1>6, <1>7
  <2> QED
    BY <2>1 DEF Min
<1>10. v[x] \in Int /\ v[z] \in Int /\ \A k \in S : v[z] <= samples[k].duration /\ samples[k].duration <= v[x]
  BY <1>1, <1>4, <1>6
<1>11. v[z] * requests.total <= requests.time /\ requests.time <= v[x] * requests.total
  BY <1>10 DEF CountersExact, Exact, S
<1> QED
  BY <1>8, <1>9, <1>10, <1>11 DEF ds

\* What exact counters tell adds up.
LEMMA ExactAddsUp == ASSUME CountersExact PROVE RequestsAddUp
<1> DEFINE n == requests.total
           t == requests.time
           ds == {Kept[k].duration : k \in DOMAIN Kept}
<1>1. /\ n \in Nat /\ t \in Nat /\ requests.failed \in Nat /\ requests.successful \in Nat
      /\ n = requests.successful + requests.failed
  BY DEF CountersExact, Exact
<1>2. n = Number(Kept)
  BY KeptIsCounted DEF CountersExact, Exact, Number
<1>3. requests.failed = Cardinality({k \in DOMAIN Kept : Kept[k].status \notin 200 .. 399})
  <2>1. \A k \in Valid(samples) : samples[k].status \in Nat
    BY SpentWeighs, ProfilingAssumption DEF CountersExact, Exact, Metric
  <2>2. \A k \in Valid(samples) : Kept[k].status \notin 200 .. 399 <=> ~ Successful(samples[k].status)
    BY <2>1, KeptIsCounted DEF Successful
  <2>3. {k \in DOMAIN Kept : Kept[k].status \notin 200 .. 399} = Failures(samples)
    BY <2>2, KeptIsCounted DEF Failures
  <2> QED
    BY <2>3 DEF CountersExact, Exact
<1>4. Total(Kept) = t
  BY TotalIsTime DEF CountersExact, Exact
<1>5. FallbackMetrics(Kept) = Snapshot(n, n, 0, t)
  BY <1>2, <1>4 DEF FallbackMetrics
<1>6. GetMetrics = Snapshot(n, requests.successful, requests.failed, t)
  BY DEF GetMetrics
<1>7. ASSUME DOMAIN Kept # {}
      PROVE  LET average == t \div n
                 told == GetMetrics.average
             IN /\ Min(ds) <= average /\ average <= Max(ds) /\ average = AverageDuration(Kept)
                /\ Min(ds) * Precision <= told /\ told <= Max(ds) * Precision
                /\ 2 * (told * n - t * Precision) \in -n + 1 .. n
  <2>1. n # 0
    <3>1. Valid(samples) # {} /\ IsFiniteSet(Valid(samples))
      BY <1>7, KeptIsCounted, SpentWeighs DEF CountersExact, Exact
    <3> QED
      BY <3>1, FS_EmptySet DEF CountersExact, Exact
  <2>2. GetMetrics.average = (2 * Precision * t + n) \div (2 * n)
    BY <1>6, <2>1 DEF Snapshot
  <2>3. AverageDuration(Kept) = t \div n
    BY <1>2, <1>4, <2>1 DEF AverageDuration
  <2>4. Min(ds) \in Int /\ Max(ds) \in Int /\ Min(ds) * n <= t /\ t <= Max(ds) * n
    BY <1>7, Extremes
  <2> DEFINE lo == Min(ds)
             hi == Max(ds)
  <2>5. n \in Nat \ {0} /\ Precision \in Nat \ {0}
    BY <1>1, <2>1, ProfilingAssumption
  <2>6. LET told == (2 * Precision * t + n) \div (2 * n)
        IN /\ lo <= t \div n /\ t \div n <= hi
           /\ lo * Precision <= told /\ told <= hi * Precision
           /\ 2 * (told * n - t * Precision) \in -n + 1 .. n
    <3> HIDE DEF lo, hi, n, t
    <3> QED
      BY <1>1, <2>4, <2>5, Mean DEF lo, hi
  <2> QED
    BY <2>2, <2>3, <2>6
<1>8. \A field \in {"total", "average"} : GetMetrics[field] = FallbackMetrics(Kept)[field]
  BY <1>5, <1>6 DEF Snapshot
<1>9. GetMetrics.failed = 0 <=> GetMetrics = FallbackMetrics(Kept)
  <2> DEFINE average == IF n = 0 THEN 0 ELSE (2 * Precision * t + n) \div (2 * n)
  <2>1. GetMetrics = [total |-> n, successful |-> requests.successful, failed |-> requests.failed, average |-> average]
    BY <1>6 DEF Snapshot
  <2>2. FallbackMetrics(Kept) = [total |-> n, successful |-> n, failed |-> 0, average |-> average]
    BY <1>5 DEF Snapshot
  <2> HIDE DEF average
  <2> QED
    BY <1>1, <2>1, <2>2
<1>10. requests.total = requests.successful + requests.failed
  BY <1>1
<1> QED
  BY <1>2, <1>3, <1>7, <1>8, <1>9, <1>10 DEF RequestsAddUp

\* In this order the values do not fall.
Rising(order, v, n) == \A i, j \in 1 .. n : i < j => v[order[i]] <= v[order[j]]

\* A finite set can be put in the order of its values.
LEMMA CanBeSorted ==
  ASSUME NEW S, IsFiniteSet(S), NEW v \in [S -> Int]
  PROVE  \E order \in Bijection(1 .. Cardinality(S), S) : Rising(order, v, Cardinality(S))
<1> DEFINE Good(s) == \E order \in Bijection(1 .. Cardinality(s), s) : Rising(order, v, Cardinality(s))
           Bad == {s \in SUBSET S : ~ Good(s)}
           R == StrictSubsetOrdering(S)
<1> SUFFICES ASSUME Bad # {} PROVE FALSE
  OBVIOUS
<1>1. Bad \subseteq FiniteSubsetsOf(S)
  BY FS_Subset DEF FiniteSubsetsOf
<1>2. PICK s \in Bad : \A r \in Bad : ~ (<<r, s>> \in R)
  BY <1>1, FS_StrictSubsetOrderingWellFounded, WFMin
<1>3. s \subseteq S /\ IsFiniteSet(s)
  BY FS_Subset
<1>4. CASE s = {}
  <2>1. Cardinality(s) = 0
    BY <1>4, FS_EmptySet
  <2>2. [i \in {} |-> i] \in Bijection(1 .. 0, {})
    BY DEF Bijection, Injection, Surjection, IsInjective
  <2>3. Rising([i \in {} |-> i], v, 0)
    BY DEF Rising
  <2> QED
    BY <1>2, <1>4, <2>1, <2>2, <2>3
<1>5. CASE s # {}
  <2>1. PICK x \in s : \A y \in s : v[y] <= v[x]
    <3> DEFINE w == [y \in s |-> v[y]]
    <3>1. w \in [s -> Int]
      BY <1>3
    <3>2. \E x \in s : \A y \in s : w[y] <= w[x]
      <4> HIDE DEF w
      <4> QED
        BY <1>3, <1>5, <3>1, HasGreatest
    <3> QED
      BY <3>2
  <2> DEFINE r == s \ {x}
             m == Cardinality(r)
  <2>2. r \in SUBSET S /\ <<r, s>> \in R
    BY <1>3, <2>1 DEF StrictSubsetOrdering
  <2>3. PICK order \in Bijection(1 .. m, r) : Rising(order, v, m)
    BY <1>2, <2>2
  <2>4. m \in Nat /\ Cardinality(s) = m + 1
    <3>1. IsFiniteSet(r) /\ m = Cardinality(s) - 1
      BY <1>3, <2>1, FS_RemoveElement
    <3>2. m \in Nat /\ Cardinality(s) \in Nat
      BY <1>3, <3>1, FS_CardinalityType
    <3> QED
      BY <3>1, <3>2
  <2> HIDE DEF m
  <2> DEFINE more == [i \in 1 .. m + 1 |-> IF i = m + 1 THEN x ELSE order[i]]
  <2>5. /\ order \in [1 .. m -> r]
        /\ \A i, j \in 1 .. m : order[i] = order[j] => i = j
        /\ \A y \in r : \E i \in 1 .. m : order[i] = y
    BY <2>3 DEF Bijection, Injection, Surjection, IsInjective
  <2>6. \A i \in 1 .. m + 1 : (i = m + 1 /\ more[i] = x) \/ (i \in 1 .. m /\ more[i] = order[i] /\ more[i] \in r)
    BY <2>4, <2>5
  <2>7. more \in [1 .. m + 1 -> s]
    BY <2>6
  <2>8. \A i, j \in 1 .. m + 1 : more[i] = more[j] => i = j
    <3> HIDE DEF more
    <3> QED
      BY <2>5, <2>6
  <2>9. \A y \in s : \E i \in 1 .. m + 1 : more[i] = y
    <3> TAKE y \in s
    <3>1. CASE y = x
      <4>1. m + 1 \in 1 .. m + 1 /\ more[m + 1] = x
        BY <2>4
      <4> QED
        BY <3>1, <4>1
    <3>2. CASE y # x
      <4>1. PICK i \in 1 .. m : order[i] = y
        BY <2>5, <3>2
      <4>2. i \in 1 .. m + 1 /\ more[i] = y
        BY <2>4, <4>1
      <4> QED
        BY <4>2
    <3> QED
      BY <3>1, <3>2
  <2>10. Rising(more, v, m + 1)
    <3> SUFFICES ASSUME NEW i \in 1 .. m + 1, NEW j \in 1 .. m + 1, i < j PROVE v[more[i]] <= v[more[j]]
      BY DEF Rising
    <3>1. i \in 1 .. m /\ more[i] = order[i] /\ more[i] \in s
      BY <2>4, <2>6, <2>7
    <3>2. CASE j = m + 1
      BY <2>1, <2>6, <3>1, <3>2, <2>4
    <3>3. CASE j \in 1 .. m
      BY <2>3, <2>6, <3>1, <3>3, <2>4 DEF Rising
    <3> QED
      BY <2>6, <3>2, <3>3
  <2> HIDE DEF more
  <2>11. more \in Bijection(1 .. m + 1, s)
    BY <2>7, <2>8, <2>9 DEF Bijection, Injection, Surjection, IsInjective
  <2> QED
    BY <1>2, <2>4, <2>10, <2>11
<1> QED
  BY <1>4, <1>5

\* The members whose values are no greater than d.
UpTo(d, v, S) == {k \in S : v[k] <= d}

\* The i-th in the order has at least i values that are no greater, and a value below it
\* fewer than i.
LEMMA Rank ==
  ASSUME NEW S, IsFiniteSet(S), NEW v \in [S -> Int], NEW n, n = Cardinality(S),
         NEW order \in Bijection(1 .. n, S), Rising(order, v, n), NEW i \in 1 .. n
  PROVE  /\ order[i] \in S
         /\ i <= Cardinality(UpTo(v[order[i]], v, S))
         /\ \A d \in Int : d < v[order[i]] => Cardinality(UpTo(d, v, S)) < i
<1> DEFINE First(m) == {order[j] : j \in 1 .. m}
<1>1. /\ order \in [1 .. n -> S]
      /\ \A j, l \in 1 .. n : order[j] = order[l] => j = l
      /\ \A k \in S : \E j \in 1 .. n : order[j] = k
  BY DEF Bijection, Injection, Surjection, IsInjective
<1>2. n \in Nat
  BY FS_CardinalityType
<1>3. ASSUME NEW m \in 0 .. n
      PROVE  IsFiniteSet(First(m)) /\ Cardinality(First(m)) = m
  <2> DEFINE g == [j \in 1 .. m |-> order[j]]
  <2>1. g \in Bijection(1 .. m, First(m))
    <3>1. \A j \in 1 .. m : j \in 1 .. n /\ g[j] = order[j] /\ order[j] \in First(m)
      BY <1>2
    <3>2. g \in [1 .. m -> First(m)]
      BY <3>1
    <3>3. \A j, l \in 1 .. m : g[j] = g[l] => j = l
      BY <1>1, <3>1
    <3>4. \A k \in First(m) : \E j \in 1 .. m : g[j] = k
      BY <3>1
    <3> HIDE DEF g, First
    <3> QED
      BY <3>2, <3>3, <3>4 DEF Bijection, Injection, Surjection, IsInjective
  <2>2. IsFiniteSet(1 .. m) /\ Cardinality(1 .. m) = m
    <3>1. \A l \in Nat : IsFiniteSet(1 .. l) /\ Cardinality(1 .. l) = l
      BY FS_Interval
    <3>2. m \in Nat
      BY <1>2
    <3> QED
      BY <3>1, <3>2
  <2> HIDE DEF g, First
  <2> QED
    BY <2>1, <2>2, FS_Bijection DEF ExistsBijection
<1>4. \A d : IsFiniteSet(UpTo(d, v, S)) /\ Cardinality(UpTo(d, v, S)) \in Nat
  BY FS_Subset, FS_CardinalityType DEF UpTo
<1>5. \A k \in S : v[k] \in Int
  OBVIOUS
<1>6. First(i) \subseteq UpTo(v[order[i]], v, S)
  <2> SUFFICES ASSUME NEW j \in 1 .. i PROVE order[j] \in S /\ v[order[j]] <= v[order[i]]
    BY DEF UpTo
  <2>1. j \in 1 .. n /\ order[j] \in S /\ order[i] \in S
    BY <1>1, <1>2
  <2>2. CASE j = i
    BY <1>5, <2>1, <2>2
  <2>3. CASE j < i
    BY <2>1, <2>3 DEF Rising
  <2> QED
    BY <1>2, <2>1, <2>2, <2>3
<1>7. ASSUME NEW d \in Int, d < v[order[i]] PROVE UpTo(d, v, S) \subseteq First(i - 1)
  <2> SUFFICES ASSUME NEW k \in S, v[k] <= d PROVE k \in First(i - 1)
    BY DEF UpTo
  <2>1. PICK j \in 1 .. n : order[j] = k
    BY <1>1
  <2>2. ~ (i < j) /\ j # i
    <3>1. v[k] < v[order[i]] /\ order[i] \in S
      BY <1>1, <1>5, <1>7
    <3>2. i < j => v[order[i]] <= v[k]
      BY <2>1 DEF Rising
    <3> QED
      BY <1>5, <2>1, <3>1, <3>2
  <2>3. j \in 1 .. i - 1
    BY <1>2, <2>1, <2>2
  <2> QED
    BY <2>1, <2>3
<1>8. i \in 0 .. n /\ i - 1 \in 0 .. n
  BY <1>2
<1> HIDE DEF First
<1>9. i <= Cardinality(UpTo(v[order[i]], v, S))
  BY <1>3, <1>4, <1>6, <1>8, FS_Subset
<1>10. ASSUME NEW d \in Int, d < v[order[i]] PROVE Cardinality(UpTo(d, v, S)) < i
  <2>1. Cardinality(UpTo(d, v, S)) <= Cardinality(First(i - 1))
    BY <1>3, <1>7, <1>8, <1>10, FS_Subset
  <2> QED
    BY <1>2, <1>3, <1>4, <1>8, <2>1
<1> QED
  BY <1>1, <1>9, <1>10

\* The percentile is the least duration that has the share of those that are no longer.
LEMMA PercentileIsRank ==
  ASSUME NEW ms \in Seq(Metric), ms # <<>>, NEW p \in 0 .. 100
  PROVE  LET ds == {ms[k].duration : k \in DOMAIN ms}
             share(d) == 100 * Cardinality({k \in DOMAIN ms : ms[k].duration <= d})
         IN Percentile(ms, p) = Min({d \in ds : share(d) >= p * Len(ms)})
<1> DEFINE S == DOMAIN ms
           n == Len(ms)
           v == [k \in S |-> ms[k].duration]
           ds == {v[k] : k \in S}
           c == CeilDiv(p * n, 100)
           i == IF c = 0 THEN 1 ELSE c
           order == Sorted(ms)
           x == v[order[i]]
           Enough == {d \in ds : 100 * Cardinality(UpTo(d, v, S)) >= p * n}
<1>1. n \in Nat \ {0} /\ S = 1 .. n /\ IsFiniteSet(S) /\ Cardinality(S) = n
  <2>1. n \in Nat \ {0} /\ S = 1 .. n
    BY LenProperties, EmptySeq
  <2>2. \A m \in Nat : IsFiniteSet(1 .. m) /\ Cardinality(1 .. m) = m
    BY FS_Interval
  <2> QED
    BY <2>1, <2>2
<1>2. v \in [S -> Int]
  <2> SUFFICES ASSUME NEW k \in S PROVE ms[k].duration \in Int
    OBVIOUS
  <2>1. ms[k] \in Metric
    BY <1>1, ElementOfSeq
  <2> QED
    BY <2>1, ProfilingAssumption DEF Metric
<1>3. c \in 0 .. n /\ 100 * c >= p * n /\ 100 * (c - 1) < p * n /\ p * n \in Nat
  <2>1. p * n \in Nat /\ p * n <= 100 * n
    BY <1>1
  <2> DEFINE y == p * n
  <2> HIDE DEF n, y
  <2> QED
    BY <1>1, <2>1 DEF CeilDiv, y
<1>4. i \in 1 .. n
  BY <1>1, <1>3
<1>5. order \in Bijection(1 .. n, S) /\ Rising(order, v, n)
  <2>1. \E o \in Bijection(1 .. n, S) : Rising(o, v, n)
    <3> HIDE DEF v, S, n
    <3> QED
      BY <1>1, <1>2, CanBeSorted
  <2>2. \A o \in Bijection(1 .. n, S) :
          Rising(o, v, n) <=> \A j, l \in 1 .. n : j < l => ms[o[j]].duration <= ms[o[l]].duration
    <3> TAKE o \in Bijection(1 .. n, S)
    <3>1. \A j \in 1 .. n : o[j] \in S
      BY DEF Bijection, Injection
    <3> QED
      BY <3>1 DEF Rising
  <2>3. order = CHOOSE o \in Bijection(1 .. n, S) :
                  \A j, l \in 1 .. n : j < l => ms[o[j]].duration <= ms[o[l]].duration
    BY <1>1 DEF Sorted, Number
  <2> HIDE DEF order, v, S, n
  <2> QED
    BY <2>1, <2>2, <2>3
<1>6. /\ order[i] \in S
      /\ i <= Cardinality(UpTo(x, v, S))
      /\ \A d \in Int : d < x => Cardinality(UpTo(d, v, S)) < i
  <2> HIDE DEF order, i, v, S, n
  <2> QED
    BY <1>1, <1>2, <1>4, <1>5, Rank
<1>7. Percentile(ms, p) = x
  <2> DEFINE bounded == IF c - 1 < 0 THEN 0 ELSE IF c - 1 >= n THEN n - 1 ELSE c - 1
  <2>1. Number(ms) = n
    BY <1>1 DEF Number
  <2>2. 1 + bounded = i
    BY <1>1, <1>3
  <2>3. Percentile(ms, p) = ms[order[1 + bounded]].duration
    <3> HIDE DEF order, n
    <3> QED
      BY <1>1, <2>1 DEF Percentile, order
  <2> HIDE DEF bounded, i, order
  <2> QED
    BY <1>6, <2>2, <2>3
<1> HIDE DEF i, order
<1>8. \A d : IsFiniteSet(UpTo(d, v, S)) /\ Cardinality(UpTo(d, v, S)) \in Nat
  BY <1>1, FS_Subset, FS_CardinalityType DEF UpTo
<1>9. \A d \in ds : d \in Int /\ Cardinality(UpTo(d, v, S)) >= 1
  <2> SUFFICES ASSUME NEW k \in S PROVE v[k] \in Int /\ Cardinality(UpTo(v[k], v, S)) >= 1
    OBVIOUS
  <2>1. v[k] \in Int /\ {k} \subseteq UpTo(v[k], v, S)
    BY <1>2 DEF UpTo
  <2>2. Cardinality({k}) = 1
    BY FS_Singleton
  <2> HIDE DEF v
  <2> QED
    BY <1>8, <2>1, <2>2, FS_Subset
<1> HIDE DEF v, c, n
<1>10. x \in Enough
  <2>1. x \in ds
    BY <1>6
  <2>2. 100 * Cardinality(UpTo(x, v, S)) >= p * n
    <3>1. i >= c
      BY <1>3 DEF i
    <3> QED
      BY <1>3, <1>4, <1>6, <1>8, <3>1, <1>1
  <2> QED
    BY <2>1, <2>2
<1>11. \A d \in Enough : x <= d
  <2> SUFFICES ASSUME NEW d \in Enough, d < x PROVE FALSE
    BY <1>9, <1>10
  <2>1. d \in Int /\ Cardinality(UpTo(d, v, S)) >= 1 /\ Cardinality(UpTo(d, v, S)) < i
    BY <1>6, <1>9
  <2>2. c # 0 /\ i = c
    BY <1>3, <1>8, <2>1 DEF i
  <2> QED
    BY <1>3, <1>8, <2>1, <2>2
<1>12. Min(Enough) = x
  <2>1. \A d \in Enough : d \in Int
    BY <1>9
  <2> HIDE DEF Enough
  <2> QED
    BY <1>10, <1>11, <2>1 DEF Min
<1> QED
  BY <1>7, <1>12 DEF UpTo, v, n

\* Each metric is in one group, that of its tag.
LEMMA OneGroup ==
  ASSUME NEW ms, NEW k \in DOMAIN ms
  PROVE  LET groups == GroupByTags(ms)
         IN /\ {key \in DOMAIN groups : k \in DOMAIN groups[key]} = {GroupKey(ms[k])}
            /\ groups[GroupKey(ms[k])][k] = ms[k]
<1> DEFINE groups == GroupByTags(ms)
           keys == {GroupKey(ms[j]) : j \in DOMAIN ms}
<1>1. DOMAIN groups = keys /\ \A key \in keys : groups[key] = Restrict(ms, {j \in DOMAIN ms : GroupKey(ms[j]) = key})
  BY DEF GroupByTags
<1> HIDE DEF groups
<1>2. GroupKey(ms[k]) \in keys
  OBVIOUS
<1>3. \A key \in keys : k \in DOMAIN groups[key] <=> key = GroupKey(ms[k])
  <2> TAKE key \in keys
  <2>1. groups[key] = [j \in {j \in DOMAIN ms : GroupKey(ms[j]) = key} |-> ms[j]]
    BY <1>1 DEF Restrict
  <2>2. DOMAIN groups[key] = {j \in DOMAIN ms : GroupKey(ms[j]) = key}
    BY <2>1
  <2> QED
    BY <2>2
<1>4. groups[GroupKey(ms[k])][k] = ms[k]
  BY <1>1, <1>2 DEF Restrict
<1>5. {key \in DOMAIN groups : k \in DOMAIN groups[key]} = {GroupKey(ms[k])}
  BY <1>1, <1>2, <1>3
<1> QED
  BY <1>4, <1>5 DEF groups

\* The percentiles and groups of the requests that were recorded.
LEMMA SamplesRanked == ASSUME samples \in Seq(Metric) PROVE PercentilesAreRanks
<1> SUFFICES ASSUME samples # <<>> PROVE PercentilesAreRanks
  BY DEF PercentilesAreRanks
<1>1. ASSUME NEW p \in {0, 1, 50, 51, 95, 100}
      PROVE  LET ds == {samples[k].duration : k \in DOMAIN samples}
                 share(d) == 100 * Cardinality({k \in DOMAIN samples : samples[k].duration <= d})
             IN Percentile(samples, p) = Min({d \in ds : share(d) >= p * Len(samples)})
  <2>1. p \in 0 .. 100
    OBVIOUS
  <2> QED
    BY <2>1, PercentileIsRank
<1>2. LET groups == GroupByTags(samples)
      IN \A k \in DOMAIN samples :
           /\ {key \in DOMAIN groups : k \in DOMAIN groups[key]} = {GroupKey(samples[k])}
           /\ groups[GroupKey(samples[k])][k] = samples[k]
  BY OneGroup
<1> QED
  BY <1>1, <1>2 DEF PercentilesAreRanks

\* 2 ^ n is the number of the parts of n members, so that it grows.
LEMMA PowersGrow ==
  ASSUME NEW n \in Nat
  PROVE  2 ^ n \in Nat \ {0} /\ 2 ^ (n + 1) \in Nat /\ 2 ^ n <= 2 ^ (n + 1)
<1> DEFINE parts(m) == SUBSET (1 .. m)
<1>1. \A m \in Nat : IsFiniteSet(parts(m)) /\ Cardinality(parts(m)) = 2 ^ m
  <2> TAKE m \in Nat
  <2>1. IsFiniteSet(1 .. m) /\ Cardinality(1 .. m) = m
    BY FS_Interval
  <2> QED
    BY <2>1, FS_SUBSET
<1>2. \A m \in Nat : Cardinality(parts(m)) \in Nat \ {0}
  <2> TAKE m \in Nat
  <2>1. parts(m) # {}
    OBVIOUS
  <2> HIDE DEF parts
  <2> QED
    BY <1>1, <2>1, FS_CardinalityType, FS_EmptySet
<1>3. parts(n) \subseteq parts(n + 1)
  <2>1. 1 .. n \subseteq 1 .. n + 1
    OBVIOUS
  <2> QED
    BY <2>1
<1>4. n + 1 \in Nat
  OBVIOUS
<1> HIDE DEF parts
<1>5. Cardinality(parts(n)) <= Cardinality(parts(n + 1))
  BY <1>1, <1>3, <1>4, FS_Subset
<1> QED
  BY <1>1, <1>2, <1>4, <1>5

\* A delay before the jitter is a positive number below the maximum that does not fall.
LEMMA DelayGrows ==
  ASSUME NEW n \in Nat
  PROVE  Delay(n) \in 1 .. MaxDelay /\ Delay(n + 1) \in 1 .. MaxDelay /\ Delay(n) <= Delay(n + 1)
<1> DEFINE a == 2 ^ n
           b == 2 ^ (n + 1)
<1>1. a \in Nat \ {0} /\ b \in Nat /\ a <= b
  BY PowersGrow
<1>2. Delay(n) = (IF BaseDelay * a < MaxDelay THEN BaseDelay * a ELSE MaxDelay)
      /\ Delay(n + 1) = (IF BaseDelay * b < MaxDelay THEN BaseDelay * b ELSE MaxDelay)
  BY DEF Delay
<1>3. BaseDelay \in Nat \ {0} /\ MaxDelay \in Nat \ {0}
  BY ProfilingAssumption
<1> HIDE DEF a, b
<1>4. BaseDelay * a <= BaseDelay * b /\ BaseDelay * 1 <= BaseDelay * a
  BY <1>1, <1>3, TimesOrder
<1>5. BaseDelay * a \in Nat \ {0} /\ BaseDelay * b \in Nat \ {0}
  BY <1>1, <1>3, <1>4
<1> QED
  BY <1>2, <1>3, <1>4, <1>5

\* Each delay is one that GetRetryDelay gives for its error, and only the last may be none.
Waits ==
  /\ waited \in Seq([causes : SUBSET Causes, delay : Nat])
  /\ \A k \in 1 .. Len(waited) :
       /\ waited[k].delay \in GetRetryDelay(waited[k].causes, k - 1)
       /\ k < Len(waited) => waited[k].delay # 0

\* A delay is zero after an error that no retry cures; otherwise it is that of the attempt
\* and less than the jitter above it.
LEMMA RetryDelay ==
  ASSUME NEW causes \in SUBSET Causes, NEW n \in Nat, NEW d \in GetRetryDelay(causes, n)
  PROVE  /\ d \in Nat /\ d < MaxDelay + Jitter
         /\ d = 0 <=> causes \subseteq {"401", "403"}
         /\ d # 0 => Delay(n) <= d /\ d < Delay(n) + Jitter
<1>1. Delay(n) \in 1 .. MaxDelay /\ MaxDelay \in Nat \ {0} /\ Jitter \in Nat \ {0}
  BY DelayGrows, ProfilingAssumption
<1>2. IsRecoverableError(causes) <=> ~ (causes \subseteq {"401", "403"})
  BY ProfilingAssumption DEF IsRecoverableError
<1>3. CASE IsRecoverableError(causes)
  <2>1. PICK j \in 0 .. Jitter - 1 : d = Delay(n) + j
    BY <1>3 DEF GetRetryDelay
  <2> QED
    BY <1>1, <1>2, <1>3, <2>1
<1>4. CASE ~ IsRecoverableError(causes)
  <2>1. d = 0
    BY <1>4 DEF GetRetryDelay
  <2> QED
    BY <1>1, <1>2, <1>4, <2>1
<1> QED
  BY <1>3, <1>4

\* One delay more.
LEMMA RetryWaits ==
  ASSUME Waits, NEW causes \in SUBSET Causes, Retry(causes)
  PROVE  Waits'
<1> DEFINE W == [causes : SUBSET Causes, delay : Nat]
           n == Len(waited)
<1>1. n \in Nat /\ waited \in Seq(W)
  BY LenProperties DEF Waits
<1>2. PICK d \in GetRetryDelay(causes, n) : waited' = Append(waited, [causes |-> causes, delay |-> d])
  BY DEF Retry
<1> DEFINE e == [causes |-> causes, delay |-> d]
<1>3. e \in W /\ e.causes = causes /\ e.delay = d
  BY <1>1, <1>2, RetryDelay
<1> HIDE DEF W, e
<1>4. /\ waited' \in Seq(W) /\ Len(waited') = n + 1 /\ waited'[n + 1] = e
      /\ \A k \in 1 .. n : waited'[k] = waited[k]
  BY <1>1, <1>2, <1>3, AppendProperties DEF e
<1>5. n # 0 => waited[n].delay # 0
  <2>1. n # 0 => waited # <<>>
    OBVIOUS
  <2> QED
    BY <2>1 DEF Retry, Last
<1> HIDE DEF n
<1>6. ASSUME NEW k \in 1 .. n + 1
      PROVE  /\ waited'[k].delay \in GetRetryDelay(waited'[k].causes, k - 1)
             /\ k < n + 1 => waited'[k].delay # 0
  <2>1. CASE k = n + 1
    BY <1>1, <1>2, <1>3, <1>4, <2>1
  <2>2. CASE k \in 1 .. n
    <3>1. waited'[k] = waited[k]
      BY <1>4, <2>2
    <3>2. waited[k].delay \in GetRetryDelay(waited[k].causes, k - 1) /\ (k < n => waited[k].delay # 0)
      BY <2>2 DEF Waits, n
    <3>3. k = n \/ k < n
      BY <1>1, <2>2
    <3> QED
      BY <1>1, <1>5, <2>2, <3>1, <3>2, <3>3
  <2> QED
    BY <1>1, <2>1, <2>2
<1> QED
  BY <1>4, <1>6 DEF Waits, W

\* Such delays grow.
LEMMA WaitsGrow == ASSUME Waits PROVE DelaysGrow
<1>1. Len(waited) \in Nat /\ DOMAIN waited = 1 .. Len(waited)
      /\ \A k \in 1 .. Len(waited) : waited[k].causes \in SUBSET Causes
  <2>1. waited \in Seq([causes : SUBSET Causes, delay : Nat])
    BY DEF Waits
  <2>2. Len(waited) \in Nat /\ DOMAIN waited = 1 .. Len(waited)
        /\ \A k \in 1 .. Len(waited) : waited[k] \in [causes : SUBSET Causes, delay : Nat]
    BY <2>1, LenProperties, ElementOfSeq
  <2> QED
    BY <2>2
<1>2. ASSUME NEW k \in 1 .. Len(waited)
      PROVE  /\ waited[k].delay \in Nat /\ waited[k].delay < MaxDelay + Jitter
             /\ waited[k].delay = 0 <=> waited[k].causes \subseteq {"401", "403"}
             /\ waited[k].delay # 0 => Delay(k - 1) <= waited[k].delay /\ waited[k].delay < Delay(k - 1) + Jitter
  <2>1. waited[k].causes \in SUBSET Causes /\ k - 1 \in Nat
        /\ waited[k].delay \in GetRetryDelay(waited[k].causes, k - 1)
    BY <1>1 DEF Waits
  <2> QED
    BY <2>1, RetryDelay
<1>3. ASSUME NEW k \in 1 .. Len(waited), k > 1, waited[k].delay # 0
      PROVE  waited[k].delay > waited[k - 1].delay - Jitter
  <2>1. k - 1 \in 1 .. Len(waited) /\ k - 1 < Len(waited) /\ k - 2 \in Nat
    BY <1>1, <1>3
  <2>2. waited[k - 1].delay # 0
    BY <2>1 DEF Waits
  <2>3. /\ waited[k].delay \in Nat /\ Delay(k - 1) <= waited[k].delay
    BY <1>2, <1>3
  <2>4. waited[k - 1].delay \in Nat /\ waited[k - 1].delay < Delay(k - 2) + Jitter
    <3>1. (k - 1) - 1 = k - 2
      BY <1>1
    <3> QED
      BY <1>2, <2>1, <2>2, <3>1
  <2>5. Delay(k - 2) \in 1 .. MaxDelay /\ Delay(k - 1) \in 1 .. MaxDelay /\ Delay(k - 2) <= Delay(k - 1)
    <3>1. (k - 2) + 1 = k - 1
      BY <1>1
    <3> QED
      BY <2>1, <3>1, DelayGrows
  <2>6. MaxDelay \in Nat /\ Jitter \in Nat
    BY ProfilingAssumption
  <2> QED
    BY <2>3, <2>4, <2>5, <2>6
<1> QED
  BY <1>1, <1>2, <1>3 DEF DelaysGrow

\* A caller waits for such delays only.
LEMMA WaitsInvariance == ProfilingSpec => []Waits
<1>1. ProfilingInit => Waits
  <2> SUFFICES ASSUME waited = <<>> PROVE Waits
    BY DEF ProfilingInit
  <2>1. waited \in Seq([causes : SUBSET Causes, delay : Nat]) /\ Len(waited) = 0
    OBVIOUS
  <2> QED
    BY <2>1 DEF Waits
<1>2. ASSUME Waits, [ProfilingNext]_profilingVars PROVE Waits'
  <2>1. CASE UNCHANGED waited
    BY <1>2, <2>1 DEF Waits
  <2>2. ASSUME NEW causes \in SUBSET Causes, Retry(causes) PROVE Waits'
    BY <1>2, <2>2, RetryWaits
  <2> QED
    BY <1>2, <2>1, <2>2 DEF ProfilingNext, Counting, Retrying, profilingVars
<1> QED
  BY <1>1, <1>2, PTL DEF ProfilingSpec

\* For any requests, statuses, durations, backward clocks, errors and delays, what is told
\* of the requests adds up, the percentiles are ranks of the durations, and the delays
\* before a caller tries again grow up to the maximum.
THEOREM FiguresCorrect == ProfilingSpec => []FiguresAreRight
<1>1. CountersExact => RequestsAddUp
  BY ExactAddsUp
<1>2. CountersExact => PercentilesAreRanks
  BY SamplesRanked DEF CountersExact, Exact
<1>3. Waits => DelaysGrow
  BY WaitsGrow
<1>4. CountersExact /\ Waits => FiguresAreRight
  BY <1>1, <1>2, <1>3 DEF FiguresAreRight
<1> QED
  BY <1>4, CountersInvariance, WaitsInvariance, PTL
=============================================================================
