-------------------------- MODULE PyroscopeService --------------------------
(***************************************************************************)
(* PyroscopeService of nestjs-pyroscope with its callers: TrackFunction    *)
(* and the profile decorators, ProfilingInterceptor, and application code. *)
(*                                                                         *)
(* The client is imported and started in the background, so it may become  *)
(* ready at any time after onModuleInit, also after onModuleDestroy.       *)
(***************************************************************************)
EXTENDS Naturals, Sequences, FiniteSets

CONSTANTS
  Contexts,      \* profile contexts, each used for one profile
  Functions,     \* those of TrackFunction, @Profile, @ProfileMethod, @ProfileAsync
  Requests,      \* those of ProfilingInterceptor; the others belong to the application
  MaxActive,     \* MAX_ACTIVE_PROFILES
  MaxHistory,    \* MAX_METRICS_HISTORY
  StaleTimeout,  \* STALE_PROFILE_TIMEOUT_MS
  Threshold,     \* degradedActiveProfilesThreshold
  MaxTime        \* bound on the clock

ASSUME ContextsAssumption ==
  /\ IsFiniteSet(Contexts)
  /\ Functions \subseteq Contexts
  /\ Requests \subseteq Contexts \ Functions
ASSUME LimitsAssumption ==
  /\ MaxActive \in Nat /\ StaleTimeout \in Nat /\ MaxTime \in Nat
  /\ MaxHistory \in Nat \ {0}

VARIABLES
  now,            \* Date.now()
  enabled,        \* Config.enabled
  phase,          \* initialisation: "new" | "importing" | "ready" | "failed"
  client,         \* the client: "none" | "running" | "stopped" | "unknown"
  shutdown,       \* onModuleDestroy: "up" | "stopping" | "down"
  activeProfiles, \* ActiveProfiles: the contexts in the map
  metrics,        \* Metrics: the contexts whose metrics are kept, oldest first
  pc,             \* pc[c]: "new" | "running" | "ended"
  profileId,      \* the contexts that StartProfiling gave an identifier
  startTime,      \* startTime[c]
  lastStart,      \* history: when a profile was last started
  late,           \* history: the client became ready after onModuleDestroy
  stopped         \* history: the contexts in the order their metrics were recorded

lifeVars    == <<enabled, phase, client, shutdown, late>>
profileVars == <<activeProfiles, metrics, profileId, startTime, lastStart, stopped>>
vars == <<now, lifeVars, profileVars, pc>>

IsEnabled == enabled /\ phase = "ready"

Init ==
  /\ now = 0
  /\ enabled \in BOOLEAN
  /\ phase = "new"
  /\ client = "none"
  /\ shutdown = "up"
  /\ activeProfiles = {}
  /\ metrics = <<>>
  /\ pc = [c \in Contexts |-> "new"]
  /\ profileId = {}
  /\ startTime = [c \in Contexts |-> 0]
  /\ lastStart = 0
  /\ late = FALSE
  /\ stopped = <<>>

-----------------------------------------------------------------------------
(* Life cycle                                                              *)

OnModuleInit ==
  /\ phase = "new"
  /\ enabled
  /\ phase' = "importing"
  /\ UNCHANGED <<now, enabled, client, shutdown, late, profileVars, pc>>

\* The import ends: the client starts, or the failure is logged.
InitializePyroscope ==
  /\ phase = "importing"
  /\ \/ /\ phase' = "ready"
        /\ client' = "running"
        /\ late' = (shutdown # "up")
     \/ /\ phase' = "failed"
        /\ UNCHANGED <<client, late>>
  /\ UNCHANGED <<now, enabled, shutdown, profileVars, pc>>

\* Mutant of OnModuleDestroy: the client is forgotten.
OnModuleDestroyForgets ==
  /\ shutdown = "up"
  /\ phase # "new" \/ ~ enabled
  /\ activeProfiles' = {}
  /\ shutdown' = "down"
  /\ UNCHANGED <<now, enabled, phase, client, late, metrics, profileId, startTime, lastStart,
                 stopped, pc>>

OnModuleDestroy ==
  /\ shutdown = "up"
  /\ phase # "new" \/ ~ enabled
  /\ activeProfiles' = {}
  /\ shutdown' = IF client = "running" THEN "stopping" ELSE "down"
  /\ UNCHANGED <<now, enabled, phase, client, late, metrics, profileId, startTime, lastStart,
                 stopped, pc>>

\* stop() settles; its failure is logged and leaves the client in an unknown state.
StopSettles ==
  /\ shutdown = "stopping"
  /\ shutdown' = "down"
  /\ client' \in {"stopped", "unknown"}
  /\ UNCHANGED <<now, enabled, phase, late, profileVars, pc>>

-----------------------------------------------------------------------------
(* Profiles                                                                *)

\* Mutant of Stale: a profile as old as the timeout is taken for older.
StaleAtTimeout(c) == now - startTime'[c] >= StaleTimeout

Stale(c) == now - startTime'[c] > StaleTimeout

\* Mutant of Inserted: the size is tested before the profile is inserted.
InsertedAfterTest(c) ==
  LET kept == IF Cardinality(activeProfiles) > MaxActive
              THEN {d \in activeProfiles : ~ Stale(d)} ELSE activeProfiles
  IN  kept \cup {c}

\* The map with c; if that is too large, without the stale profiles.
Inserted(c) ==
  LET all == activeProfiles \cup {c}
  IN  IF Cardinality(all) > MaxActive THEN {d \in all : ~ Stale(d)} ELSE all

StartProfiling(c) ==
  IF IsEnabled
  THEN /\ startTime' = [startTime EXCEPT ![c] = now]
       /\ profileId' = profileId \cup {c}
       /\ activeProfiles' = Inserted(c)
       /\ lastStart' = now
       /\ UNCHANGED <<metrics, stopped>>
  ELSE UNCHANGED profileVars

\* The window with c; if that is too long, without its oldest entry.
Recorded(c) ==
  LET all == Append(metrics, c)
  IN  IF Len(all) > MaxHistory THEN Tail(all) ELSE all

\* Mutant of StopProfiling: the profile stays in the map.
StopProfilingKeeps(c) ==
  IF IsEnabled /\ c \in profileId /\ c \in activeProfiles
  THEN /\ metrics' = Recorded(c)
       /\ stopped' = Append(stopped, c)
       /\ UNCHANGED <<activeProfiles, profileId, startTime, lastStart>>
  ELSE UNCHANGED profileVars

StopProfiling(c) ==
  IF IsEnabled /\ c \in profileId /\ c \in activeProfiles
  THEN /\ activeProfiles' = activeProfiles \ {c}
       /\ metrics' = Recorded(c)
       /\ stopped' = Append(stopped, c)
       /\ UNCHANGED <<profileId, startTime, lastStart>>
  ELSE UNCHANGED profileVars

-----------------------------------------------------------------------------
(* Callers                                                                 *)

\* Every caller starts its profile before anything else.  Decorators and the interceptor
\* test IsEnabled themselves and then leave the service alone: that is the same, as
\* a profile that StartProfiling ignored has no identifier for StopProfiling.
Begin(c) ==
  /\ pc[c] = "new"
  /\ StartProfiling(c)
  /\ pc' = [pc EXCEPT ![c] = "running"]
  /\ UNCHANGED <<now, lifeVars>>

\* The function returns, throws, or its promise settles: the profile is stopped.
EndFunction(c) ==
  /\ c \in Functions
  /\ pc[c] = "running"
  /\ StopProfiling(c)
  /\ pc' = [pc EXCEPT ![c] = "ended"]
  /\ UNCHANGED <<now, lifeVars>>

\* The handler's stream emits a value; it may emit more.
Emit(c) ==
  /\ c \in Requests
  /\ pc[c] = "running"
  /\ StopProfiling(c)
  /\ UNCHANGED <<now, lifeVars, pc>>

\* The stream fails, after any number of values.
EndRequest(c) ==
  /\ c \in Requests
  /\ pc[c] = "running"
  /\ StopProfiling(c)
  /\ pc' = [pc EXCEPT ![c] = "ended"]
  /\ UNCHANGED <<now, lifeVars>>

\* The stream completes or is unsubscribed from: nothing is called.
LeaveRequest(c) ==
  /\ c \in Requests
  /\ pc[c] = "running"
  /\ pc' = [pc EXCEPT ![c] = "ended"]
  /\ UNCHANGED <<now, lifeVars, profileVars>>

\* The application stops its profile, perhaps twice.
StopManually(c) ==
  /\ c \in Contexts \ (Functions \cup Requests)
  /\ pc[c] = "running"
  /\ StopProfiling(c)
  /\ UNCHANGED <<now, lifeVars, pc>>

Tick ==
  /\ now < MaxTime
  /\ now' = now + 1
  /\ UNCHANGED <<lifeVars, profileVars, pc>>

Next ==
  \/ OnModuleInit \/ InitializePyroscope \/ OnModuleDestroy \/ StopSettles
  \/ \E c \in Contexts :
       \/ Begin(c)
       \/ EndFunction(c)
       \/ Emit(c) \/ EndRequest(c) \/ LeaveRequest(c)
       \/ StopManually(c)
  \/ Tick

Spec == Init /\ [][Next]_vars

-----------------------------------------------------------------------------
(* Health.  A detail that is missing is false, or zero.                    *)

Health(status, initialized, active) ==
  [status |-> status, initialized |-> initialized, activeProfiles |-> active]

\* PyroscopeService.GetHealth
GetHealth ==
  CASE ~ enabled -> Health("healthy", FALSE, 0)
    [] enabled /\ phase # "ready" -> Health("unhealthy", FALSE, 0)
    [] IsEnabled -> Health("healthy", TRUE, Cardinality(activeProfiles))

TooManyActive(health) == health.activeProfiles > Threshold

\* The status that HealthController.GetHealth answers.
HealthStatus ==
  CASE ~ GetHealth.initialized /\ IsEnabled -> "unhealthy"
    [] (GetHealth.initialized \/ ~ IsEnabled) /\ TooManyActive(GetHealth) -> "degraded"
    [] OTHER -> "healthy"

\* ProfilingHealthIndicator.Check: "up" or "down".
Check ==
  IF \/ ~ GetHealth.initialized /\ IsEnabled
     \/ TooManyActive(GetHealth)
  THEN "down" ELSE "up"

-----------------------------------------------------------------------------
(* Properties                                                              *)

\* Every variable holds a value of its kind.
TypeOK ==
  /\ now \in Nat
  /\ enabled \in BOOLEAN
  /\ phase \in {"new", "importing", "ready", "failed"}
  /\ client \in {"none", "running", "stopped", "unknown"}
  /\ shutdown \in {"up", "stopping", "down"}
  /\ activeProfiles \subseteq profileId
  /\ profileId \subseteq Contexts
  /\ metrics \in Seq(Contexts)
  /\ pc \in [Contexts -> {"new", "running", "ended"}]
  /\ startTime \in [Contexts -> Nat]
  /\ lastStart \in Nat
  /\ late \in BOOLEAN
  /\ stopped \in Seq(Contexts)

\* However often a stream emits, fails afterwards, or a profile is stopped again, a
\* profile is recorded at most once, and what was recorded is no longer active.
RecordedOnce ==
  \A i \in DOMAIN stopped :
    /\ stopped[i] \notin activeProfiles
    /\ \A j \in DOMAIN stopped : stopped[i] = stopped[j] => i = j

\* Metrics holds the newest profiles in the order they ended, as many as fit.
HistoryKeepsNewest ==
  /\ Len(metrics) = IF Len(stopped) < MaxHistory THEN Len(stopped) ELSE MaxHistory
  /\ \A i \in DOMAIN metrics : metrics[i] = stopped[Len(stopped) - Len(metrics) + i]

\* Whatever the limit, no profile that may still end is lost: a profile leaves the map
\* because it ended, because it is too old, or because the module is destroyed.
FreshProfilesStay ==
  [][\A c \in activeProfiles \ activeProfiles' :
       \/ stopped' = Append(stopped, c)
       \/ now - startTime[c] > StaleTimeout
       \/ shutdown # shutdown']_vars

\* Over the limit the map holds no profile that was stale when the last one was started.
OverLimitOnlyFresh ==
  Cardinality(activeProfiles) > MaxActive =>
    \A c \in activeProfiles : lastStart - startTime[c] <= StaleTimeout

\* A tracked or decorated function leaves no profile behind, whether it returned or
\* threw, and whatever the client did meanwhile.
FunctionsLeave == \A c \in Functions : pc[c] = "ended" => c \notin activeProfiles

\* "Returns 'unhealthy' if profiling is enabled but not initialized": the comment of
\* ProfilingHealthIndicator, of a start that has failed.  The endpoint agrees.
FailedStartIsDown ==
  enabled /\ phase = "failed" => Check = "down" /\ HealthStatus # "healthy"

\* Once the destroy hook is over the client runs only if it became ready after the hook
\* had begun.
ClientStopped == shutdown = "down" /\ client = "running" => late
=============================================================================
