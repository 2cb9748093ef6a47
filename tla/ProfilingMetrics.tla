---------------------------- MODULE ProfilingMetrics ----------------------------
(***************************************************************************)
(* MetricsService of nestjs-pyroscope and the helpers of its utils, which  *)
(* are applied to the requests that were recorded.                         *)
(*                                                                         *)
(* Durations are whole milliseconds; the clock may be set back, so one may *)
(* be negative.  A tag is a member of Tags, or "none".  An array of        *)
(* metrics is a function: the figures do not depend on their order.        *)
(***************************************************************************)
EXTENDS Integers, FiniteSets, SequencesExt

CONSTANTS
  Statuses, Durations, Tags,
  MaxSamples,       \* bound on the requests recorded
  MaxUsage,         \* bound on the samples of processor and memory
  Causes,           \* what the message of an error mentions
  Precision,        \* PROFILING_RESPONSE_TIME_PRECISION
  BaseDelay, MaxDelay, Jitter,   \* PROFILING_RETRY_*
  MaxAttempts       \* bound on the attempts of a caller

\* Those of profiling.constants.ts are positive, and these are the causes that
\* IsRecoverableError looks for.
ASSUME ProfilingAssumption ==
  /\ Statuses \subseteq Nat /\ Durations \subseteq Int
  /\ Precision \in Nat \ {0}
  /\ BaseDelay \in Nat \ {0} /\ MaxDelay \in Nat \ {0} /\ Jitter \in Nat \ {0}
  /\ Causes \subseteq {"ECONNREFUSED", "ENOTFOUND", "timeout", "401", "403"}

VARIABLES
  cpu,              \* [samples, duration]
  memory,           \* [samples, allocations]
  requests,         \* [total, successful, failed, time]
  samples,          \* history: the requests given since the last Reset
  waited            \* history: the delays that a caller waited, and after which errors

countVars == <<cpu, memory, requests, samples>>
profilingVars == <<countVars, waited>>

NoRequests == [total |-> 0, successful |-> 0, failed |-> 0, time |-> 0]

Reset ==
  /\ cpu' = [samples |-> 0, duration |-> 0]
  /\ memory' = [samples |-> 0, allocations |-> 0]
  /\ requests' = NoRequests
  /\ samples' = <<>>

ProfilingInit ==
  /\ cpu = [samples |-> 0, duration |-> 0]
  /\ memory = [samples |-> 0, allocations |-> 0]
  /\ requests = NoRequests
  /\ samples = <<>>
  /\ waited = <<>>

RecordCPUSample(duration) ==
  /\ cpu.samples + memory.samples < MaxUsage
  /\ cpu' = IF duration < 0 THEN cpu
            ELSE [samples |-> cpu.samples + 1, duration |-> cpu.duration + duration]
  /\ UNCHANGED <<memory, requests, samples>>

RecordMemorySample(bytes) ==
  /\ cpu.samples + memory.samples < MaxUsage
  /\ memory' = IF bytes < 0 THEN memory
               ELSE [samples |-> memory.samples + 1, allocations |-> memory.allocations + bytes]
  /\ UNCHANGED <<cpu, requests, samples>>

Successful(status) == status >= 200 /\ status < 400

RecordRequest(status, duration, tag) ==
  /\ Len(samples) < MaxSamples
  /\ samples' = Append(samples, [status |-> status, duration |-> duration, tag |-> tag])
  /\ requests' = IF duration < 0 THEN requests
                 ELSE [total |-> requests.total + 1, time |-> requests.time + duration,
                       successful |-> requests.successful + (IF Successful(status) THEN 1 ELSE 0),
                       failed |-> requests.failed + (IF Successful(status) THEN 0 ELSE 1)]
  /\ UNCHANGED <<cpu, memory>>

Snapshot(total, successful, failed, time) ==
  [total |-> total, successful |-> successful, failed |-> failed,
   average |-> IF total = 0 THEN 0 ELSE (2 * Precision * time + total) \div (2 * total)]

\* What is told of the requests; processor and memory are told as they are counted.  The
\* average is in units of 1/Precision milliseconds, rounded half up.
GetMetrics == Snapshot(requests.total, requests.successful, requests.failed, requests.time)

Number(ms) == Cardinality(DOMAIN ms)
Total(ms) == MapThenSumSet(LAMBDA k : ms[k].duration, DOMAIN ms)

\* PyroscopeService.GetMetrics without this service: every profile is a success.
FallbackMetrics(ms) == Snapshot(Number(ms), Number(ms), 0, Total(ms))

Counting ==
  /\ \/ \E d \in Durations : RecordCPUSample(d) \/ RecordMemorySample(d)
     \/ \E s \in Statuses, d \in Durations, t \in Tags \cup {"none"} : RecordRequest(s, d, t)
     \/ Reset
  /\ UNCHANGED waited

-----------------------------------------------------------------------------
(* MetricAggregator                                                         *)

AverageDuration(ms) == IF Number(ms) = 0 THEN 0 ELSE Total(ms) \div Number(ms)

CeilDiv(a, b) == (a + b - 1) \div b

\* The metrics with the shorter durations first.
Sorted(ms) ==
  CHOOSE order \in Bijection(1 .. Number(ms), DOMAIN ms) :
    \A i, j \in 1 .. Number(ms) : i < j => ms[order[i]].duration <= ms[order[j]].duration

\* Mutant of Percentile: the index is rounded down.
PercentileFloor(ms, p) ==
  LET index == (p * Number(ms)) \div 100 - 1
  IN IF Number(ms) = 0 THEN 0
     ELSE ms[Sorted(ms)[1 + (IF index < 0 THEN 0 ELSE index)]].duration

\* The index is brought into the bounds of the array.
Percentile(ms, p) ==
  LET n == Number(ms)
      index == CeilDiv(p * n, 100) - 1
      bounded == IF index < 0 THEN 0 ELSE IF index >= n THEN n - 1 ELSE index
  IN IF n = 0 THEN 0 ELSE ms[Sorted(ms)[1 + bounded]].duration

\* A metric without the tag belongs to the group unknown.
GroupKey(m) == IF m.tag = "none" THEN "unknown" ELSE m.tag
GroupByTags(ms) ==
  [key \in {GroupKey(ms[k]) : k \in DOMAIN ms} |->
     Restrict(ms, {k \in DOMAIN ms : GroupKey(ms[k]) = key})]

-----------------------------------------------------------------------------
(* ProfilingErrorHandler                                                    *)

\* The connection comes before the status in the message of an error.
IsRecoverableError(causes) == causes \cap {"ECONNREFUSED", "ENOTFOUND", "timeout"} # {}

Delay(attempt) ==
  IF BaseDelay * 2 ^ attempt < MaxDelay THEN BaseDelay * 2 ^ attempt ELSE MaxDelay

\* The delays that GetRetryDelay may give; the jitter comes on top of the maximum.
GetRetryDelay(causes, attempt) ==
  IF IsRecoverableError(causes) THEN {Delay(attempt) + j : j \in 0 .. Jitter - 1} ELSE {0}

\* A caller that tries again after each error that may be cured, with what is left of
\* its attempts.
Retry(causes) ==
  /\ Len(waited) < MaxAttempts
  /\ waited # <<>> => Last(waited).delay # 0
  /\ \E delay \in GetRetryDelay(causes, Len(waited)) :
       waited' = Append(waited, [causes |-> causes, delay |-> delay])
  /\ UNCHANGED countVars

Retrying == \E causes \in SUBSET Causes : Retry(causes)

ProfilingNext == Counting \/ Retrying
ProfilingSpec == ProfilingInit /\ [][ProfilingNext]_profilingVars

-----------------------------------------------------------------------------
(* Properties                                                              *)

Kept == Restrict(samples, {k \in DOMAIN samples : samples[k].duration >= 0})

\* The counters agree with each other and with the requests since the last Reset: each
\* is a success or a failure, one with an impossible duration is neither, and the
\* average lies between the shortest and the longest, off by at most half a unit; and the
\* fallback, given the same requests, differs only in hiding what failed.
RequestsAddUp ==
  /\ requests.total = requests.successful + requests.failed
  /\ requests.total = Number(Kept)
  /\ requests.failed = Cardinality({k \in DOMAIN Kept : Kept[k].status \notin 200 .. 399})
  /\ DOMAIN Kept # {} =>
       LET ds == {Kept[k].duration : k \in DOMAIN Kept}
           average == requests.time \div requests.total
           told == GetMetrics.average
       IN /\ Min(ds) <= average /\ average <= Max(ds) /\ average = AverageDuration(Kept)
          /\ Min(ds) * Precision <= told /\ told <= Max(ds) * Precision
          /\ 2 * (told * requests.total - requests.time * Precision) \in -requests.total + 1 .. requests.total
  /\ \A field \in {"total", "average"} : GetMetrics[field] = FallbackMetrics(Kept)[field]
  /\ GetMetrics.failed = 0 <=> GetMetrics = FallbackMetrics(Kept)

\* The percentile is the least duration that was recorded of which at least p percent
\* of the durations are no longer; each metric is in one group by tag, that of its key.
PercentilesAreRanks ==
  samples # <<>> =>
    /\ \A p \in {0, 1, 50, 51, 95, 100} :
         LET ds == {samples[k].duration : k \in DOMAIN samples}
             share(d) == 100 * Cardinality({k \in DOMAIN samples : samples[k].duration <= d})
         IN Percentile(samples, p) = Min({d \in ds : share(d) >= p * Len(samples)})
    /\ LET groups == GroupByTags(samples)
       IN \A k \in DOMAIN samples :
            /\ {key \in DOMAIN groups : k \in DOMAIN groups[key]} = {GroupKey(samples[k])}
            /\ groups[GroupKey(samples[k])][k] = samples[k]

\* A caller that retries waits longer each time, but for the jitter, never more than the
\* maximum and the jitter, and gives up at once on an error that no retry cures.
DelaysGrow ==
  \A k \in DOMAIN waited :
    /\ waited[k].delay < MaxDelay + Jitter
    /\ waited[k].delay = 0 <=> waited[k].causes \subseteq {"401", "403"}
    /\ k > 1 /\ waited[k].delay # 0 => waited[k].delay > waited[k - 1].delay - Jitter

\* The figures of the profiling metrics are those of the requests and errors given.
FiguresAreRight == RequestsAddUp /\ PercentilesAreRanks /\ DelaysGrow
=============================================================================
