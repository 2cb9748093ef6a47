------------------------------ MODULE OtelMetrics ------------------------------
(***************************************************************************)
(* The metrics of nestjs-open-telemetry: the cache of meters, the metrics  *)
(* of HTTP requests, and OpenTelemetryExporter, which is driven through    *)
(* its public methods.                                                     *)
(*                                                                         *)
(* Before the SDK is started the API gives meters whose instruments drop   *)
(* what they are given, for ever.  The SDK keeps one sum for each name of  *)
(* an instrument and list of attributes, however often it is created.      *)
(***************************************************************************)
EXTENDS Integers, FiniteSets, SequencesExt

CONSTANTS
  HttpRequests,
  Meters,          \* names of meters, DefaultMeter among them
  DefaultMeter,    \* '@pawells/nestjs-open-telemetry'
  MaxMeters,       \* MAX_METER_CACHE_SIZE
  Pushed,          \* Pushed[n]: the type of metric n that the exporter is given
  LabelSets,
  GaugeKey,        \* GaugeKey[n][l]: the name and the labels, sorted, written as one text; for
                   \* labels that are written alike it is the same
  GivenValues,     \* values given to OnMetricRecorded
  MaxGiven         \* bound on the calls of OnMetricRecorded

ASSUME MetersAssumption ==
  /\ DefaultMeter \in Meters /\ MaxMeters \in Nat \ {0}
  /\ IsFiniteSet(HttpRequests) /\ GivenValues \subseteq Int

VARIABLES
  sdk,             \* the SDK has been started
  meterCache,      \* MeterCache, in order of insertion: [name, real]
  asked,           \* history: the names that GetMeter put into the cache, in order
  httpMetrics,     \* CachedHttpMetrics: "none" | "noop" | "real"
  flight,          \* "idle" | "active" | "done", of each request
  httpSums,        \* what the SDK shows: [requests, active]
  instruments,     \* Instruments: "none" | "noop" | "real"
  gaugeValues,     \* GaugeValues, by key
  sums,            \* what the SDK shows of a metric and labels
  given,           \* history: [name, labels, value, kept] in order
  shutdowns        \* history: how many values had been given when Shutdown was called, or -1

otelVars == <<sdk, meterCache, asked, httpMetrics, flight, httpSums, instruments, gaugeValues, sums, given, shutdowns>>
httpVars == <<httpMetrics, flight, httpSums>>
meterVars == <<meterCache, asked>>
exporterVars == <<instruments, gaugeValues, sums, given, shutdowns>>

Keys == {GaugeKey[n][l] : n \in DOMAIN Pushed, l \in LabelSets}
Zero == [n \in DOMAIN Pushed |-> [l \in LabelSets |-> 0]]
NoValues == [key \in Keys |-> 0]

OtelInit ==
  /\ sdk = FALSE
  /\ meterCache = <<>> /\ asked = <<>>
  /\ httpMetrics = "none"
  /\ flight = [r \in HttpRequests |-> "idle"]
  /\ httpSums = [requests |-> 0, active |-> 0]
  /\ instruments = [n \in DOMAIN Pushed |-> "none"]
  /\ gaugeValues = NoValues /\ sums = Zero
  /\ given = <<>> /\ shutdowns = -1

StartSdk == ~ sdk /\ sdk' = TRUE /\ UNCHANGED <<meterVars, httpVars, exporterVars>>

Instrument == IF sdk THEN "real" ELSE "noop"

-----------------------------------------------------------------------------
(* Meters                                                                   *)

Cached(name) == \E k \in DOMAIN meterCache : meterCache[k].name = name
IsReal(name) == \A k \in DOMAIN meterCache : meterCache[k].name = name => meterCache[k].real

GetMeter(name) ==
  IF Cached(name) THEN UNCHANGED meterVars
  ELSE /\ meterCache' = Append(IF Len(meterCache) >= MaxMeters THEN Tail(meterCache) ELSE meterCache,
                               [name |-> name, real |-> sdk])
       /\ asked' = Append(asked, name)

\* CreateCounter, CreateHistogram and CreateUpDownCounter of the application.
CreateInstrument(name) ==
  /\ Len(asked) < 2 * MaxMeters
  /\ GetMeter(name)
  /\ UNCHANGED <<sdk, httpVars, exporterVars>>

-----------------------------------------------------------------------------
(* HTTP metrics                                                             *)

\* Mutant of GetHttpMetrics: they are created again until the SDK is there.
GetHttpMetricsFresh == IF httpMetrics = "real" THEN "real" ELSE Instrument

\* Created on first access, with the meter cached under the default name, if any.
GetHttpMetrics ==
  IF httpMetrics # "none" THEN httpMetrics
  ELSE IF Cached(DefaultMeter) THEN (IF IsReal(DefaultMeter) THEN "real" ELSE "noop")
  ELSE Instrument

UseHttpMetrics(change) ==
  /\ httpMetrics' = GetHttpMetrics
  /\ IF httpMetrics = "none" THEN GetMeter(DefaultMeter) ELSE UNCHANGED meterVars
  /\ httpSums' = IF GetHttpMetrics = "real"
                 THEN [k \in DOMAIN httpSums |-> httpSums[k] + change[k]] ELSE httpSums
  /\ UNCHANGED <<sdk, exporterVars>>

\* An application that calls TrackActiveRequests when a request begins and when it ends.
TrackActiveRequests(r) ==
  /\ flight[r] = "idle"
  /\ flight' = [flight EXCEPT ![r] = "active"]
  /\ UseHttpMetrics([requests |-> 0, active |-> 1])

RecordHttpMetrics(r) ==
  /\ flight[r] = "active"
  /\ flight' = [flight EXCEPT ![r] = "done"]
  /\ UseHttpMetrics([requests |-> 1, active |-> -1])

-----------------------------------------------------------------------------
(* OpenTelemetryExporter                                                    *)

\* A name is looked up once; its instrument is asked of the provider itself.
OnDescriptorRegistered(n) ==
  /\ instruments[n] = "none"
  /\ instruments' = [instruments EXCEPT ![n] = Instrument]
  /\ UNCHANGED <<sdk, meterVars, httpVars, gaugeValues, sums, given, shutdowns>>

\* The last value that was given under the key of the gauge and its labels.
Previous(n, l) == gaugeValues[GaugeKey[n][l]]

\* A gauge is pushed as the difference to its last value, the others as they are.
OnMetricRecorded(n, l, v) ==
  /\ Len(given) < MaxGiven
  /\ given' = Append(given, [name |-> n, labels |-> l, value |-> v, kept |-> instruments[n] # "none"])
  /\ IF instruments[n] = "none" THEN UNCHANGED <<gaugeValues, sums>>
     ELSE LET delta == IF Pushed[n] = "gauge" THEN v - Previous(n, l) ELSE v
          IN /\ gaugeValues' = IF Pushed[n] = "gauge" THEN [gaugeValues EXCEPT ![GaugeKey[n][l]] = v] ELSE gaugeValues
             /\ sums' = IF instruments[n] = "real" THEN [sums EXCEPT ![n][l] = sums[n][l] + delta] ELSE sums
  /\ UNCHANGED <<sdk, meterVars, httpVars, instruments, shutdowns>>

Shutdown ==
  /\ shutdowns = -1
  /\ shutdowns' = Len(given)
  /\ instruments' = [n \in DOMAIN Pushed |-> "none"]
  /\ gaugeValues' = NoValues
  /\ UNCHANGED <<sdk, meterVars, httpVars, sums, given>>

HttpNext ==
  \/ StartSdk
  \/ \E name \in Meters : CreateInstrument(name)
  \/ \E r \in HttpRequests : TrackActiveRequests(r) \/ RecordHttpMetrics(r)

PushNext ==
  \/ StartSdk
  \/ \E n \in DOMAIN Pushed :
       OnDescriptorRegistered(n) \/ \E l \in LabelSets, v \in GivenValues : OnMetricRecorded(n, l, v)
  \/ Shutdown

OtelSpec == OtelInit /\ [][HttpNext \/ PushNext]_otelVars

-----------------------------------------------------------------------------
(* Properties                                                              *)

\* The cache holds the meters that were put into it last, each once, and no more than its
\* limit: a name that comes back after it was evicted is cached anew.
MetersAreTheNewest ==
  /\ [k \in DOMAIN meterCache |-> meterCache[k].name]
       = SubSeq(asked, Len(asked) - Len(meterCache) + 1, Len(asked))
  /\ Len(meterCache) = IF Len(asked) < MaxMeters THEN Len(asked) ELSE MaxMeters
  /\ \A j, k \in DOMAIN meterCache : j # k => meterCache[j].name # meterCache[k].name

\* HTTP requests are counted all or not at all: when the first of them came before the
\* SDK they stay dropped, so the number of active requests is never that of a part of
\* them, and never negative.
InFlight(s) == Cardinality({r \in HttpRequests : flight[r] = s})
HttpMetricsAreWhole ==
  httpSums = IF httpMetrics = "real" THEN [requests |-> InFlight("done"), active |-> InFlight("active")]
             ELSE [requests |-> 0, active |-> 0]

\* As long as the exporter was not shut down, the sum of a gauge, which is pushed as
\* differences, is the last value given for the same labels, unless other labels are
\* written like them: those share the remembered value, but not the sum.
KeptOf(n, l) == {k \in DOMAIN given : given[k].name = n /\ given[k].labels = l /\ given[k].kept}
KeyOfItsOwn(n, l) ==
  \A n2 \in DOMAIN Pushed, l2 \in LabelSets :
    Pushed[n2] = "gauge" /\ GaugeKey[n2][l2] = GaugeKey[n][l] => n2 = n /\ l2 = l
GaugesShowTheLast ==
  shutdowns = -1 => \A n \in DOMAIN Pushed, l \in LabelSets :
    Pushed[n] = "gauge" /\ instruments[n] = "real" /\ KeyOfItsOwn(n, l) =>
      sums[n][l] = IF KeptOf(n, l) = {} THEN 0 ELSE given[Max(KeptOf(n, l))].value

\* What OpenTelemetry is given through caches adds up: of meters, of requests and of the
\* gauges that are pushed as differences.
PushedIsKept == MetersAreTheNewest /\ HttpMetricsAreWhole /\ GaugesShowTheLast
=============================================================================
