------------------------- MODULE PrometheusExporter --------------------------
(***************************************************************************)
(* PrometheusExporter of nestjs-prometheus: recorded values are buffered   *)
(* per metric, and a scrape (GetMetrics) flushes the buffers into the      *)
(* prom-client instruments before it reads them.  The flush is             *)
(* synchronous, the reading is not: values are recorded and other scrapes  *)
(* begin while one waits for Registry.metrics().                           *)
(*                                                                         *)
(* A value carries the key NormalizeLabelKey makes of its labels.  The     *)
(* series it belongs to in prom-client is SeriesOf its key: prom-client    *)
(* turns every label value into a string, NormalizeLabelKey does not.      *)
(***************************************************************************)
EXTENDS Integers, SequencesExt, FiniteSetsExt

CONSTANTS
  Metrics,      \* metric names
  Type,         \* Type[m]: "counter" | "histogram" | "gauge" | "updown_counter"
  Keys,         \* normalised label keys
  Series,       \* label sets of prom-client
  SeriesOf,     \* SeriesOf[k]: the label set of a key
  Amounts,      \* the values recorded
  Scrapes,      \* calls of GetMetrics
  MaxPending,   \* MAX_PENDING_PER_METRIC
  MaxRecorded   \* bound on the number of values recorded

Types == {"counter", "histogram", "gauge", "updown_counter"}

ASSUME TypeAssumption == Type \in [Metrics -> Types]
ASSUME SeriesAssumption == SeriesOf \in [Keys -> Series]
ASSUME AmountsAssumption == Amounts \subseteq Int
ASSUME BoundsAssumption == MaxPending \in Nat \ {0} /\ MaxRecorded \in Nat

VARIABLES
  instruments,   \* the metrics with an entry in Instruments and in Pending
  pending,       \* Pending: the buffered values of each metric
  gaugeValues,   \* GaugeValues: the running total of each key of an updown_counter
  series,        \* the value prom-client has for each series
  closed,        \* has Shutdown been called?
  state,         \* state[s]: "new" | "reading" | "done" | "failed"
  unread,        \* unread[s]: the metrics scrape s has yet to read
  result,        \* result[s][m]: what scrape s read of m
  sent,          \* history: every value given to OnMetricRecorded for an instrument
  dropped,       \* history: how many of them were culled
  flushed,       \* history: how many of them the last flush, or Shutdown, found
  floor          \* history: series when scrape s had flushed

bufferVars == <<pending, sent, dropped>>
flushVars  == <<gaugeValues, series, flushed>>
scrapeVars == <<state, unread, result, floor>>
vars == <<instruments, bufferVars, flushVars, closed, scrapeVars>>

-----------------------------------------------------------------------------

NoSeries == [m \in Metrics |-> [l \in Series |-> 0]]

Init ==
  /\ instruments = {}
  /\ pending = [m \in Metrics |-> <<>>]
  /\ gaugeValues = [m \in Metrics |-> [k \in Keys |-> 0]]
  /\ series = NoSeries
  /\ closed = FALSE
  /\ state = [s \in Scrapes |-> "new"]
  /\ unread = [s \in Scrapes |-> {}]
  /\ result = [s \in Scrapes |-> NoSeries]
  /\ sent = [m \in Metrics |-> <<>>]
  /\ dropped = [m \in Metrics |-> {}]
  /\ flushed = [m \in Metrics |-> 0]
  /\ floor = [s \in Scrapes |-> NoSeries]

\* The instrument is created, once.  An empty help text or an error of prom-client
\* leaves no instrument.  No descriptor is registered after Shutdown.
OnDescriptorRegistered(m) ==
  /\ ~ closed
  /\ m \notin instruments
  /\ instruments' = instruments \cup {m}
  /\ UNCHANGED <<bufferVars, flushVars, closed, scrapeVars>>

\* push, then shift when the array has become too long.
Buffered(buffer, v) ==
  IF Len(buffer) + 1 > MaxPending THEN Tail(Append(buffer, v)) ELSE Append(buffer, v)

\* A value of a metric without an instrument is lost, with a warning.
OnMetricRecorded(m, k, amount) ==
  LET v == [key |-> k, amount |-> amount]
  IN  /\ m \in instruments
      /\ MapThenSumSet(LAMBDA n : Len(sent[n]), Metrics) < MaxRecorded
      /\ pending' = [pending EXCEPT ![m] = Buffered(@, v)]
      /\ sent' = [sent EXCEPT ![m] = Append(@, v)]
      /\ dropped' = IF Len(pending[m]) < MaxPending THEN dropped
                    ELSE [dropped EXCEPT ![m] = @ \cup {Len(sent[m]) + 1 - MaxPending}]
      /\ UNCHANGED <<instruments, flushVars, closed, scrapeVars>>

-----------------------------------------------------------------------------
(* The flush                                                               *)

KeysIn(batch) == {v.key : v \in ToSet(batch)}

KeysOf(l) == {k \in Keys : SeriesOf[k] = l}

\* The amounts added one after the other.
Added(amounts) ==
  LET sum[n \in 0 .. Len(amounts)] == IF n = 0 THEN 0 ELSE sum[n - 1] + amounts[n]
  IN  sum[Len(amounts)]

\* Mutant of Share: a counter takes negative amounts.
ShareOfAny(m, v, keys) == IF v.key \in keys THEN v.amount ELSE 0

\* What a value adds to the sum over the keys: inc throws on a negative amount, which is
\* logged; the others take any.
Share(m, v, keys) ==
  IF v.key \in keys /\ (Type[m] = "counter" => v.amount >= 0) THEN v.amount ELSE 0

SumOf(m, batch, keys) == Added([i \in DOMAIN batch |-> Share(m, batch[i], keys)])

\* Counters and histograms: the values go to their instrument one by one.
Increased(m, batch) == [l \in Series |-> series[m][l] + SumOf(m, batch, KeysOf(l))]

\* Gauges: the values of a batch are added up by key, and for an updown_counter
\* added to the running total of the key.
Final(m, batch, k) ==
  SumOf(m, batch, {k}) + (IF Type[m] = "updown_counter" THEN gaugeValues[m][k] ELSE 0)

FirstOf(batch, k) == CHOOSE i \in DOMAIN batch :
  batch[i].key = k /\ \A j \in DOMAIN batch : batch[j].key = k => i <= j

\* The keys are set in the order in which they first occur in the batch; of two
\* keys of the same series the later one stays.
LastKey(batch, l) == CHOOSE k \in KeysIn(batch) \cap KeysOf(l) :
  \A j \in KeysIn(batch) \cap KeysOf(l) : FirstOf(batch, j) <= FirstOf(batch, k)

SetTo(m, batch) ==
  [l \in Series |-> IF KeysIn(batch) \cap KeysOf(l) = {} THEN series[m][l]
                    ELSE Final(m, batch, LastKey(batch, l))]

Accumulated(m, batch) ==
  [k \in Keys |-> IF Type[m] = "updown_counter" /\ k \in KeysIn(batch)
                  THEN Final(m, batch, k) ELSE gaugeValues[m][k]]

FlushedSeries ==
  [m \in Metrics |-> IF Type[m] \in {"counter", "histogram"}
                     THEN Increased(m, pending[m]) ELSE SetTo(m, pending[m])]

-----------------------------------------------------------------------------
(* Scrapes                                                                 *)

\* Mutant of GetMetrics: the buffers are read, but not swapped for empty ones.
GetMetricsKeepsPending(s) ==
  /\ state[s] = "new"
  /\ series' = FlushedSeries
  /\ gaugeValues' = [m \in Metrics |-> Accumulated(m, pending[m])]
  /\ flushed' = [m \in Metrics |-> Len(sent[m])]
  /\ state' = [state EXCEPT ![s] = "reading"]
  /\ unread' = [unread EXCEPT ![s] = instruments]
  /\ floor' = [floor EXCEPT ![s] = series']
  /\ UNCHANGED <<instruments, bufferVars, closed, result>>

\* The synchronous part of GetMetrics: every buffer is swapped for an empty one
\* and applied.
GetMetrics(s) ==
  /\ state[s] = "new"
  /\ series' = FlushedSeries
  /\ gaugeValues' = [m \in Metrics |-> Accumulated(m, pending[m])]
  /\ pending' = [m \in Metrics |-> <<>>]
  /\ flushed' = [m \in Metrics |-> Len(sent[m])]
  /\ state' = [state EXCEPT ![s] = "reading"]
  /\ unread' = [unread EXCEPT ![s] = instruments]
  /\ floor' = [floor EXCEPT ![s] = series']
  /\ UNCHANGED <<instruments, sent, dropped, closed, result>>

\* Registry.metrics() reads one instrument.
ReadInstrument(s, m) ==
  /\ state[s] = "reading"
  /\ m \in unread[s]
  /\ unread' = [unread EXCEPT ![s] = @ \ {m}]
  /\ result' = [result EXCEPT ![s][m] = series[m]]
  /\ UNCHANGED <<instruments, bufferVars, flushVars, closed, state, floor>>

GetMetricsReturns(s) ==
  /\ state[s] = "reading"
  /\ unread[s] = {}
  /\ state' = [state EXCEPT ![s] = "done"]
  /\ UNCHANGED <<instruments, bufferVars, flushVars, closed, unread, result, floor>>

\* Registry.metrics() rejects: logged and thrown again.  What was flushed stays.
GetMetricsFails(s) ==
  /\ state[s] = "reading"
  /\ state' = [state EXCEPT ![s] = "failed"]
  /\ UNCHANGED <<instruments, bufferVars, flushVars, closed, unread, result, floor>>

\* The maps are cleared.  A scrape that is under way keeps the instruments it has.
Shutdown ==
  /\ ~ closed
  /\ closed' = TRUE
  /\ instruments' = {}
  /\ pending' = [m \in Metrics |-> <<>>]
  /\ gaugeValues' = [m \in Metrics |-> [k \in Keys |-> 0]]
  /\ flushed' = [m \in Metrics |-> Len(sent[m])]
  /\ UNCHANGED <<sent, dropped, series, scrapeVars>>

Next ==
  \/ \E m \in Metrics :
       \/ OnDescriptorRegistered(m)
       \/ \E k \in Keys, a \in Amounts : OnMetricRecorded(m, k, a)
  \/ \E s \in Scrapes :
       \/ GetMetrics(s)
       \/ \E m \in Metrics : ReadInstrument(s, m)
       \/ GetMetricsReturns(s)
       \/ GetMetricsFails(s)
  \/ Shutdown

Spec == Init /\ [][Next]_vars

-----------------------------------------------------------------------------
(* Properties                                                              *)

Value == [key : Keys, amount : Amounts]

\* Every variable holds a value of its kind.
TypeOK ==
  /\ instruments \subseteq Metrics
  /\ pending \in [Metrics -> Seq(Value)]
  /\ gaugeValues \in [Metrics -> [Keys -> Int]]
  /\ series \in [Metrics -> [Series -> Int]]
  /\ closed \in BOOLEAN
  /\ state \in [Scrapes -> {"new", "reading", "done", "failed"}]
  /\ unread \in [Scrapes -> SUBSET Metrics]
  /\ result \in [Scrapes -> [Metrics -> [Series -> Int]]]
  /\ sent \in [Metrics -> Seq(Value)]
  /\ dropped \in [Metrics -> SUBSET Nat]
  /\ flushed \in [Metrics -> Nat]
  /\ floor \in [Scrapes -> [Metrics -> [Series -> Int]]]

\* "if the pending array exceeds MAX_PENDING_PER_METRIC (1000), oldest entries are
\* culled": a buffer holds the newest values since the last flush, as many as
\* fit and in order.
PendingKeepsNewest ==
  \A m \in Metrics :
    LET n == Len(sent[m])
        first == IF n - flushed[m] > MaxPending THEN n - MaxPending ELSE flushed[m]
    IN  pending[m] = SubSeq(sent[m], first + 1, n)

\* The sum of the values that were given to the exporter and not culled.
SumKept(m, keys) ==
  Added([i \in DOMAIN sent[m] |->
           IF i \in dropped[m] THEN 0 ELSE Share(m, sent[m][i], keys)])

\* What prom-client shows and what is still buffered.
ShownOrBuffered(m, l) == series[m][l] + SumOf(m, pending[m], KeysOf(l))

\* It adds up to what was recorded.
AddsUp(m) == \A l \in Series : ShownOrBuffered(m, l) = SumKept(m, KeysOf(l))

\* "atomic swap ... to prevent loss of metrics recorded concurrently during flush":
\* every value that was not culled is counted exactly once, whatever scrapes overlap or fail.
CountersExact ==
  \A m \in Metrics : ~ closed /\ Type[m] \in {"counter", "histogram"} => AddsUp(m)

\* "Running totals for updown_counter metrics (persistent across scrapes)": the
\* series of an updown_counter shows the sum of all its values.
TotalsExact ==
  \A m \in Metrics : ~ closed /\ Type[m] = "updown_counter" => AddsUp(m)

\* The buffers, the instruments and the running totals stay in step: nothing is
\* counted twice, lost in a flush or forgotten between scrapes.
NothingMiscounted == TypeOK /\ PendingKeepsNewest /\ CountersExact /\ TotalsExact

Counters == {m \in Metrics : Type[m] = "counter"}

\* The scraper sees the ledger of module MetricsLedger.
Ledger == INSTANCE MetricsLedger WITH
  total <- [m \in Counters |-> [l \in Series |-> ShownOrBuffered(m, l)]],
  reported <- [m \in Counters |-> series[m]],
  begun <- {s \in Scrapes : state[s] # "new"},
  floor <- [s \in Scrapes |-> [m \in Counters |-> floor[s][m]]],
  result <- [s \in Scrapes |-> [m \in Counters |-> result[s][m]]]

CountersAreLedger == Ledger!Spec
=============================================================================
