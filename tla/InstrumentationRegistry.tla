----------------------- MODULE InstrumentationRegistry -----------------------
(***************************************************************************)
(* InstrumentationRegistry of nestjs-shared: metric descriptors, the       *)
(* rolling window of recorded values, the exporters and the listeners.     *)
(*                                                                         *)
(* Everything is synchronous, but RecordMetric calls listeners and a       *)
(* listener may call the registry: it may subscribe, unsubscribe, record   *)
(* and register while the loop over the listeners is under way.  calls is  *)
(* the stack of the RecordMetric calls in progress.  The hooks of          *)
(* exporters do not call the registry back, so a round of notifications is *)
(* one step.                                                               *)
(*                                                                         *)
(* A recorded value is named by its position in log.                       *)
(***************************************************************************)
EXTENDS Naturals, SequencesExt

CONSTANTS
  Metrics,       \* metric names
  Handlers,      \* callbacks given to On
  Exporters,     \* exporter objects
  Hooks,         \* Hooks[e]: the optional methods of IMetricsExporter that e has
  EventBased,    \* the exporters with SupportsEventBased
  Faulty,        \* the exporters whose hooks throw, or return a promise that rejects
  MaxValues,     \* MAX_VALUES_PER_METRIC
  MaxRecorded,   \* bound on the values recorded
  MaxListeners,  \* bound on the listeners of a metric
  MaxDepth       \* bound on nested calls of RecordMetric

HookNames == {"onDescriptorRegistered", "onMetricRecorded", "shutdown"}

ASSUME HooksAssumption == Hooks \in [Exporters -> SUBSET HookNames]
ASSUME ExportersAssumption == EventBased \subseteq Exporters /\ Faulty \subseteq Exporters
ASSUME BoundsAssumption ==
  /\ MaxValues \in Nat \ {0}
  /\ MaxRecorded \in Nat
  /\ MaxListeners \in Nat
  /\ MaxDepth \in Nat

VARIABLES
  descriptors,   \* the names in Descriptors, a Map: in order of insertion
  values,        \* Values: the rolling window of each metric
  exporters,     \* Exporters
  listeners,     \* Listeners: the array of handlers of each metric
  calls,         \* the RecordMetric calls in progress, the innermost last
  shutdown,      \* "none" | "pending" | "resolved" | "rejected"
  status,        \* status[e]: "up" | "closing" | "closed" | "failed"
  log,           \* history: the metric of every recorded value
  announced,     \* history: the descriptors e was told of, in order
  received,      \* history: the values e was given, in order
  registeredAt   \* history: how many values had been recorded when e was registered

storeVars    == <<descriptors, values, log>>
exporterVars == <<exporters, announced, received, registeredAt>>
closeVars    == <<shutdown, status>>
vars == <<storeVars, exporterVars, closeVars, listeners, calls>>

-----------------------------------------------------------------------------

Init ==
  /\ descriptors = <<>>
  /\ values = [m \in Metrics |-> <<>>]
  /\ exporters = <<>>
  /\ listeners = [m \in Metrics |-> <<>>]
  /\ calls = <<>>
  /\ shutdown = "none"
  /\ status = [e \in Exporters |-> "up"]
  /\ log = <<>>
  /\ announced = [e \in Exporters |-> <<>>]
  /\ received = [e \in Exporters |-> <<>>]
  /\ registeredAt = [e \in Exporters |-> 0]

\* Application code runs: no call is in progress, or a listener is running.
CallerRuns == calls # <<>> => Last(calls).running

\* The registered exporters that have a hook.
With(hook) == {e \in ToSet(exporters) : hook \in Hooks[e]}

\* Mutant of Notified: the loop over the exporters stops at the first that throws.
NotifiedUntilError(hook) ==
  {e \in With(hook) :
     \A i, j \in DOMAIN exporters :
       exporters[j] = e /\ i < j => exporters[i] \notin Faulty \cap With(hook)}

\* What an exporter throws is caught and logged for that exporter alone.
Notified(hook) == With(hook)

-----------------------------------------------------------------------------
(* Descriptors and exporters                                               *)

\* A second registration changes nothing: it returns, or throws on a conflict.
RegisterDescriptor(m) ==
  /\ CallerRuns
  /\ ~ Contains(descriptors, m)
  /\ descriptors' = Append(descriptors, m)
  /\ values' = [values EXCEPT ![m] = <<>>]
  /\ announced' = [e \in Exporters |->
       IF e \in Notified("onDescriptorRegistered") THEN Append(announced[e], m)
       ELSE announced[e]]
  /\ UNCHANGED <<log, exporters, received, registeredAt, closeVars, listeners, calls>>

\* The exporter is told of every descriptor there is.  The modules register their
\* exporter once, in onModuleInit.
RegisterExporter(e) ==
  /\ CallerRuns
  /\ ~ Contains(exporters, e)
  /\ exporters' = Append(exporters, e)
  /\ registeredAt' = [registeredAt EXCEPT ![e] = Len(log)]
  /\ announced' = IF "onDescriptorRegistered" \in Hooks[e]
                  THEN [announced EXCEPT ![e] = descriptors]
                  ELSE announced
  /\ UNCHANGED <<storeVars, received, closeVars, listeners, calls>>

-----------------------------------------------------------------------------
(* Recording                                                               *)

\* push, then shift when the array has become too long.
Pushed(window, v) ==
  IF Len(window) + 1 > MaxValues THEN Tail(Append(window, v)) ELSE Append(window, v)

\* Mutant of Pushes: SupportsEventBased is not asked.
PushesToAll == Notified("onMetricRecorded")

\* The exporters that are given a value.
Pushes == Notified("onMetricRecorded") \cap EventBased

\* The loop over the listeners.  Its history fields are those it called and those
\* unsubscribed while it ran.
NewCall(m) ==
  [metric |-> m, next |-> 1, running |-> FALSE, called |-> <<>>, gone |-> {}]

\* RecordMetric up to the loop over the listeners.  An unknown name throws, with
\* no effect.
RecordMetric(m) ==
  /\ CallerRuns
  /\ Contains(descriptors, m)
  /\ Len(log) < MaxRecorded
  /\ Len(calls) < MaxDepth
  /\ log' = Append(log, m)
  /\ values' = [values EXCEPT ![m] = Pushed(@, Len(log) + 1)]
  /\ received' = [e \in Exporters |->
       IF e \in Pushes THEN Append(received[e], Len(log) + 1) ELSE received[e]]
  /\ calls' = Append(calls, NewCall(m))
  /\ UNCHANGED <<descriptors, exporters, announced, registeredAt, closeVars, listeners>>

Call == Last(calls)
LoopEnds == Call.next > Len(listeners[Call.metric])

\* for (const Handler of NamedListeners): the array is read as it is now.
CallHandler ==
  /\ calls # <<>>
  /\ ~ Call.running
  /\ ~ LoopEnds
  /\ calls' = [calls EXCEPT ![Len(calls)] =
       [Call EXCEPT !.next = @ + 1,
                    !.running = TRUE,
                    !.called = Append(@, listeners[Call.metric][Call.next])]]
  /\ UNCHANGED <<storeVars, exporterVars, closeVars, listeners>>

\* The handler returns, or throws: the error is logged and the loop goes on.
HandlerReturns ==
  /\ calls # <<>>
  /\ Call.running
  /\ calls' = [calls EXCEPT ![Len(calls)].running = FALSE]
  /\ UNCHANGED <<storeVars, exporterVars, closeVars, listeners>>

RecordMetricReturns ==
  /\ calls # <<>>
  /\ ~ Call.running
  /\ LoopEnds
  /\ calls' = Front(calls)
  /\ UNCHANGED <<storeVars, exporterVars, closeVars, listeners>>

-----------------------------------------------------------------------------
(* Listeners                                                               *)

\* Mutant of On: a new handler is put in front.
OnInFront(m, h) ==
  /\ CallerRuns
  /\ Len(listeners[m]) < MaxListeners
  /\ listeners' = [listeners EXCEPT ![m] = <<h>> \o @]
  /\ UNCHANGED <<storeVars, exporterVars, closeVars, calls>>

On(m, h) ==
  /\ CallerRuns
  /\ Len(listeners[m]) < MaxListeners
  /\ listeners' = [listeners EXCEPT ![m] = Append(@, h)]
  /\ UNCHANGED <<storeVars, exporterVars, closeVars, calls>>

\* The function On returned: the first occurrence of the handler is spliced out
\* of the array, under the loops that read it.
Unsubscribe(m, h) ==
  /\ CallerRuns
  /\ Contains(listeners[m], h)
  /\ listeners' = [listeners EXCEPT ![m] = RemoveFirst(@, h)]
  /\ calls' = [k \in DOMAIN calls |->
       IF calls[k].metric = m THEN [calls[k] EXCEPT !.gone = @ \cup {h}] ELSE calls[k]]
  /\ UNCHANGED <<storeVars, exporterVars, closeVars>>

-----------------------------------------------------------------------------
(* Shutdown                                                                *)

Rejected == \E e \in Exporters : status[e] = "rejected"

\* Every shutdown hook is called: it is done or still closing when it returns,
\* or throws, which is logged.
Shutdown ==
  /\ CallerRuns
  /\ shutdown = "none"
  /\ shutdown' = "pending"
  /\ status' \in {s \in [Exporters -> {"up", "closing", "closed", "failed"}] :
                    \A e \in Exporters :
                      /\ s[e] = "up" <=> e \notin Notified("shutdown")
                      /\ s[e] = "failed" => e \in Faulty}
  /\ UNCHANGED <<storeVars, exporterVars, listeners, calls>>

\* The promise of an exporter settles.
ShutdownSettles(e) ==
  /\ calls = <<>>
  /\ status[e] = "closing"
  /\ \E result \in {"closed"} \cup (IF e \in Faulty THEN {"rejected"} ELSE {}) :
       status' = [status EXCEPT ![e] = result]
  /\ UNCHANGED <<storeVars, exporterVars, shutdown, listeners, calls>>

\* Mutant of ShutdownResolves: the first exporter that is done settles it.
ShutdownResolvesEarly ==
  /\ calls = <<>>
  /\ shutdown = "pending"
  /\ ~ Rejected
  /\ \E e \in Exporters : status[e] = "closed"
  /\ shutdown' = "resolved"
  /\ UNCHANGED <<storeVars, exporterVars, status, listeners, calls>>

\* Promise.all waits for every promise, and is rejected with the first rejection.
ShutdownResolves ==
  /\ calls = <<>>
  /\ shutdown = "pending"
  /\ ~ Rejected
  /\ \A e \in Exporters : status[e] # "closing"
  /\ shutdown' = "resolved"
  /\ UNCHANGED <<storeVars, exporterVars, status, listeners, calls>>

ShutdownRejects ==
  /\ calls = <<>>
  /\ shutdown = "pending"
  /\ Rejected
  /\ shutdown' = "rejected"
  /\ UNCHANGED <<storeVars, exporterVars, status, listeners, calls>>

-----------------------------------------------------------------------------

Next ==
  \/ \E m \in Metrics :
       \/ RegisterDescriptor(m)
       \/ RecordMetric(m)
       \/ \E h \in Handlers : On(m, h) \/ Unsubscribe(m, h)
  \/ \E e \in Exporters : RegisterExporter(e) \/ ShutdownSettles(e)
  \/ CallHandler
  \/ HandlerReturns
  \/ RecordMetricReturns
  \/ Shutdown
  \/ ShutdownResolves
  \/ ShutdownRejects

Spec == Init /\ [][Next]_vars

-----------------------------------------------------------------------------
(* Properties                                                              *)

CallRecords == [metric : Metrics, next : Nat \ {0}, running : BOOLEAN,
                called : Seq(Handlers), gone : SUBSET Handlers]

\* Every variable holds a value of its kind.
TypeOK ==
  /\ descriptors \in Seq(Metrics)
  /\ values \in [Metrics -> Seq(Nat)]
  /\ exporters \in Seq(Exporters)
  /\ listeners \in [Metrics -> Seq(Handlers)]
  /\ calls \in Seq(CallRecords)
  /\ shutdown \in {"none", "pending", "resolved", "rejected"}
  /\ status \in [Exporters -> {"up", "closing", "closed", "failed", "rejected"}]
  /\ log \in Seq(Metrics)
  /\ announced \in [Exporters -> Seq(Metrics)]
  /\ received \in [Exporters -> Seq(Nat)]
  /\ registeredAt \in [Exporters -> Nat]

\* The positions in log of the values of metric m.
RecordedOf(m) == {k \in DOMAIN log : log[k] = m}

\* A window holds the newest of the values in all, in order, as many as fit.
KeepsNewest(window, all) ==
  /\ ToSet(window) \subseteq all
  /\ \A i, j \in DOMAIN window : i < j => window[i] < window[j]
  /\ \A k \in all \ ToSet(window) :
       Len(window) = MaxValues /\ \A i \in DOMAIN window : k < window[i]
  /\ Len(window) <= MaxValues

\* "In-memory values with rolling window": what the registry keeps of a metric is
\* the newest MaxValues of its values in the order of recording, also when
\* listeners record while a value is delivered.
WindowKeepsNewest == \A m \in Metrics : KeepsNewest(values[m], RecordedOf(m))

\* "The exporter's onDescriptorRegistered method is called immediately for all
\* already-registered descriptors" (lines 365-366) and on every later one: an exporter has
\* been told of each descriptor exactly once, in order, whichever came first.
AnnouncedOnce ==
  \A e \in ToSet(exporters) :
    announced[e] = IF "onDescriptorRegistered" \in Hooks[e] THEN descriptors ELSE <<>>

\* The registry's bookkeeping: what it keeps of each metric and what it has told each
\* exporter, also when listeners record and exporters throw in the middle of it.
BookkeepingExact == TypeOK /\ WindowKeepsNewest /\ AnnouncedOnce

\* "If the exporter supports event-based notifications, it will receive calls to
\* onMetricRecorded for each metric recorded after registration" (lines 362-363), in the
\* order of recording and none twice, however listeners nest and whichever
\* exporter throws.  The others receive nothing.
ReceivesEach ==
  \A e \in Exporters :
    received[e] = IF Contains(exporters, e) /\ e \in EventBased
                  THEN [k \in 1..(Len(log) - registeredAt[e]) |-> registeredAt[e] + k]
                  ELSE <<>>

\* The loop over the listeners of call c is over.
Ended(c) == ~ c.running /\ c.next > Len(listeners[c.metric])

\* Unless someone unsubscribed meanwhile, a value has been delivered to every
\* listener exactly once and in order of subscription, also to those that
\* subscribed during the delivery.
DeliveredOnce ==
  \A k \in DOMAIN calls :
    Ended(calls[k]) /\ calls[k].gone = {} => calls[k].called = listeners[calls[k].metric]

\* "Promise that resolves when all exporters have been shut down" (line 405): when it
\* does, every exporter with a hook that was there has finished, or has failed
\* on its own.
ShutdownCompletes ==
  /\ shutdown = "resolved" => \A e \in Exporters : status[e] \in {"up", "closed", "failed"}
  /\ shutdown \in {"resolved", "rejected"} =>
       \A i, j \in DOMAIN exporters :
         i < j /\ status[exporters[j]] # "up" /\ "shutdown" \in Hooks[exporters[i]]
           => status[exporters[i]] # "up"
=============================================================================
