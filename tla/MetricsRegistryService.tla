------------------------- MODULE MetricsRegistryService -------------------------
(***************************************************************************)
(* MetricsRegistryService of nestjs-shared with its collectors, and        *)
(* MetricFactory: what GetMetrics exposes.                                 *)
(*                                                                         *)
(* prom-client refuses a name that its registry has.  MetricFactory uses   *)
(* the registry of the process, not that of the service.                   *)
(***************************************************************************)
EXTENDS Integers, FiniteSets, SequencesExt

CONSTANTS
  Names,          \* names of metrics
  HttpNames,      \* those of the HTTP metrics
  Kind,           \* Kind[n]: "counter" | "gauge" | "histogram"
  Collectors,     \* Collectors[k]: the names that InitializeMetrics registers, in order
  MaxEvents       \* bound on the events of a behaviour

Kinds == {"counter", "gauge", "histogram"}

\* The HTTP metrics are metrics of the registry; a collector registers metrics, and is
\* named as no other owner is.
ASSUME MetricsAssumption ==
  /\ HttpNames \subseteq Names
  /\ Kind \in [Names -> Kinds]
  /\ \A k \in DOMAIN Collectors : Collectors[k] \in Seq(Names)
  /\ DOMAIN Collectors \cap {"none", "service", "application"} = {}

VARIABLES
  enabled,        \* Enabled
  exposed,        \* exposed[n]: the owner and the observations of a metric of the Registry
  attached,       \* the HTTP metrics of the service are those of the Registry
  process,        \* the names in the registry of the process
  collectors,     \* collectors[k]: "none" | "built" | "failed"
  events          \* history

registryVars == <<enabled, exposed, attached, process, collectors, events>>

Absent == [owner |-> "none", count |-> 0]
Created(owner) == [owner |-> owner, count |-> 0]

RegistryInit ==
  /\ enabled \in BOOLEAN
  /\ exposed = [n \in Names |-> IF enabled /\ n \in HttpNames THEN Created("service") ELSE Absent]
  /\ attached = enabled
  /\ process = {}
  /\ collectors = [k \in DOMAIN Collectors |-> "none"]
  /\ events = <<>>

Happens(what, n) ==
  Len(events) < MaxEvents /\ events' = Append(events, [what |-> what, name |-> n])

\* After Clear the metrics of the service are still there, but nobody sees them.
RecordHttpRequest ==
  /\ Happens("http", "none")
  /\ exposed' = IF enabled /\ attached
                THEN [n \in Names |-> IF n \in HttpNames THEN [exposed[n] EXCEPT !.count = @ + 1] ELSE exposed[n]]
                ELSE exposed
  /\ UNCHANGED <<enabled, attached, process, collectors>>

\* What is recorded as of a kind is cast to it: a gauge has the method inc, so
\* RecordCounter adds to it; any other metric of another kind lacks the method.
Accepts(kind, n) == Kind[n] = kind \/ (kind = "counter" /\ Kind[n] = "gauge")

\* RecordCounter, RecordGauge and RecordHistogram: an unknown name is a warning, a
\* metric without the method an error that is logged.
Record(kind, n) ==
  /\ Happens(kind, n)
  /\ exposed' = IF enabled /\ exposed[n] # Absent /\ Accepts(kind, n)
                THEN [exposed EXCEPT ![n].count = @ + 1] ELSE exposed
  /\ UNCHANGED <<enabled, attached, process, collectors>>

\* CreateCounter, CreateGauge and CreateHistogram, also when metrics are disabled.
Create(n) ==
  /\ Happens("create", n)
  /\ exposed' = IF exposed[n] = Absent THEN [exposed EXCEPT ![n] = Created("application")] ELSE exposed
  /\ UNCHANGED <<enabled, attached, process, collectors>>

\* Mutant of Taken: a collector is given the metric that is there.
TakenNever(names) == {}

Taken(names) == {k \in DOMAIN names : exposed[names[k]] # Absent \/ \E j \in 1 .. k - 1 : names[j] = names[k]}

\* A collector registers its metrics in its constructor; when one is refused it does not
\* come to be, and those before remain.
BuildCollector(k) ==
  /\ collectors[k] # "built"
  /\ Happens("build", "none")
  /\ LET names == Collectors[k]
         made == IF Taken(names) = {} THEN ToSet(names)
                 ELSE {names[i] : i \in 1 .. Min(Taken(names)) - 1}
     IN /\ exposed' = [n \in Names |-> IF n \in made THEN Created(k) ELSE exposed[n]]
        /\ collectors' = [collectors EXCEPT ![k] = IF Taken(names) = {} THEN "built" ELSE "failed"]
  /\ UNCHANGED <<enabled, attached, process>>

\* MetricFactory, and RegisterMetric of what it made: a metric of prom-client has no
\* method register, so nothing is registered.
FactoryCreate(n) ==
  /\ n \notin process
  /\ Happens("factory", n)
  /\ process' = process \cup {n}
  /\ UNCHANGED <<enabled, exposed, attached, collectors>>

RegisterMetric(n) == n \in process /\ UNCHANGED registryVars

Clear ==
  /\ Happens("clear", "none")
  /\ exposed' = [n \in Names |-> Absent]
  /\ attached' = FALSE
  /\ UNCHANGED <<enabled, process, collectors>>

RegistryNext ==
  \/ RecordHttpRequest
  \/ \E n \in Names : \/ \E kind \in Kinds : Record(kind, n)
                      \/ Create(n)
                      \/ FactoryCreate(n)
                      \/ RegisterMetric(n)
  \/ \E k \in DOMAIN Collectors : BuildCollector(k)
  \/ Clear

RegistrySpec == RegistryInit /\ [][RegistryNext]_registryVars

-----------------------------------------------------------------------------
(* Properties                                                              *)

\* Events that a metric counts: those recorded of it by a method that it has, and the
\* requests.
EventsOf(n) == [what : {k \in Kinds : Accepts(k, n)}, name : {n}]
HttpEvents == [what : {"http"}, name : {"none"}]

\* How many there are of them in s after its position p.
CountAfter(p, s, these) == Cardinality({i \in p + 1 .. Len(s) : s[i] \in these})

\* The events since the last Clear.
SinceClear(s) == SubSeq(s, Max({0} \cup {i \in DOMAIN s : s[i].what = "clear"}) + 1, Len(s))
Since == SinceClear(events)

Creations(n, s) == {i \in DOMAIN s : s[i].what = "create" /\ s[i].name = n}

\* What is exposed of an application's metric is what was recorded of it since it was
\* created, and an HTTP metric counts the requests since the start and is not seen again
\* after a Clear.  What RecordCounter adds to a gauge is recorded of it; nothing else
\* that is recorded under a wrong kind is.
ExposedIsRecorded ==
  \A n \in Names :
    /\ exposed[n].owner = "service" =>
         Since = events /\ exposed[n].count = CountAfter(0, events, HttpEvents \cup EventsOf(n))
    /\ exposed[n].owner = "application" =>
         exposed[n].count = IF enabled THEN CountAfter(Min(Creations(n, Since)), Since, EventsOf(n)) ELSE 0

\* A collector that was built owns every one of its metrics until they are cleared, so
\* no two collectors share one, nor does one share it with the service.
CollectorsOwnTheirMetrics ==
  \A k \in DOMAIN Collectors :
    collectors[k] = "built" /\ Since = events => \A n \in ToSet(Collectors[k]) : exposed[n].owner = k

\* What is exposed is what was recorded, by the owner of each metric.
ExposureIsExact == ExposedIsRecorded /\ CollectorsOwnTheirMetrics
=============================================================================
