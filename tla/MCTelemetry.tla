------------------------------ MODULE MCTelemetry ------------------------------
(* The parts share no state: a behaviour of the whole is an interleaving       *)
(* of theirs, and a property of one sees only its steps.  So each behaviour    *)
(* looks at one part.                                                          *)
EXTENDS Tracing, OtelMetrics, ProfilingMetrics, MetricsRegistryService

Text(personal, digits) == [is |-> "text", personal |-> personal, digits |-> digits]
Card == <<4, 1, 1, 1, 1, 1, 1, 1, 1, 1, 1, 1, 1, 1, 1, 1>>
NoCard == [Card EXCEPT ![3] = 2]
Number16 == [is |-> "number", digits |-> Card]
Other(is) == [is |-> is]
List(items) == [is |-> "list", items |-> items]
Plain == [span |-> "none", returns |-> "promise", timing |-> <<>>, counters |-> <<>>, errorCounters |-> <<>>,
          labels |-> {<<"id">>}, args |-> <<>>, captureReturn |-> FALSE, result |-> Other("null")]

\* find and query conflict over a name, and calls of list with the lists of its labels.
MCDecorated ==
  [find |-> [Plain EXCEPT !.span = "traced", !.timing = <<"find_seconds">>, !.counters = <<"find_total">>,
               !.errorCounters = <<"errors">>,
               !.args = <<Text(TRUE, Card), List(<<Text(TRUE, NoCard), Number16, Text(FALSE, Card)>>), Other("object")>>],
   check |-> [Plain EXCEPT !.span = "traced", !.returns = "value", !.counters = <<"check_total">>,
               !.errorCounters = <<"check_errors">>,
               !.args = <<Text(FALSE, NoCard), List([k \in 1 .. 6 |-> Text(TRUE, <<>>)]), Number16, Other("null"),
                          List(<<Text(TRUE, <<>>), Other("boolean")>>), Other("function")>>,
               !.captureReturn = TRUE, !.result = Text(TRUE, <<>>)],
   list |-> [Plain EXCEPT !.errorCounters = <<"list_errors">>, !.labels = {<<>>, <<"id">>}],
   load |-> [Plain EXCEPT !.span = "withSpan"],
   query |-> [Plain EXCEPT !.span = "traced", !.returns = "thenable", !.counters = <<"query_total">>, !.errorCounters = <<"errors">>,
               !.result = Other("object")]]
Symmetry == Permutations(Calls)
MCMethods == DOMAIN MCDecorated
MCMetrics == UNION {ToSet(Named(m)) : m \in MCMethods}

MCDurations == {-1, 0, 5}
MCPushed == [load |-> "gauge", hits |-> "counter"]
\* A status of 200 and one of "200" are written alike.
MCLabelSets == {"status 200", "status '200'", "status 404"}
MCGaugeKey == [n \in DOMAIN MCPushed |-> [l \in MCLabelSets |-> <<n, IF l = "status 404" THEN "status=404" ELSE "status=200">>]]

MCKind == [http_total |-> "counter", orders |-> "counter", stock |-> "gauge"]
MCCollectors == [shop |-> <<"orders", "stock">>, store |-> <<"stock", "orders">>, double |-> <<"stock", "http_total">>]

VARIABLE part

MCInit ==
  /\ part \in {"tracing", "http", "push", "profiling", "retry", "registry"}
  /\ TracingInit /\ OtelInit /\ ProfilingInit /\ RegistryInit
  /\ part # "tracing" => holder
  /\ part # "registry" => enabled
MCNext ==
  /\ UNCHANGED part
  /\ \/ part = "tracing" /\ Tracing /\ UNCHANGED <<otelVars, profilingVars, registryVars>>
     \/ part = "http" /\ HttpNext /\ UNCHANGED <<tracingVars, profilingVars, registryVars>>
     \/ part = "push" /\ PushNext /\ UNCHANGED <<tracingVars, profilingVars, registryVars>>
     \/ part = "profiling" /\ Counting /\ UNCHANGED <<tracingVars, otelVars, registryVars>>
     \/ part = "retry" /\ Retrying /\ UNCHANGED <<tracingVars, otelVars, registryVars>>
     \/ part = "registry" /\ RegistryNext /\ UNCHANGED <<tracingVars, otelVars, profilingVars>>
MCSpec == MCInit /\ [][MCNext]_<<part, tracingVars, otelVars, profilingVars, registryVars>>
=============================================================================
