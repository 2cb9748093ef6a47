---------------------- MODULE MCInstrumentationRegistry ----------------------
(* Small instances of InstrumentationRegistry for TLC.                     *)
EXTENDS InstrumentationRegistry, TLC

\* Exporters with every method of the interface.
FullHooks == [e \in Exporters |-> HookNames]

\* PrometheusExporter and OpenTelemetryExporter: their methods are named
\* OnDescriptorRegistered, OnMetricRecorded and Shutdown.
PascalCaseHooks == [e \in Exporters |-> {}]

Symmetry == Permutations(Metrics) \cup Permutations(Handlers)
=============================================================================
