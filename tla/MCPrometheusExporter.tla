------------------------ MODULE MCPrometheusExporter -------------------------
(* Small instances of PrometheusExporter for TLC.                          *)
EXTENDS PrometheusExporter, TLC

CONSTANTS c, u, k1, k2, l1, l2

MCType == [m \in Metrics |-> IF m = c THEN "counter" ELSE "updown_counter"]

\* Every key is a series of its own.
OwnSeries == [k \in Keys |-> IF k = k1 THEN l1 ELSE l2]

Symmetry == Permutations(Scrapes)

Signed == {-1, 2}
=============================================================================
