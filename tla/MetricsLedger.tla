---------------------------- MODULE MetricsLedger ----------------------------
(***************************************************************************)
(* What an exporter of counters promises its scraper: every series has a   *)
(* total of what was recorded, a scrape reports of each series a value it  *)
(* had while the scrape was under way, and what one scrape could see is    *)
(* never taken back.  A value that no scrape could see yet may be lost,    *)
(* under overload and at shutdown.                                         *)
(***************************************************************************)
EXTENDS Integers

CONSTANTS
  Counters,   \* the counter metrics
  Series,     \* the label sets of a metric
  Amounts,    \* the values recorded
  Scrapes     \* the scrapes, each made once

VARIABLES
  total,      \* total[m][l]: the sum of the values recorded and not lost
  reported,   \* reported[m][l]: the total when the latest scrape began
  begun,      \* the scrapes that have begun
  floor,      \* floor[s][m][l]: the total when scrape s began
  result      \* result[s][m][l]: what scrape s reports

vars == <<total, reported, begun, floor, result>>

Zero == [m \in Counters |-> [l \in Series |-> 0]]

Init ==
  /\ total = Zero
  /\ reported = Zero
  /\ begun = {}
  /\ floor = [s \in Scrapes |-> Zero]
  /\ result = [s \in Scrapes |-> Zero]

\* Between what was reported and what the values add up to.
Between(low, t, high) == \A l \in Series : t[l] \in low[l]..high[l]

\* A value is recorded in one series; older ones may give way to it.
Record(m, l, a) ==
  /\ \A n \in Counters \ {m} : total'[n] = total[n]
  /\ Between(reported[m], total'[m], [total[m] EXCEPT ![l] = @ + a])
  /\ UNCHANGED <<reported, begun, floor, result>>

Lose ==
  /\ \A m \in Counters : Between(reported[m], total'[m], total[m])
  /\ UNCHANGED <<reported, begun, floor, result>>

Begin(s) ==
  /\ s \notin begun
  /\ begun' = begun \cup {s}
  /\ reported' = total
  /\ floor' = [floor EXCEPT ![s] = total]
  /\ UNCHANGED <<total, result>>

Read(s, m) ==
  /\ s \in begun
  /\ Between(floor[s][m], result'[s][m], total[m])
  /\ result' = [result EXCEPT ![s][m] = result'[s][m]]
  /\ UNCHANGED <<total, reported, begun, floor>>

Next ==
  \/ \E m \in Counters, l \in Series, a \in Amounts \cap Nat : Record(m, l, a)
  \/ Lose
  \/ \E s \in Scrapes : Begin(s) \/ \E m \in Counters : Read(s, m)

Spec == Init /\ [][Next]_vars
=============================================================================
