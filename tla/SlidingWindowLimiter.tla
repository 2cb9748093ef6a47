------------------------ MODULE SlidingWindowLimiter ------------------------
(***************************************************************************)
(* What the CSRF token limiter promises: every request it evaluates gets   *)
(* the one right decision, taken over all admissions of the last Window.   *)
(* A request is turned away as "busy" when MaxTrackedIps addresses were    *)
(* admitted in the window, as "limited" when its own address used up its   *)
(* RateLimitCount, and is admitted otherwise.                              *)
(***************************************************************************)
EXTENDS Naturals, FiniteSets

CONSTANTS
  Requests,
  Ips,
  RateLimitCount,
  Window,
  MaxTrackedIps

VARIABLES
  now,
  from,      \* from[r]: the address request r came from
  counted,   \* the requests admitted since the limiter was last reset
  stamp,     \* stamp[r]: when r was admitted
  decision   \* decision[r]: "none" | "admitted" | "limited" | "busy"

vars == <<now, from, counted, stamp, decision>>

\* The admissions of address i that still count.
InWindow(i) == {q \in counted : from[q] = i /\ now - stamp[q] < Window}

Overloaded == Cardinality({i \in Ips : InWindow(i) # {}}) >= MaxTrackedIps
Limited(i) == Cardinality(InWindow(i)) >= RateLimitCount

Init ==
  /\ now = 0
  /\ from \in [Requests -> Ips]
  /\ counted = {}
  /\ stamp = [r \in Requests |-> 0]
  /\ decision = [r \in Requests |-> "none"]

Tick ==
  /\ now' = now + 1
  /\ UNCHANGED <<from, counted, stamp, decision>>

\* A request arrives from some address.
Arrive(r, i) ==
  /\ decision[r] = "none"
  /\ from' = [from EXCEPT ![r] = i]
  /\ UNCHANGED <<now, counted, stamp, decision>>

TurnAway(r) ==
  /\ decision[r] = "none"
  /\ \/ /\ Overloaded
        /\ decision' = [decision EXCEPT ![r] = "busy"]
     \/ /\ ~ Overloaded
        /\ Limited(from[r])
        /\ decision' = [decision EXCEPT ![r] = "limited"]
  /\ UNCHANGED <<now, from, counted, stamp>>

Admit(r) ==
  /\ decision[r] = "none"
  /\ ~ Overloaded
  /\ ~ Limited(from[r])
  /\ decision' = [decision EXCEPT ![r] = "admitted"]
  /\ counted' = counted \cup {r}
  /\ stamp' = [stamp EXCEPT ![r] = now]
  /\ UNCHANGED <<now, from>>

\* The memory of the limiter is lost: it lives in the process.
Reset ==
  /\ counted' = {}
  /\ UNCHANGED <<now, from, stamp, decision>>

Next ==
  \/ Tick
  \/ Reset
  \/ \E r \in Requests :
       TurnAway(r) \/ Admit(r) \/ \E i \in Ips : Arrive(r, i)

Spec == Init /\ [][Next]_vars
=============================================================================
