------------------------------ MODULE KeyLease ------------------------------
(***************************************************************************)
(* What the JWKS cache promises its callers, whatever it does inside: a    *)
(* signing key is a lease.  Keycloak grants the lease when the key is      *)
(* received, the lease lasts Ttl, and a lookup is answered with a key only *)
(* under a running lease.  A lookup may be refused at any time (Keycloak   *)
(* may be unreachable), and every lookup is answered at most once.         *)
(***************************************************************************)
EXTENDS Naturals

CONSTANTS
  Callers,   \* the validations that look keys up
  Kids,      \* key identifiers
  Ttl,       \* how long a received key may be used
  Null       \* not a time: the key was never received

VARIABLES
  now,       \* the clock
  leasedAt,  \* leasedAt[k]: when key k was last received
  lookup,    \* lookup[c]: "idle" | "pending" | "found" | "unauthorized"
  wanted     \* wanted[c]: the key of c's last lookup

vars == <<now, leasedAt, lookup, wanted>>

Leased(k) == leasedAt[k] # Null /\ now < leasedAt[k] + Ttl

Init ==
  /\ now = 0
  /\ leasedAt = [k \in Kids |-> Null]
  /\ lookup = [c \in Callers |-> "idle"]
  /\ wanted \in [Callers -> Kids]

Tick ==
  /\ now' = now + 1
  /\ UNCHANGED <<leasedAt, lookup, wanted>>

\* Some keys arrive from Keycloak; their leases start again.
Receive ==
  /\ \E K \in SUBSET Kids :
       leasedAt' = [k \in Kids |-> IF k \in K THEN now ELSE leasedAt[k]]
  /\ UNCHANGED <<now, lookup, wanted>>

\* A lookup answered from the keys at hand.
AnswerAtOnce(c, k) ==
  /\ lookup[c] # "pending"
  /\ Leased(k)
  /\ lookup' = [lookup EXCEPT ![c] = "found"]
  /\ wanted' = [wanted EXCEPT ![c] = k]
  /\ UNCHANGED <<now, leasedAt>>

Ask(c, k) ==
  /\ lookup[c] # "pending"
  /\ lookup' = [lookup EXCEPT ![c] = "pending"]
  /\ wanted' = [wanted EXCEPT ![c] = k]
  /\ UNCHANGED <<now, leasedAt>>

Grant(c) ==
  /\ lookup[c] = "pending"
  /\ Leased(wanted[c])
  /\ lookup' = [lookup EXCEPT ![c] = "found"]
  /\ UNCHANGED <<now, leasedAt, wanted>>

Refuse(c) ==
  /\ lookup[c] = "pending"
  /\ lookup' = [lookup EXCEPT ![c] = "unauthorized"]
  /\ UNCHANGED <<now, leasedAt, wanted>>

Next ==
  \/ Tick
  \/ Receive
  \/ \E c \in Callers :
       \/ Grant(c)
       \/ Refuse(c)
       \/ \E k \in Kids : AnswerAtOnce(c, k) \/ Ask(c, k)

Spec == Init /\ [][Next]_vars
=============================================================================
