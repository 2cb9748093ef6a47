--------------------------- MODULE MCGuardPipeline ---------------------------
(* Small instances of GuardPipeline for TLC.                               *)
EXTENDS GuardPipeline, TLC

CONSTANTS good, short, alien, k1, admin

MCKid == [t \in Tokens |-> k1]
MCExpiry == [t \in Tokens |-> IF t = short THEN 1 ELSE 2]
MCRolesOf == [t \in Tokens |-> IF t = short THEN {} ELSE {admin}]
MCAddressed == Tokens \ {alien}

Demand(p, r, q) == [public |-> p, roles |-> r, permissions |-> q]
MCDemands == {Demand(FALSE, {}, {}), Demand(FALSE, {admin}, {}),
              Demand(FALSE, {}, {admin}), Demand(TRUE, {admin}, {})}

Symmetry == Permutations(Executions)
=============================================================================
