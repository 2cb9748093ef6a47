------------------------------ MODULE ObjectWalk ------------------------------
(***************************************************************************)
(* The walk over an object graph that the error sanitizer and the logger   *)
(* of nestjs-shared share in shape: redact by key, cut at a depth, expand  *)
(* an object once.                                                         *)
(*                                                                         *)
(* A graph is a sequence of objects, the first of them the root; an object *)
(* is a sequence of entries [key, val], where val is the place of another  *)
(* object, or 0 for a primitive.  A primitive is named <<object, entry>>.  *)
(***************************************************************************)
EXTENDS Naturals, FiniteSets, SequencesExt

\* What an object refers to is an object of its graph.
Graphs(names) ==
  {g \in Seq(Seq([key : names, val : Nat])) :
     \A n \in DOMAIN g : \A i \in DOMAIN g[n] : g[n][i].val <= Len(g)}

Entries(g) == UNION {{n} \X DOMAIN g[n] : n \in DOMAIN g}
KeyAt(g, e) == g[e[1]][e[2]].key
ValAt(g, e) == g[e[1]][e[2]].val

\* A visit: the first entries of an object that was met at the depth, after the objects
\* that were seen.
Visits(g, p) ==
  {v \in [object : DOMAIN g, upto : Nat, depth : 0 .. p.max, seen : SUBSET DOMAIN g] :
     v.upto <= Len(g[v.object])}

Visit(g, n, depth, seen) == [object |-> n, upto |-> Len(g[n]), depth |-> depth, seen |-> seen]

\* A walk p has the fields
\*   secret   the keys whose value is redacted
\*   max      the depth at which an object is cut
\*   leafMax  the depth at which a primitive is cut
\*   copied   the walk starts from a shallow copy of the root
\* The primitives shown in a visit, and the objects seen after it.  seen grows across
\* siblings: an object met a second time is labelled circular.
Walk(g, p) ==
  LET walk[v \in Visits(g, p)] ==
        IF v.upto = 0 THEN [shown |-> {}, seen |-> v.seen]
        ELSE LET before == walk[[v EXCEPT !.upto = v.upto - 1]]
                 place == <<v.object, v.upto>>
                 n == ValAt(g, place)
                 depth == v.depth + 1
             IN IF KeyAt(g, place) \in p.secret THEN before
                ELSE IF n = 0
                THEN [before EXCEPT !.shown = @ \cup IF depth < p.leafMax THEN {place} ELSE {}]
                ELSE IF n \in before.seen \/ depth >= p.max THEN before
                ELSE LET inner == walk[Visit(g, n, depth, before.seen \cup {n})]
                     IN [shown |-> before.shown \cup inner.shown, seen |-> inner.seen]
  IN walk

Shown(g, p) ==
  IF g = <<>> \/ p.max = 0 THEN {}
  ELSE Walk(g, p)[Visit(g, 1, 0, IF p.copied THEN {} ELSE {1})].shown

-----------------------------------------------------------------------------
(* What the walk is for, stated without walking.                           *)

\* The objects reached from the root by n entries or fewer, none under a secret key.
Reach(g, secret) ==
  LET reach[n \in 0 .. Len(g)] ==
        IF n = 0 THEN {1}
        ELSE LET met == reach[n - 1]
                 open == {e \in Entries(g) : e[1] \in met /\ KeyAt(g, e) \notin secret}
             IN met \cup ({ValAt(g, e) : e \in open} \ {0})
  IN reach

\* The primitives that a reader may see: some path to them has no secret key.
Public(g, secret) ==
  LET met == Reach(g, secret)[Len(g)]
  IN {e \in Entries(g) : e[1] \in met /\ KeyAt(g, e) \notin secret /\ ValAt(g, e) = 0}
=============================================================================
