--------------------------- MODULE MCRequestPipeline ---------------------------
(* One request at a time: nothing is shared by two.  The inputs vary one thing  *)
(* after the other, the graphs are a tree, a deep chain, cycles and an object   *)
(* met twice.                                                                   *)
EXTENDS RequestPipeline

Leaf(k) == [key |-> k, val |-> 0]
Ref(k, n) == [key |-> k, val |-> n]

Tree   == <<<<Leaf("id"), Ref("user", 2), Leaf("password")>>, <<Leaf("id"), Ref("token", 3)>>, <<Leaf("id")>>>>
Chain  == <<<<Ref("user", 2), Leaf("id")>>, <<Leaf("pin"), Ref("user", 3)>>, <<Leaf("id"), Ref("user", 4)>>,
            <<Leaf("id"), Leaf("token")>>>>
Deep   == <<<<Ref("a", 2)>>, <<Ref("a", 3)>>, <<Ref("a", 4)>>, <<Ref("a", 5)>>, <<Leaf("id")>>>>
Cycle  == <<<<Leaf("id"), Ref("self", 1), Ref("user", 2)>>, <<Ref("owner", 1), Leaf("password")>>>>
Shared == <<<<Ref("token", 2), Ref("user", 2), Ref("owner", 2)>>, <<Leaf("id"), Leaf("password")>>>>

Back   == <<<<Ref("user", 2), Ref("item", 3)>>, <<Ref("owner", 1)>>, <<Leaf("id")>>>>

Query  == <<<<Leaf("_where"), Ref("user", 2), Leaf("$where")>>, <<Ref("constructor", 3), Leaf("id")>>, <<Leaf("$where"), Leaf("constructor_proto__")>>>>
MCHarmful == {"$where", "constructor"}
MCRenamed ==
  ("$where" :> "_where") @@ ("constructor" :> "_redacted_") @@ ("constructor_proto__" :> "_redacted__proto__")
  @@ ("_redacted__proto__" :> "_redacted_redacted_")

MCFailures ==
  { BaseApplicationError([status |-> 404, code |-> "NOT_FOUND", context |-> g]) : g \in {Tree, Chain, Cycle, Shared} }
  \cup { WithContext(CreateError([status |-> 409, code |-> "CONFLICT"], {"connection"}, Tree), Shared, gen) :
           gen \in BOOLEAN }
  \cup { WithMessage(BaseApplicationError([words |-> {}]), {"rate limit"}, FALSE) }
  \cup { NewError("http", s, w) : s \in {404, 500, 503}, w \in {{}, {"connection", "database"}} }
  \cup { NewError("http", 503, {"not found"}), [NewError("error", 404, {"not found"}) EXCEPT !.code = "ECONNRESET"] }
  \cup { [NewError("http", 422, {"validation"}) EXCEPT !.bare = TRUE, !.context = Cycle] }
  \cup { NewError("error", 0, {"timeout"}), [NewError("error", 0, {}) EXCEPT !.code = "EPIPE"],
         NewError("thrown", 0, {}) }

MCNotes == {[call |-> c, g |-> g] : c \in {"metadata", "context", "options", "trace"}, g \in {Tree, Chain, Cycle, Shared, Back}}
           \cup {[call |-> c, g |-> NoGraph] : c \in {"framework", "bare", "verbose", "attempt", "success", "failed"}}

Plain == [method |-> "GET", path |-> "/items", origin |-> "none", body |-> "none", payload |-> NoGraph,
          guard |-> "none", credential |-> FALSE, dto |-> "valid", instrumented |-> TRUE, client |-> FALSE, void |-> FALSE,
          filtered |-> FALSE]
MCInputs ==
  {Plain, [Plain EXCEPT !.client = TRUE], [Plain EXCEPT !.client = TRUE, !.void = TRUE], [Plain EXCEPT !.dto = "invalid"], [Plain EXCEPT !.filtered = TRUE],
   [Plain EXCEPT !.path = "/health", !.instrumented = FALSE]}
  \cup {[Plain EXCEPT !.origin = o] : o \in {"localhost", "studio", "configured", "other"}}
  \cup {[Plain EXCEPT !.method = "POST", !.body = b] : b \in {"malformed", "large"}}
  \cup {[Plain EXCEPT !.method = "POST", !.body = "json", !.payload = g] : g \in {Tree, Query, Deep}}
  \cup {[Plain EXCEPT !.method = m, !.guard = "csrf", !.credential = c] : m \in {"GET", "POST"}, c \in BOOLEAN}
  \cup {[Plain EXCEPT !.path = "/metrics", !.guard = "metrics", !.credential = c] : c \in BOOLEAN}

Usual == [production |-> TRUE, configFound |-> TRUE, metricsFound |-> TRUE, metricsEnabled |-> TRUE,
          metricsKey |-> TRUE, mongo |-> TRUE, xss |-> TRUE, queryAssignable |-> TRUE, cors |-> TRUE,
          order |-> <<"global", "http">>, level |-> "info"]
MCDeployments ==
  {Usual, [Usual EXCEPT !.production = FALSE, !.level = "debug"],
   [Usual EXCEPT !.order = <<"http", "global">>, !.level = "verbose"],
   [Usual EXCEPT !.production = FALSE, !.order = <<"http", "global">>, !.metricsKey = FALSE],
   [Usual EXCEPT !.configFound = FALSE], [Usual EXCEPT !.metricsFound = FALSE],
   [Usual EXCEPT !.metricsEnabled = FALSE, !.level = "error"],
   [Usual EXCEPT !.queryAssignable = FALSE],
   [Usual EXCEPT !.queryAssignable = FALSE, !.xss = FALSE, !.cors = FALSE, !.mongo = FALSE, !.level = "silent"]}
=============================================================================
