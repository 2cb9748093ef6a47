---------------------------- MODULE RequestPipeline ----------------------------
(***************************************************************************)
(* An HTTP request through an application built on nestjs-shared: the      *)
(* middleware of ApplySecurityMiddleware, a guard, the interceptors of     *)
(* CommonModule around the validation pipe and the handler, an outgoing    *)
(* call of HttpClientService that the handler awaits, the exception        *)
(* filters, the log and the metrics.                                       *)
(*                                                                         *)
(* in[r] is what arrives: method, path, origin, body ("none", "json",      *)
(* "malformed", "large"), payload (the graph of a JSON body), guard (of    *)
(* the route), credential (what the guard asks for is right), dto,         *)
(* instrumented (the route has HTTPInstrumentationInterceptor), client (it  *)
(* has HttpClientInterceptor, innermost), void (its handler returns null)  *)
(* and filtered (the route has HttpExceptionFilter itself).                *)
(***************************************************************************)
EXTENDS ErrorHandling, HttpClient

CONSTANTS
  Requests,
  Inputs,        \* what may arrive
  Deployments,   \* the deployments examined
  Failures,      \* exceptions that a handler throws
  Notes,         \* what a handler logs: [call, g]
  Renamed,       \* Renamed[k]: what becomes of a key that starts with $ or holds a dangerous name
  Harmful,       \* the keys that start with $ or are a dangerous name
  NoInput

InputRecords ==
  [method : {"GET", "POST"}, path : {"/items", "/health", "/metrics"}, origin : STRING,
   body : {"none", "json", "malformed", "large"}, payload : Graphs(STRING),
   guard : {"none", "csrf", "metrics"}, credential : BOOLEAN, dto : {"valid", "invalid"},
   instrumented : BOOLEAN, client : BOOLEAN, void : BOOLEAN, filtered : BOOLEAN]

DeploymentRecords ==
  [production : BOOLEAN, configFound : BOOLEAN, metricsFound : BOOLEAN, metricsEnabled : BOOLEAN,
   mongo : BOOLEAN, xss : BOOLEAN, queryAssignable : BOOLEAN, cors : BOOLEAN, metricsKey : BOOLEAN,
   order : {<<"global", "http">>, <<"http", "global">>}, level : STRING]

NoteRecords ==
  [call : {"metadata", "context", "options", "trace", "attempt", "success", "failed", "framework",
           "bare", "verbose"},
   g : Graphs(STRING)]

\* Both filters are registered, and who throws an application error or an HttpException
\* gives it the status of an error.
ASSUME PipelineAssumption ==
  /\ Requests \subseteq Calls
  /\ Inputs \subseteq InputRecords /\ NoInput \notin Inputs
  /\ Deployments \subseteq DeploymentRecords
  /\ Notes \subseteq NoteRecords
  /\ Failures \subseteq Exceptions
  /\ \A e \in Failures : /\ e.class \in {"app", "http", "error", "thrown"}
                         /\ e.class \in {"app", "http"} => e.status \in 400 .. 599
  /\ \A k \in DOMAIN Renamed : k \in STRING /\ Renamed[k] \in STRING

\* The first character is replaced before the names are sought, and what a name is
\* replaced by, '_redacted_', is none itself: no key becomes a harmful one.  It may still
\* hold a name: constructor_proto__ becomes _redacted__proto__.
ASSUME RenamedAssumption ==
  /\ Harmful \subseteq DOMAIN Renamed
  /\ \A k \in DOMAIN Renamed : Renamed[k] \notin Harmful

VARIABLES
  env,       \* the deployment: production, configFound, metricsFound, metricsEnabled,
             \* mongo, xss, queryAssignable,
             \* cors, metricsKey, order (the filters as Nest asks them), level
  app,       \* "starting" | "running" | "failed"
  in,
  cleaned,  \* the payload that the handler is given
  stage,     \* "idle" | "guards" | "pipe" | "handling" | "awaiting" | "answered"
  outcome,   \* what the handler, or what came before it, made of the request
  answer,    \* what is sent
  journal,       \* history: the entries written for r, in order
  samples    \* history: the statuses recorded for r by each interceptor

pipelineVars == <<env, app, in, cleaned, stage, outcome, answer, journal, samples, http>>

-----------------------------------------------------------------------------

NoOutcome == NewError("none", 0, {})
Returned == NewError("returned", 0, {})
NoAnswer == [status |-> 0, statusCode |-> 0, stack |-> FALSE, context |-> NoGraph, message |-> "none"]
IsDevelopment == ~ env.production
MinLevel == ParseLogLevel(env.level)

PipelineInit ==
  /\ env \in Deployments
  /\ app = "starting"
  /\ in = [r \in Requests |-> NoInput]
  /\ cleaned = [r \in Requests |-> NoGraph]
  /\ stage = [r \in Requests |-> "idle"]
  /\ outcome = [r \in Requests |-> NoOutcome]
  /\ answer = [r \in Requests |-> NoAnswer]
  /\ journal = [r \in Requests |-> <<>>]
  /\ samples = [r \in Requests |-> [http |-> <<>>, registry |-> <<>>]]
  /\ HttpInit

\* CommonModule.onModuleInit: without ConfigService the application does not start.
ModuleInit ==
  /\ app = "starting"
  /\ app' = IF env.configFound THEN "running" ELSE "failed"
  /\ UNCHANGED <<env, in, cleaned, stage, outcome, answer, journal, samples, http>>

-----------------------------------------------------------------------------
(* Filters                                                                  *)

Catches(filter, e) ==
  CASE filter = "http"   -> e.class = "http"
    [] filter = "global" -> e.class \in {"app", "http", "error"}

\* The filters of the route come before those of the application, of which Nest asks
\* the one registered last first.
Filtered(i, e) ==
  LET filters == (IF i.filtered THEN <<"http">> ELSE <<>>) \o env.order
      catching == {k \in DOMAIN filters : Catches(filters[k], e)}
  IN IF catching = {} THEN BaseExceptionFilter(MinLevel)
     ELSE IF filters[Min(catching)] = "http" THEN HttpExceptionFilter(e, MinLevel, IsDevelopment)
     ELSE GlobalExceptionFilter(e, MinLevel, IsDevelopment)

\* r is answered with an exception; written is what was logged before the filter.
Fail(r, i, e, written) ==
  LET f == Filtered(i, e)
  IN /\ stage' = [stage EXCEPT ![r] = "answered"]
     /\ answer' = [answer EXCEPT ![r] = f.answer]
     /\ journal' = [journal EXCEPT ![r] = journal[r] \o written \o f.log]

-----------------------------------------------------------------------------
(* Middleware and guards                                                    *)

\* The origins that are allowed: none at all, those of a developer, those configured.
AllowedOrigin(origin) ==
  \/ origin \in {"none", "configured"}
  \/ ~ env.production /\ origin \in {"localhost", "studio"}

\* The depth of what is under each object; a body of JSON has no cycle.
Depth(g) ==
  LET depth[n \in DOMAIN g] ==
        LET inner == {g[n][i].val : i \in DOMAIN g[n]} \ {0}
        IN IF inner = {} THEN 1 ELSE 1 + Max({depth[m] : m \in inner})
  IN depth

SanitizedKey(key) == IF key \in DOMAIN Renamed THEN Renamed[key] ELSE key

\* Mutant of SanitizeObject: the objects below the root keep their keys.
SanitizeRoot(g) ==
  [n \in DOMAIN g |-> IF n = 1 THEN [i \in DOMAIN g[n] |-> [g[n][i] EXCEPT !.key = SanitizedKey(@)]]
                     ELSE g[n]]

\* Every key of every object is renamed; of two keys that become one, the later wins: an
\* entry that was overwritten is listed with the value that it has now.
SanitizeObject(g) ==
  [n \in DOMAIN g |->
     LET key(i) == SanitizedKey(g[n][i].key)
         last(i) == Max({j \in DOMAIN g[n] : key(j) = key(i)})
     IN [i \in DOMAIN g[n] |-> [key |-> key(i), val |-> g[n][last(i)].val]]]

TooDeep(g) == g # NoGraph /\ Depth(g)[1] > MaxSanitizeDepth

\* The first middleware that throws or calls back with an error, in the order of use:
\* body limit, sanitizers, CORS.  Nest makes a BadRequestException of a SyntaxError.
Middleware(i) ==
  IF i.body = "malformed" THEN NewError("http", 400, {})
  ELSE IF i.body = "large" THEN NewError("error", 413, {})
  ELSE IF \/ env.mongo /\ TooDeep(i.payload)
          \/ env.xss /\ ~ env.queryAssignable
          \/ env.cors /\ ~ AllowedOrigin(i.origin)
  THEN NewError("error", 0, {})
  ELSE NoOutcome

Receive(r, i) ==
  /\ app = "running" /\ stage[r] = "idle"
  /\ in' = [in EXCEPT ![r] = i]
  /\ cleaned' = [cleaned EXCEPT ![r] = IF env.mongo THEN SanitizeObject(i.payload) ELSE i.payload]
  /\ LET e == Middleware(i)
     IN IF e = NoOutcome
        THEN stage' = [stage EXCEPT ![r] = "guards"] /\ UNCHANGED <<outcome, answer, journal>>
        ELSE /\ outcome' = [outcome EXCEPT ![r] = e]
             /\ Fail(r, [i EXCEPT !.filtered = FALSE], e, <<>>)
  /\ UNCHANGED <<env, app, samples, http>>

\* CSRFGuard and MetricsGuard: a safe method needs no token, and without a key in the
\* configuration everybody may read the metrics.
Admits(i) ==
  \/ i.guard = "none"
  \/ i.guard = "csrf" /\ (i.method = "GET" \/ i.credential)
  \/ i.guard = "metrics" /\ (~ env.metricsKey \/ i.credential)

\* What the guards write.
GuardLog(i) ==
  CASE i.guard = "csrf" /\ ~ Admits(i) ->
         Audit(MinLevel, "csrf_violation")
         \o Warn(MinLevel, "AppLogger", "csrf", Str("CSRFGuard"), Obj(NoGraph))
    [] i.guard = "metrics" /\ env.metricsKey /\ Admits(i) -> Audit(MinLevel, "metrics_access")
    [] OTHER -> <<>>

\* LoggingInterceptor: health checks and metrics are noise.
LogFn(i, what) ==
  IF i.path \in {"/health", "/metrics"}
  THEN Debug(MinLevel, "AppLogger", what, Str("LoggingInterceptor"), NoArg)
  ELSE Info(MinLevel, "AppLogger", what, Str("LoggingInterceptor"), NoArg)

\* HttpClientInterceptor; the details are given as a string, hence as the context.
ClientRequestLog(i) ==
  IF i.client THEN Debug(MinLevel, "HttpClientInterceptor", "request", Str("details"), NoArg) ELSE <<>>

\* The guard, then the interceptors up to next.handle().
Guards(r) ==
  /\ stage[r] = "guards"
  /\ IF Admits(in[r])
     THEN /\ stage' = [stage EXCEPT ![r] = "pipe"]
          /\ journal' = [journal EXCEPT ![r] = journal[r] \o GuardLog(in[r]) \o LogFn(in[r], "incoming")
                                        \o ClientRequestLog(in[r])]
          /\ UNCHANGED <<outcome, answer>>
     ELSE LET e == NewError("http", 403, {})
          IN outcome' = [outcome EXCEPT ![r] = e] /\ Fail(r, in[r], e, GuardLog(in[r]))
  /\ UNCHANGED <<env, app, in, cleaned, samples, http>>

-----------------------------------------------------------------------------
(* Interceptors                                                             *)

\* The status of the response before any filter has set it.
ResponseStatus(i) == IF i.method = "POST" THEN 201 ELSE 200

\* HttpClientInterceptor reads the status of what the handler returned: from null that
\* throws, which its own catchError logs.
ClientSaw(i, e) ==
  IF i.client /\ i.void /\ e.class = "returned" THEN NewError("error", 0, {}) ELSE e
ClientLog(i, e) ==
  IF ~ i.client THEN <<>>
  ELSE IF ClientSaw(i, e).class = "returned"
  THEN Info(MinLevel, "HttpClientInterceptor", "response", Str("details"), NoArg)
  ELSE Error(MinLevel, "HttpClientInterceptor", "request failed", Str("details"), NoArg, NoArg)

\* HTTPInstrumentationInterceptor, bound to the route.
InstrumentationStatus(i, e) ==
  CASE e.class = "returned" -> ResponseStatus(i)
    [] e.class = "http" -> e.status
    [] OTHER -> 500

\* Mutant of MetricsStatus: the response is asked for the status of every error.
MetricsStatusOfResponse(i, e) == ResponseStatus(i)

\* HTTPMetricsInterceptor: an error that is no HttpException is recorded with the
\* status that the response has so far.
MetricsStatus(i, e) == IF e.class = "http" THEN e.status ELSE ResponseStatus(i)

\* RecordHttpRequest: below 400 all is 2xx.
StatusClass(status) == IF status >= 500 THEN "5xx" ELSE IF status >= 400 THEN "4xx" ELSE "2xx"
Sample(status) == [status |-> status, class |-> StatusClass(status)]

\* ModuleRef.get fails in tap; catchError records again, and fails again.
UnknownElement == NewError("error", 0, {})

\* What leaves HTTPMetricsInterceptor.
Observed(e) == IF env.metricsFound THEN e ELSE UnknownElement

\* Mutant of Logged: LoggingInterceptor registered after HTTPMetricsInterceptor.
LoggedInside(e, i) ==
  IF e.class = "returned" THEN LogFn(i, "completed")
  ELSE Error(MinLevel, "AppLogger", "failed", Str("LoggingInterceptor"), NoArg, NoArg)

\* LoggingInterceptor, outside HTTPMetricsInterceptor.
Logged(e, i) ==
  IF Observed(e).class = "returned" THEN LogFn(i, "completed")
  ELSE Error(MinLevel, "AppLogger", "failed", Str("LoggingInterceptor"), NoArg, NoArg)

\* This is what the handler made of r: the interceptors see it from the innermost outwards.
Complete(r, made) ==
  LET i == in[r]
      e == ClientSaw(i, made)
      seen == Observed(e)
      written == ClientLog(i, made) \o Logged(e, i)
  IN /\ outcome' = [outcome EXCEPT ![r] = made]
     /\ samples' = [samples EXCEPT ![r] =
          [http |-> IF env.metricsFound /\ env.metricsEnabled
                    THEN Append(samples[r].http, Sample(MetricsStatus(i, e))) ELSE samples[r].http,
           registry |-> IF i.instrumented
                        THEN Append(samples[r].registry, Sample(InstrumentationStatus(i, e)))
                        ELSE samples[r].registry]]
     /\ IF seen.class = "returned"
        THEN /\ stage' = [stage EXCEPT ![r] = "answered"]
             /\ answer' = [answer EXCEPT ![r] =
                  [NoAnswer EXCEPT !.status = ResponseStatus(i), !.message = "own"]]
             /\ journal' = [journal EXCEPT ![r] = journal[r] \o written]
        ELSE Fail(r, i, seen, written)

-----------------------------------------------------------------------------
(* The pipe and the handler                                                 *)

\* BaseValidationPipe: a parameter of a primitive type is not validated.
Pipe(r) ==
  /\ stage[r] = "pipe"
  /\ IF in[r].dto = "invalid"
     THEN Complete(r, NewError("http", 400, {}))
     ELSE stage' = [stage EXCEPT ![r] = "handling"] /\ UNCHANGED <<outcome, answer, journal, samples>>
  /\ UNCHANGED <<env, app, in, cleaned, http>>

HandlerEnds(r, e) ==
  /\ stage[r] = "handling"
  /\ Complete(r, e)
  /\ UNCHANGED <<env, app, in, cleaned, http>>

\* The handler logs, with a logger of its own or with that of the framework.
NoteEntry(note) ==
  CASE note.call = "metadata"  -> Info(MinLevel, "Handler", "note", Obj(note.g), NoArg)
    [] note.call = "context"   -> Warn(MinLevel, "Handler", "note", Str("Orders"), Obj(note.g))
    [] note.call = "options"   -> Debug(MinLevel, "Handler", "note", Options("Orders", note.g, "none"), NoArg)
    [] note.call = "trace"     -> Error(MinLevel, "Handler", "note", Str("stack"), Str("Orders"), Obj(note.g))
    [] note.call \in {"attempt", "success", "failed"} -> LogRecovery(MinLevel, note.call)
    [] note.call = "framework" -> AdapterError(MinLevel, "AppLogger", <<"stack", "Orders">>)
    [] note.call = "bare"      -> AdapterError(MinLevel, "AppLogger", <<"stack">>)
    [] note.call = "verbose"   -> AdapterLog(MinLevel, "AppLogger", "verbose", <<"Orders">>)

HandlerNotes(r, note) ==
  /\ stage[r] = "handling"
  /\ \A k \in DOMAIN journal[r] : journal[r][k].what \notin {"note", "framework", "recovery"}
  /\ journal' = [journal EXCEPT ![r] = journal[r] \o NoteEntry(note)]
  /\ UNCHANGED <<env, app, in, cleaned, stage, outcome, answer, samples, http>>

\* The handler awaits a call of HttpClientService.
HandlerCalls(r, input) ==
  /\ stage[r] = "handling"
  /\ stage' = [stage EXCEPT ![r] = "awaiting"]
  /\ Request(r, input)
  /\ UNCHANGED <<env, app, in, cleaned, outcome, answer, journal, samples>>

\* What the promise of Request rejects with.
Rejection(reason) ==
  CASE reason = "timeout"  -> NewError("error", 0, {"timeout"})
    [] reason = "reqError" -> [NewError("error", 0, {}) EXCEPT !.code = "ECONNREFUSED"]
    [] reason = "resError" -> [NewError("error", 0, {}) EXCEPT !.code = "ECONNRESET"]
    [] OTHER               -> NewError("error", 0, {})

HandlerResumes(r) ==
  /\ stage[r] = "awaiting" /\ Settled(r)
  /\ Complete(r, IF http[r].promise = "resolved" THEN Returned ELSE Rejection(http[r].promise))
  /\ UNCHANGED <<env, app, in, cleaned, http>>

ClientStep(r) == SocketEvent(r) /\ UNCHANGED <<env, app, in, cleaned, stage, outcome, answer, journal, samples>>

PipelineNext ==
  \/ ModuleInit
  \/ \E r \in Requests :
       \/ \E i \in Inputs : Receive(r, i)
       \/ Guards(r)
       \/ Pipe(r)
       \/ \E note \in Notes : HandlerNotes(r, note)
       \/ \E e \in Failures \cup {Returned} : HandlerEnds(r, e)
       \/ \E input \in {"good", "badUrl", "circular"} : HandlerCalls(r, input)
       \/ HandlerResumes(r)
       \/ ClientStep(r)

\* The event loop goes on with a request, and Node times an idle socket out, closes a
\* destroyed one and ends a response that is complete.  A handler may take its time, but
\* it ends.
SocketDue(r) == SocketClosing(r) /\ UNCHANGED <<env, app, in, cleaned, stage, outcome, answer, journal, samples>>
PipelineSpec ==
  /\ PipelineInit /\ [][PipelineNext]_pipelineVars
  /\ WF_pipelineVars(ModuleInit)
  /\ \A r \in Requests :
       /\ WF_pipelineVars(Guards(r) \/ Pipe(r) \/ HandlerResumes(r))
       /\ WF_pipelineVars(SocketDue(r))
       /\ []<>(stage[r] # "handling")

-----------------------------------------------------------------------------
(* Properties                                                              *)

Answered(r) == stage[r] = "answered"

\* The handler, or the pipe before it, was reached through the interceptors.
Intercepted(r) == Answered(r) /\ Middleware(in[r]) = NoOutcome /\ Admits(in[r])

\* Types; a recorded status is one that HTTP knows.
PipelineTypeOK ==
  /\ HttpTypeOK
  /\ env \in Deployments /\ app \in {"starting", "running", "failed"}
  /\ in \in [Requests -> Inputs \cup {NoInput}]
  /\ stage \in [Requests -> {"idle", "guards", "pipe", "handling", "awaiting", "answered"}]
  /\ \A r \in Requests :
       /\ answer[r].status \in {0} \cup 200 .. 599
       /\ \A s \in ToSet(samples[r].http) \cup ToSet(samples[r].registry) :
            s.status \in 200 .. 599 /\ s.class \in {"2xx", "4xx", "5xx"}

\* The interceptors let a success through: HTTPMetricsInterceptor finds its registry, and
\* HttpClientInterceptor a value.
Succeeds(r) ==
  outcome[r].class = "returned" /\ env.metricsFound /\ ~ (in[r].client /\ in[r].void)

\* What the handler made of a request is what the caller is told, through interceptors
\* and filters that may fail themselves: success is not turned into a failure nor a
\* failure into success, and an application error keeps its status.
OutcomeKept ==
  \A r \in Requests : Answered(r) =>
    /\ Succeeds(r) => answer[r].status = ResponseStatus(in[r])
    /\ outcome[r].class # "returned" => answer[r].status \in 400 .. 599
    /\ outcome[r].class = "app" /\ env.metricsFound => answer[r].status = outcome[r].status

\* Each interceptor records a request once, whatever fails around it, and the status
\* recorded is the one answered, for a success and for an HttpException that its own
\* filter answers.
MeasuredAsAnswered ==
  \A r \in Requests : Answered(r) =>
    LET both == <<samples[r].http, samples[r].registry>>
        told == \/ Succeeds(r)
                \/ outcome[r].class = "http" /\ (in[r].filtered \/ env.order[1] = "http")
                   /\ env.metricsFound
    IN /\ Len(both[1]) = IF Intercepted(r) /\ env.metricsFound /\ env.metricsEnabled THEN 1 ELSE 0
       /\ Len(both[2]) = IF Intercepted(r) /\ in[r].instrumented THEN 1 ELSE 0
       /\ told => \A k \in 1 .. 2 : \A s \in ToSet(both[k]) : s.status = answer[r].status

\* Where entries of these kinds are written.
Places(entries, whats) == {k \in DOMAIN entries : entries[k].what \in whats}

\* Of the entries of these kinds and the others given there is one of each, in this order.
Tells(entries, first, second, others) ==
  \E j, k \in DOMAIN entries :
    /\ j < k /\ entries[j].what = first /\ entries[k].what = second
    /\ Places(entries, {first, second} \cup others) = {j, k}

\* The log tells the story of a request: one entry when it comes in and one of how it
\* went, which agrees with the answer and with what HttpClientInterceptor writes before
\* it; and an answer of 500 is found among the errors.
LogTellsOutcome ==
  \A r \in Requests : Answered(r) =>
    LET how == IF answer[r].status < 400 THEN "completed" ELSE "failed"
        visible == MinLevel = 0 \/ (MinLevel = 1 /\ in[r].path = "/items")
    IN /\ Intercepted(r) /\ visible => Tells(journal[r], "incoming", how, {"completed", "failed"})
       /\ Intercepted(r) /\ in[r].client /\ visible /\ env.metricsFound
            => Tells(journal[r], IF how = "completed" THEN "response" ELSE "request failed", how,
                     {"response", "request failed"})
       /\ ~ Intercepted(r) => Places(journal[r], {"incoming", "completed", "failed"}) = {}
       /\ answer[r].status >= 500 /\ MinLevel <= 3 => \E e \in ToSet(journal[r]) : e.level = "error"

\* How deep a walk may go that is not cut.  A copy of the root is another object: a root
\* that is referred to is walked a second time.
Rooms(g) == Len(g) + IF \E e \in Entries(g) : ValAt(g, e) = 1 THEN 1 ELSE 0

\* Of the context of an exception a caller is shown, and of metadata the log, only what
\* is reached without a secret key, also in graphs with cycles and shared objects; and
\* of a graph with no more objects than the depth allows, all of that.
RedactionIsExact ==
  \A r \in Requests :
    /\ LET g == answer[r].context
           open == Public(g, ResponseSecrets)
       IN /\ SanitizeContext(g) \subseteq open
          /\ Len(g) <= MaxContextDepth => open \subseteq SanitizeContext(g)
    /\ \A e \in ToSet(journal[r]) :
         LET open == Public(e.graph, LogSecrets)
         IN /\ SanitizeMetadata(e.graph) \subseteq open
            /\ Rooms(e.graph) < MaxSanitizeDepth => open \subseteq SanitizeMetadata(e.graph)

Keys(g) == {KeyAt(g, e) : e \in Entries(g)}

\* A handler never sees an operator of the database or a dangerous name as a key, at any
\* depth, and what it sees was sent; a key may be lost only to one renamed to it, and has
\* one value.  A key that only holds a dangerous name may reach it.
ReceivedIsClean ==
  \A r \in Requests : stage[r] \in {"handling", "awaiting"} /\ env.mongo =>
    /\ Keys(cleaned[r]) \cap Harmful = {}
    /\ Keys(cleaned[r]) = {SanitizedKey(k) : k \in Keys(in[r].payload)}
    /\ \A e, f \in Entries(cleaned[r]) :
         e[1] = f[1] /\ KeyAt(cleaned[r], e) = KeyAt(cleaned[r], f)
           => ValAt(cleaned[r], e) = ValAt(cleaned[r], f)

\* In production no stack is sent, and nothing of an error that was not made to be
\* shown: neither its message nor its context.
NothingInternalSent ==
  env.production => \A r \in Requests : Answered(r) =>
    /\ ~ answer[r].stack
    /\ answer[r].message = "own" => outcome[r].class \in {"returned", "app", "http"}
    /\ answer[r].context # NoGraph => outcome[r].class = "http"

\* The request is at fault: 4xx, except for too many of them.
CallerAtFault(e) == e.status \in 400 .. 499 \ {429}

\* The code or the message blames the way to a server, whatever the status.
WayBlamed(e) ==
  \/ e.code \in {"ECONNRESET", "ECONNREFUSED", "ETIMEDOUT", "ENOTFOUND", "EAI_AGAIN", "EPIPE"}
  \/ Says(e, {"timeout", "timed out", "network", "connection", "rate limit", "too many requests"})

\* A lost connection, by its code, or a server that is away or asks for patience, by its
\* status, which an application error keeps where nobody reads it.
Passes(e) ==
  \/ e.class \in {"http", "error"} /\ e.status \in {429, 502, 503, 504}
  \/ e.class = "error" /\ e.code \in {"ECONNRESET", "ECONNREFUSED", "ETIMEDOUT", "ENOTFOUND", "EAI_AGAIN"}

\* The categories overlap, and the log calls a failure by the first that fits.  One for
\* which the caller is at fault is called transient only where its code or message blames
\* the way to a server ("4xx permanent", error-categorizer.service.ts:39, does not hold
\* for those); one that passes is never called permanent, whatever its message says.
RetriesAreJustified ==
  \A r \in Requests : Answered(r) =>
    LET logged == {x.what : x \in ToSet(journal[r])}
    IN /\ CallerAtFault(outcome[r]) /\ ~ WayBlamed(outcome[r]) => "transient exception" \notin logged
       /\ Passes(outcome[r]) /\ env.metricsFound => "permanent exception" \notin logged

\* A request that passed the middleware is answered, also when its handler awaits a peer
\* that never answers, cuts the response off or sends too much.
RequestsAnswered == \A r \in Requests : stage[r] = "guards" ~> Answered(r)

\* What the caller is told and what is measured is what the handler did.
AnsweredAsDone == PipelineTypeOK /\ OutcomeKept /\ MeasuredAsAnswered

\* What crosses the borders of the application carries neither secrets nor operators:
\* the payload that comes in, the answer and the log.
DataIsClean == RedactionIsExact /\ ReceivedIsClean /\ NothingInternalSent

\* No request stays without an answer and no socket open.
RequestsEnd == RequestsAnswered /\ SocketsClose
=============================================================================
