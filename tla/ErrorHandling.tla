------------------------------ MODULE ErrorHandling ------------------------------
(***************************************************************************)
(* What nestjs-shared makes of an exception: ErrorCategorizerService,      *)
(* ErrorSanitizerService, BaseApplicationError and the exception filters.  *)
(*                                                                         *)
(* An exception is a record                                                *)
(*   class     "app" (BaseApplicationError), "http" (HttpException),       *)
(*             "error" (another Error), "thrown" (no Error)                *)
(*   status    StatusCode, getStatus(), or the field status of an Error;   *)
(*             0 when there is none                                        *)
(*   code      the field code, "none" when there is none                   *)
(*   words     the words of the message that the patterns look for         *)
(*   bare      getResponse() is an object without statusCode               *)
(*   context   Context, or the field context of getResponse(): a graph     *)
(***************************************************************************)
EXTENDS AppLogging

CONSTANTS
  ResponseSecrets,   \* the keys that contain a member of DEFAULT_SENSITIVE_KEYS
  MaxContextDepth    \* MAX_CONTEXT_DEPTH

ASSUME DepthsAssumption == MaxSanitizeDepth \in Nat /\ MaxContextDepth \in Nat

Exceptions ==
  [class : {"none", "returned", "app", "http", "error", "thrown"}, status : Nat, code : STRING,
   words : SUBSET STRING, bare : BOOLEAN, context : Graphs(STRING)]

NewError(class, status, words) ==
  [class |-> class, status |-> status, code |-> "none", words |-> words,
   bare |-> FALSE, context |-> NoGraph]

Shift(g, k) == [n \in DOMAIN g |-> [i \in DOMAIN g[n] |->
                  [g[n][i] EXCEPT !.val = IF @ = 0 THEN 0 ELSE @ + k]]]

\* {...g, ...h}: a new root; the entries of h override those of g.
Spread(g, h) ==
  LET gs == Shift(g, 1)
      hs == Shift(h, 1 + Len(g))
      root(s) == IF s = NoGraph THEN <<>> ELSE s[1]
      overridden == {root(hs)[i].key : i \in DOMAIN root(hs)}
      kept == SelectSeq(root(gs), LAMBDA entry : entry.key \notin overridden)
  IN <<kept \o root(hs)>> \o gs \o hs

\* The defaults of the constructor.  options is what is given of code, status, words
\* and context; a class made by CreateError is generated.
BaseApplicationError(options) ==
  LET e == options @@ [NewError("app", 500, {}) EXCEPT !.code = "INTERNAL_SERVER_ERROR"]
  IN [e EXCEPT !.context = Spread(@, NoGraph)]

\* Classes made by CreateError have a status and a code of their own.
CreateError(config, words, context) ==
  BaseApplicationError([status |-> config.status, code |-> config.code, words |-> words,
                        context |-> context])

\* Another error of the class.  The constructor of a generated class takes a context in
\* the place of the options, so that the context moves one level down.
Again(e, words, context, generated) ==
  LET nested == <<<<[key |-> "code", val |-> 0], [key |-> "statusCode", val |-> 0],
                    [key |-> "context", val |-> 2]>>>> \o Shift(context, 1)
  IN BaseApplicationError([status |-> e.status, code |-> e.code, words |-> words,
                           context |-> IF generated THEN nested ELSE context])

WithContext(e, context, generated) == Again(e, e.words, Spread(e.context, context), generated)
WithMessage(e, words, generated) == Again(e, words, e.context, generated)

-----------------------------------------------------------------------------
(* ErrorCategorizerService                                                 *)

\* The fields status and code that it reads: an application error has StatusCode and
\* Code instead.
StatusOf(e) == IF e.class \in {"http", "error"} THEN e.status ELSE 0
CodeOf(e) == IF e.class = "error" THEN e.code ELSE "none"
Says(e, words) == e.words \cap words # {}

IsNodeTransient(e) ==
  CodeOf(e) \in {"ECONNRESET", "ECONNREFUSED", "ETIMEDOUT", "ENOTFOUND", "EAI_AGAIN"}
IsDatabaseError(e) == Says(e, {"connection"}) /\ Says(e, {"database", "mongodb", "redis"})
IsTimeoutError(e) == CodeOf(e) = "ETIMEDOUT" \/ Says(e, {"timeout", "timed out"})
IsNetworkError(e) ==
  CodeOf(e) \in {"ECONNREFUSED", "ENOTFOUND", "ECONNRESET", "EPIPE"}
  \/ Says(e, {"network", "connection"})
IsServerError(e) == StatusOf(e) \in {502, 503, 504}
IsRateLimitError(e) == StatusOf(e) = 429 \/ Says(e, {"rate limit", "too many requests"})
IsBadRequestError(e) == StatusOf(e) \in {400, 422}
IsValidationError(e) == Says(e, {"validation"})
IsAuthError(e) == StatusOf(e) = 401 \/ Says(e, {"unauthorized", "authentication"})
IsAuthzError(e) == StatusOf(e) = 403 \/ Says(e, {"forbidden", "authorization"})
IsNotFoundError(e) == StatusOf(e) = 404 \/ Says(e, {"not found"})

Transient(strategy, backoff) ==
  [retryable |-> TRUE, strategy |-> strategy, backoff |-> backoff, level |-> "debug"]
Permanent(level) ==
  [retryable |-> FALSE, strategy |-> "fail", backoff |-> "none", level |-> level]

IsPermanent(e) ==
  \/ IsBadRequestError(e) \/ IsValidationError(e) \/ IsAuthError(e)
  \/ IsAuthzError(e) \/ IsNotFoundError(e)

\* Mutant of CategorizeError: the tests for what stays are made before those for what passes.
CategorizeErrorPermanentFirst(e) ==
  IF IsPermanent(e) THEN Permanent("debug")
  ELSE IF IsNodeTransient(e) \/ IsServerError(e) THEN Transient("backoff", "retry")
  ELSE IF IsDatabaseError(e) \/ IsTimeoutError(e) \/ IsNetworkError(e) \/ IsRateLimitError(e)
  THEN Transient("retry", "retry")
  ELSE Permanent("warn")

\* The first test that holds decides: the words of the message come before the status.
\* level is that of the entry written on the way.
CategorizeError(e) ==
  IF IsNodeTransient(e) THEN Transient("backoff", "retry")
  ELSE IF IsDatabaseError(e) THEN Transient("backoff", "database")
  ELSE IF IsTimeoutError(e) THEN Transient("backoff", "timeout")
  ELSE IF IsNetworkError(e) THEN Transient("retry", "retry")
  ELSE IF IsServerError(e) THEN Transient("backoff", "timeout")
  ELSE IF IsRateLimitError(e) THEN Transient("backoff", "rateLimit")
  ELSE Permanent(IF IsPermanent(e) THEN "debug" ELSE "warn")

Flat(keys) == <<[i \in DOMAIN keys |-> [key |-> keys[i], val |-> 0]]>>

LogCategory(min, e) ==
  Short(min, "ErrorCategorizerService", CategorizeError(e).level, "category",
        Obj(Flat(<<"error">>)), NoArg)

\* LogRecoveryAttempt, LogRecoverySuccess and LogRecoveryFailed, called by who retries.
LogRecovery(min, stage) ==
  CASE stage = "attempt" ->
         Info(min, "ErrorCategorizerService", "recovery",
              Obj(Flat(<<"attempt", "maxAttempts", "errorType", "strategy", "backoffMs", "error">>)), NoArg)
    [] stage = "success" ->
         Info(min, "ErrorCategorizerService", "recovery", Obj(Flat(<<"attempts", "error">>)), NoArg)
    [] stage = "failed" ->
         Error(min, "ErrorCategorizerService", "recovery", NoArg, NoArg,
               Obj(Flat(<<"attempts", "errorType", "retryable", "error">>)))

-----------------------------------------------------------------------------
(* ErrorSanitizerService                                                   *)

\* Mutant of SanitizeContext: the keys are compared, not searched for a sensitive part.
SanitizeContextByName(g) ==
  Shown(g, [secret |-> {"password"}, max |-> MaxContextDepth,
            leafMax |-> MaxContextDepth + 1, copied |-> FALSE])

\* SerializeWithDepthLimit from the root.
SanitizeContext(g) ==
  Shown(g, [secret |-> ResponseSecrets, max |-> MaxContextDepth,
            leafMax |-> MaxContextDepth + 1, copied |-> FALSE])

\* The stack is for development, the context is kept wherever it is given: what is sent
\* of it is SanitizeContext(context).
SanitizeErrorResponse(statusCode, stack, context, isDevelopment) ==
  [statusCode |-> statusCode, stack |-> isDevelopment /\ stack, context |-> context]

\* The status and the body that are sent.
Answer(status, message, body) ==
  [status |-> status, statusCode |-> body.statusCode, stack |-> body.stack, context |-> body.context,
   message |-> message]

-----------------------------------------------------------------------------
(* The filters.  Each yields the answer and the entries written.            *)

FilterEntry(e) ==
  IF CategorizeError(e).retryable THEN "transient exception" ELSE "permanent exception"

\* An object response without statusCode is answered with 500 in its body.
HttpExceptionFilter(e, min, isDevelopment) ==
  LET body == SanitizeErrorResponse(IF e.bare THEN 500 ELSE e.status, FALSE, e.context,
                                    isDevelopment)
  IN [answer |-> Answer(e.status, "own", body),
      log |-> LogCategory(min, e)
              \o Error(min, "AppLogger", FilterEntry(e), NoArg, NoArg, Obj(NoGraph))]

\* Mutant of GlobalExceptionFilter: what is known of the error is sent as it is.
GlobalExceptionFilterTalks(e, min, isDevelopment) ==
  LET status == IF e.class = "app" THEN e.status ELSE 500
  IN [answer |-> Answer(status, "own", SanitizeErrorResponse(status, TRUE, e.context, TRUE)),
      log |-> LogCategory(min, e)
              \o Error(min, "AppLogger", FilterEntry(e),
                       IF isDevelopment THEN Str("stack") ELSE NoArg, NoArg, Obj(NoGraph))]

\* Every Error that is not an application error is answered with 500, an HttpException
\* that comes here included.  The body has no statusCode.  A stack passed as the only
\* string is taken for the context of the entry.
GlobalExceptionFilter(e, min, isDevelopment) ==
  LET status == IF e.class = "app" THEN e.status ELSE 500
      body == SanitizeErrorResponse(status, isDevelopment,
                IF e.class = "app" /\ isDevelopment THEN e.context ELSE NoGraph,
                isDevelopment)
  IN [answer |-> Answer(status, IF e.class = "app" \/ isDevelopment THEN "own" ELSE "generic", body),
      log |-> LogCategory(min, e)
              \o Error(min, "AppLogger", FilterEntry(e),
                       IF isDevelopment THEN Str("stack") ELSE NoArg, NoArg, Obj(NoGraph))]

\* What is no Error is caught by no filter of the repository: Nest answers and logs.
BaseExceptionFilter(min) ==
  [answer |-> Answer(500, "generic", SanitizeErrorResponse(500, FALSE, NoGraph, FALSE)),
   log |-> AdapterError(min, "AppLogger", <<"ExceptionsHandler">>)]
=============================================================================
