------------------------------ MODULE AppLogging ------------------------------
(***************************************************************************)
(* AppLogger, NestLoggerAdapter and AuditLoggerService of nestjs-shared:   *)
(* what becomes of the arguments of a call.  Every operator yields the     *)
(* sequence of the entries that the call writes: none or one.              *)
(*                                                                         *)
(* An argument is a record with the field is: "undefined", "string" (s),   *)
(* "object" (g, a graph without a key context at its root), or "options"   *)
(* (an object with such a key: s for context, g for metadata, trace).      *)
(* Levels are the numbers of LogLevel, DEBUG = 0 up to SILENT = 5.         *)
(***************************************************************************)
EXTENDS ObjectWalk

CONSTANTS
  LogSecrets,        \* the keys that equal or contain a member of SensitiveKeys
  MaxSanitizeDepth   \* MAX_SANITIZE_DEPTH

LevelOf == [debug |-> 0, info |-> 1, warn |-> 2, error |-> 3, fatal |-> 4, silent |-> 5]

NoArg == [is |-> "undefined"]
Str(s) == [is |-> "string", s |-> s]
Obj(g) == [is |-> "object", g |-> g]
Options(s, g, trace) == [is |-> "options", s |-> s, g |-> g, trace |-> trace]

NoGraph == <<>>
IsObject(arg) == arg.is \in {"object", "options"}
GraphOf(arg) == IF IsObject(arg) THEN arg.g ELSE NoGraph

\* An unknown LOG_LEVEL falls back to info.
ParseLogLevel(name) == IF name \in DOMAIN LevelOf THEN LevelOf[name] ELSE LevelOf.info

\* The wrapped logger is given the same level.
ShouldLog(min, level) == LevelOf[level] >= min

\* A key that equals a sensitive one keeps its name, one that contains it loses it.
SanitizeMetadata(g) ==
  Shown(g, [secret |-> LogSecrets, max |-> MaxSanitizeDepth, leafMax |-> MaxSanitizeDepth,
            copied |-> TRUE])

\* An entry; its metadata are SanitizeMetadata(graph), and the trace becomes
\* metadata.stack, over the one that was there.
BuildMetadata(level, what, context, g, trace) ==
  [level |-> level, what |-> what, context |-> context, graph |-> g, trace |-> trace]

\* Debug, info and warn: (message, options), (message, context?, metadata?) or
\* (message, metadata?).
Short(min, own, level, what, a, b) ==
  IF ~ ShouldLog(min, level) THEN <<>>
  ELSE <<CASE a.is = "string"    -> BuildMetadata(level, what, a.s, GraphOf(b), "none")
           [] a.is = "options"   -> BuildMetadata(level, what, a.s, a.g, "none")
           [] a.is = "object"    -> BuildMetadata(level, what, own, a.g, "none")
           [] a.is = "undefined" -> BuildMetadata(level, what, own, GraphOf(b), "none")>>

\* error and fatal: a single string is the context, a string before an object is the
\* trace, and an object in the first place is dropped unless it is options.
Long(min, own, level, what, a, b, c) ==
  IF ~ ShouldLog(min, level) THEN <<>>
  ELSE <<CASE a.is = "options" ->
                BuildMetadata(level, what, a.s, a.g, a.trace)
           [] a.is = "string" /\ b.is = "string" ->
                BuildMetadata(level, what, b.s, GraphOf(c), a.s)
           [] a.is = "string" /\ IsObject(b) ->
                BuildMetadata(level, what, own, b.g, a.s)
           [] a.is = "string" /\ b.is = "undefined" ->
                BuildMetadata(level, what, a.s, GraphOf(c), "none")
           [] a.is \in {"object", "undefined"} ->
                BuildMetadata(level, what, own, IF IsObject(b) THEN b.g ELSE GraphOf(c),
                              "none")>>

Debug(min, own, what, a, b) == Short(min, own, "debug", what, a, b)
Info(min, own, what, a, b)  == Short(min, own, "info", what, a, b)
Warn(min, own, what, a, b)  == Short(min, own, "warn", what, a, b)
Error(min, own, what, a, b, c) == Long(min, own, "error", what, a, b, c)
Fatal(min, own, what, a, b, c) == Long(min, own, "fatal", what, a, b, c)

-----------------------------------------------------------------------------
(* NestLoggerAdapter.  A parameter is "stack" (a string with a newline, or  *)
(* one that starts with Error:), "object", or a name.                       *)

\* The last parameter, when it is a string.
ExtractContext(params) ==
  IF params = <<>> \/ Last(params) = "object" THEN NoArg ELSE Str(Last(params))

\* A stack is looked for in the first place only.
ExtractErrorParams(params) ==
  LET stack == params # <<>> /\ params[1] = "stack"
  IN [stack |-> stack,
      context |-> IF stack /\ Len(params) = 1 THEN NoArg ELSE ExtractContext(params)]

\* The stack is passed as metadata, in a graph with the only key stack.
StackGraph == <<<<[key |-> "stack", val |-> 0]>>>>

AdapterError(min, own, params) ==
  LET p == ExtractErrorParams(params)
  IN Long(min, own, "error", "framework", p.context,
          IF p.stack THEN Obj(StackGraph) ELSE NoArg, NoArg)

\* log, warn, debug, verbose and fatal of the framework.
AdapterLog(min, own, kind, params) ==
  LET context == ExtractContext(params)
  IN CASE kind = "log"   -> Info(min, own, "framework", context, NoArg)
       [] kind = "warn"  -> Warn(min, own, "framework", context, NoArg)
       [] kind \in {"debug", "verbose"} -> Debug(min, own, "framework", context, NoArg)
       [] kind = "fatal" -> Fatal(min, own, "framework", context, NoArg, NoArg)

-----------------------------------------------------------------------------
(* AuditLoggerService                                                      *)

\* An authorization failure, a rate limit or a CSRF violation is a warning; all else
\* is information, a failed authentication included.
AuditLevel(event) ==
  IF event \in {"authorization_failure", "rate_limit_violation", "csrf_violation"}
  THEN "warn" ELSE "info"

Audit(min, event) == Short(min, "AuditLoggerService", AuditLevel(event), event,
                           Str("AuditLogger"), NoArg)
=============================================================================
