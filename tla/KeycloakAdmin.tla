--------------------------- MODULE KeycloakAdmin ---------------------------
(***************************************************************************)
(* The Keycloak admin client of nestjs-auth: KeycloakAdminModule,          *)
(* KeycloakAdminService, KeycloakClient and its resource services, each of *)
(* whose operations is RequireScope, WithRetry around one call of the      *)
(* external client, and HandleError.                                       *)
(*                                                                         *)
(* Keycloak is the environment: it may apply a change and still fail to    *)
(* say so, and it lets tokens expire.                                      *)
(***************************************************************************)
EXTENDS KeycloakOperations, Naturals, FiniteSets

CONSTANTS
  Calls,        \* calls of operations, each made once
  OperationsOf, \* OperationsOf[c]: the operations that call c may make
  Permissions,  \* configured permission sets; Null stands for none configured
  Statuses,     \* the HTTP errors Keycloak may answer with
  MaxRetries,   \* maxRetries
  Null

ASSUME OperationsAssumption ==
  /\ OperationsOf \in [Calls -> SUBSET Operations]
  /\ Permissions \subseteq (SUBSET KEYCLOAK_ALL_SCOPES) \cup {Null}
  /\ Statuses \subseteq 400..599
  /\ MaxRetries \in Nat

VARIABLES
  config,   \* [enabled, credentials, permissions], the configuration
  phase,    \* "new" | "refused" | "disabled" | "authenticating" | "failed" | "ready"
  granted,  \* GrantedScopes
  token,    \* the access token of the client: "none" | "valid" | "expired"
  pc,       \* pc[c]: "idle" | "sent" | "waiting" | "done"
  op,       \* op[c]: the operation
  wrapped,  \* wrapped[c]: the application wraps the operation in withRetry
  request,  \* request[c]: the request that is sent, "list" or "call"
  inner,    \* inner[c]: retries of the request
  outer,    \* outer[c]: retries of the operation, if it is wrapped
  result,   \* result[c]: Null, Ok or the error the caller sees
  links,    \* Keycloak: how often the federated identity is linked
  applied,  \* history: applied[c], how often Keycloak applied the change of c
  answer,   \* history: answer[c], the last answer to c: Null, Ok or an error
  overlap   \* history: two calls of Link were under way at once

clientVars == <<config, phase, granted>>
callVars   == <<pc, op, wrapped, request, inner, outer, result, overlap>>
serverVars == <<links, applied, answer>>
vars == <<clientVars, token, callVars, serverVars>>

Configs == [enabled : BOOLEAN, credentials : {"password", "clientCredentials", "blank"},
            permissions : Permissions]

Init ==
  /\ config \in Configs
  /\ phase = "new"
  /\ granted = KEYCLOAK_DEFAULT_SCOPES
  /\ token = "none"
  /\ pc = [c \in Calls |-> "idle"]
  /\ op = [c \in Calls |-> Null]
  /\ wrapped = [c \in Calls |-> FALSE]
  /\ request = [c \in Calls |-> "call"]
  /\ inner = [c \in Calls |-> 0]
  /\ outer = [c \in Calls |-> 0]
  /\ result = [c \in Calls |-> Null]
  /\ overlap = FALSE
  /\ links = 0
  /\ applied = [c \in Calls |-> 0]
  /\ answer = [c \in Calls |-> Null]

-----------------------------------------------------------------------------
(* Life cycle                                                              *)

\* ValidateKeycloakAdminConfig: credentials must be given in full, even if the client is
\* disabled.
Accepts(cfg) == cfg.credentials # "blank"

\* KeycloakAdminModule validates the configuration, merged with the defaults or made by a
\* factory, and then looks at the credentials of an enabled client.
Builds(cfg) ==
  /\ Accepts(cfg)
  /\ cfg.enabled => cfg.credentials # "blank"

\* The module is built and onModuleInit runs up to the authentication.
OnModuleInit ==
  /\ phase = "new"
  /\ \/ ~ Builds(config) /\ phase' = "refused" /\ UNCHANGED granted
     \/ Builds(config) /\ ~ config.enabled /\ phase' = "disabled" /\ UNCHANGED granted
     \/ /\ Builds(config) /\ config.enabled
        /\ phase' = "authenticating"
        /\ granted' = IF config.permissions = Null THEN KEYCLOAK_DEFAULT_SCOPES
                                                    ELSE config.permissions
  /\ UNCHANGED <<config, token, callVars, serverVars>>

\* Authenticate settles.  A failure is thrown again and ends the start; the client stays.
\* Credentials of neither kind were refused when the module was built.
Authenticate ==
  /\ phase = "authenticating"
  /\ \/ phase' = "ready" /\ token' = "valid"
     \/ phase' = "failed" /\ UNCHANGED token
  /\ UNCHANGED <<config, granted, callVars, serverVars>>

\* Nothing refreshes the token.
TokenExpires ==
  /\ token = "valid"
  /\ token' = "expired"
  /\ UNCHANGED <<clientVars, callVars, serverVars>>

\* The application brings a token of its own.
SetAccessToken ==
  /\ token # "valid"
  /\ phase \in {"authenticating", "failed", "ready"}
  /\ token' = "valid"
  /\ UNCHANGED <<clientVars, callVars, serverVars>>

HasClient == phase \in {"authenticating", "failed", "ready"}

\* KeycloakHealthIndicator.Check.
Up == ~ config.enabled \/ (HasClient /\ token # "none")

-----------------------------------------------------------------------------
(* Errors                                                                  *)

Ok == [ok |-> TRUE]

\* What the external client throws: an HTTP error, an error without response in the style of axios,
\* and a failure of fetch, which has neither.
HttpErrors == [response : Statuses]
RawErrors == HttpErrors \cup {[response |-> Null, code |-> "ECONNREFUSED"],
                              [message |-> "fetch failed"]}

\* Null is no status, no error and no success.
ASSUME NullAssumption == Null # Ok /\ Null \notin Statuses /\ Null \notin RawErrors

Mapped(class, status) == [class |-> class, StatusCode |-> status]

\* Mutant of HandleError: whatever has no class of its own is an internal error.
HandleErrorGeneric(e) ==
  CASE "class" \in DOMAIN e -> e
    [] "response" \in DOMAIN e /\ e.response = 401 -> Mapped("AuthenticationError", 401)
    [] "response" \in DOMAIN e /\ e.response = 403 -> Mapped("AuthorizationError", 403)
    [] "response" \in DOMAIN e /\ e.response = 404 -> Mapped("NotFoundError", 404)
    [] "response" \in DOMAIN e /\ e.response = 400 -> Mapped("IValidationError", 400)
    [] "response" \in DOMAIN e /\ e.response = 408 -> Mapped("TimeoutError", 408)
    [] "response" \in DOMAIN e /\ e.response = Null -> Mapped("NetworkError", 500)
    [] OTHER -> Mapped("KeycloakClientError", 500)

\* HandleError: a mapped error or a scope error passes, others are mapped.
HandleError(e) ==
  CASE "class" \in DOMAIN e -> e
    [] "response" \in DOMAIN e /\ e.response = 401 -> Mapped("AuthenticationError", 401)
    [] "response" \in DOMAIN e /\ e.response = 403 -> Mapped("AuthorizationError", 403)
    [] "response" \in DOMAIN e /\ e.response = 404 -> Mapped("NotFoundError", 404)
    [] "response" \in DOMAIN e /\ e.response = 400 -> Mapped("IValidationError", 400)
    [] "response" \in DOMAIN e /\ e.response = 408 -> Mapped("TimeoutError", 408)
    [] "response" \in DOMAIN e /\ e.response = Null -> Mapped("NetworkError", 500)
    [] OTHER -> Mapped("KeycloakClientError", IF "response" \in DOMAIN e THEN e.response ELSE 500)

RetryableStatuses == {408, 429, 500, 502, 503, 504}

\* Mutant of IsRetryableError: the status is read where raw errors carry it.
IsRetryableErrorRaw(e) ==
  \/ "class" \in DOMAIN e /\ e.class \in {"TimeoutError", "RateLimitError", "NetworkError"}
  \/ "response" \in DOMAIN e /\ e.response \in RetryableStatuses

\* The statusCode it looks for is carried neither by raw errors (response.status) nor by
\* mapped ones (StatusCode).
IsRetryableError(e) ==
  \/ "class" \in DOMAIN e /\ e.class \in {"TimeoutError", "RateLimitError", "NetworkError"}
  \/ "statusCode" \in DOMAIN e /\ e.statusCode \in RetryableStatuses

\* WithRetry's decision after an error of attempt n.
Retries(e, n) == n < MaxRetries /\ IsRetryableError(e)

-----------------------------------------------------------------------------
(* Calls                                                                   *)

Finish(c, res) ==
  /\ pc' = [pc EXCEPT ![c] = "done"]
  /\ result' = [result EXCEPT ![c] = res]

\* The first request of an operation: Link looks for the link first.
First(o) == IF o = Link THEN "list" ELSE "call"

Linking == {c \in Calls : op[c] = Link /\ pc[c] \in {"sent", "waiting"}}

\* Mutant of Call: the scopes are not tested.
CallUnscoped(c, o, w) ==
  /\ pc[c] = "idle"
  /\ op' = [op EXCEPT ![c] = o]
  /\ wrapped' = [wrapped EXCEPT ![c] = w]
  /\ IF ~ HasClient
     THEN Finish(c, Mapped("Error", 500)) /\ UNCHANGED <<request, overlap>>
     ELSE /\ pc' = [pc EXCEPT ![c] = "sent"]
          /\ request' = [request EXCEPT ![c] = First(o)]
          /\ overlap' = (overlap \/ (o = Link /\ Linking # {}))
          /\ UNCHANGED result
  /\ UNCHANGED <<clientVars, token, inner, outer, serverVars>>

\* The getter of the service and RequireScope throw before anything is sent.  (Link's
\* second scope is required by the List it begins with.)
Call(c, o, w) ==
  /\ pc[c] = "idle"
  /\ op' = [op EXCEPT ![c] = o]
  /\ wrapped' = [wrapped EXCEPT ![c] = w]
  /\ IF ~ HasClient \/ ~ (o.scopes \subseteq granted)
     THEN /\ Finish(c, Mapped(IF HasClient THEN "KeycloakAdminScopeError" ELSE "Error", 500))
          /\ UNCHANGED <<request, overlap>>
     ELSE /\ pc' = [pc EXCEPT ![c] = "sent"]
          /\ request' = [request EXCEPT ![c] = First(o)]
          /\ overlap' = (overlap \/ (o = Link /\ Linking # {}))
          /\ UNCHANGED result
  /\ UNCHANGED <<clientVars, token, inner, outer, serverVars>>

\* Keycloak does what the request asks for.
Apply(c) ==
  /\ applied' = [applied EXCEPT ![c] =
       IF request[c] = "list" \/ op[c].call \in ReadCalls THEN @ ELSE @ + 1]
  /\ links' = CASE request[c] = "call" /\ op[c].call = "users.addToFederatedIdentity" -> links + 1
                [] request[c] = "call" /\ op[c].call = "users.delFromFederatedIdentity" -> 0
                [] OTHER -> links

\* Mutant of Succeeds: Link does not look at what it listed.
SucceedsUnchecked(c) ==
  /\ pc[c] = "sent"
  /\ token = "valid"
  /\ Apply(c)
  /\ answer' = [answer EXCEPT ![c] = Ok]
  /\ IF request[c] = "list"
     THEN request' = [request EXCEPT ![c] = "call"] /\ UNCHANGED <<pc, result>>
     ELSE Finish(c, Ok) /\ UNCHANGED request
  /\ UNCHANGED <<clientVars, token, op, wrapped, inner, outer, overlap>>

\* A request succeeds.  Link then refuses a link it listed, or sends its call.
Succeeds(c) ==
  /\ pc[c] = "sent"
  /\ token = "valid"
  /\ Apply(c)
  /\ answer' = [answer EXCEPT ![c] = Ok]
  /\ CASE request[c] = "call" -> Finish(c, Ok) /\ UNCHANGED request
       [] request[c] = "list" /\ links > 0 ->
            Finish(c, Mapped("ConflictError", 409)) /\ UNCHANGED request
       [] request[c] = "list" /\ links = 0 ->
            request' = [request EXCEPT ![c] = "call"] /\ UNCHANGED <<pc, result>>
  /\ UNCHANGED <<clientVars, token, op, wrapped, inner, outer, overlap>>

\* WithRetry around the request, HandleError, and the withRetry of the application.
AfterError(c, e) ==
  IF Retries(e, inner[c])
  THEN /\ pc' = [pc EXCEPT ![c] = "waiting"]
       /\ inner' = [inner EXCEPT ![c] = @ + 1]
       /\ UNCHANGED <<request, outer, result>>
  ELSE IF wrapped[c] /\ Retries(HandleError(e), outer[c])
  THEN /\ pc' = [pc EXCEPT ![c] = "waiting"]
       /\ request' = [request EXCEPT ![c] = First(op[c])]
       /\ inner' = [inner EXCEPT ![c] = 0]
       /\ outer' = [outer EXCEPT ![c] = @ + 1]
       /\ UNCHANGED result
  ELSE Finish(c, HandleError(e)) /\ UNCHANGED <<request, inner, outer>>

\* A request fails.  Without a valid token it is refused unseen; otherwise a timeout, a
\* failure of the server or of the network may hide that the change was made.
Fails(c, e) ==
  /\ pc[c] = "sent"
  /\ e \in HttpErrors => (e.response = 401 <=> token # "valid")
  /\ \/ UNCHANGED <<links, applied>>
     \/ token = "valid" /\ (e \in HttpErrors => e.response \in {408, 503}) /\ Apply(c)
  /\ answer' = [answer EXCEPT ![c] = e]
  /\ AfterError(c, e)
  /\ UNCHANGED <<clientVars, token, op, wrapped, overlap>>

\* The delay is over: exponential and capped, which only says when.
DelayOver(c) ==
  /\ pc[c] = "waiting"
  /\ pc' = [pc EXCEPT ![c] = "sent"]
  /\ UNCHANGED <<clientVars, token, op, wrapped, request, inner, outer, result, overlap, serverVars>>

Next ==
  \/ OnModuleInit \/ Authenticate \/ TokenExpires \/ SetAccessToken
  \/ \E c \in Calls :
       \/ \E o \in OperationsOf[c], w \in BOOLEAN : Call(c, o, w)
       \/ Succeeds(c)
       \/ \E e \in RawErrors : Fails(c, e)
       \/ DelayOver(c)

Spec == Init /\ [][Next]_vars

-----------------------------------------------------------------------------
(* Properties                                                              *)

\* Every variable holds a value of its kind.
TypeOK ==
  /\ config \in Configs
  /\ phase \in {"new", "refused", "disabled", "authenticating", "failed", "ready"}
  /\ granted \subseteq KEYCLOAK_ALL_SCOPES
  /\ token \in {"none", "valid", "expired"}
  /\ pc \in [Calls -> {"idle", "sent", "waiting", "done"}]
  /\ op \in [Calls -> Operations \cup {Null}]
  /\ wrapped \in [Calls -> BOOLEAN]
  /\ request \in [Calls -> {"list", "call"}]
  /\ inner \in [Calls -> 0..MaxRetries]
  /\ outer \in [Calls -> 0..MaxRetries]
  /\ links \in Nat
  /\ applied \in [Calls -> Nat]
  /\ overlap \in BOOLEAN

\* Whatever operation is called, Keycloak changes nothing unless the configuration
\* grants a write scope; with the default scopes it never does.
WritesNeedWriteScope ==
  \A c \in Calls : applied[c] > 0 => op[c].scopes \cap granted \cap WriteScopes # {}

\* A change is made at most once, lost answers included, unless the application wraps
\* the call in withRetry itself: the services' own retries repeat no change.
AppliedOnce == \A c \in Calls : wrapped[c] \/ applied[c] <= 1

\* The error a caller sees has the status of Keycloak's last answer to it, and a call
\* that was answered with an error or refused is not reported as done.
FailuresKeepStatus ==
  \A c \in Calls :
    /\ pc[c] = "done" /\ answer[c] \in HttpErrors => result[c].StatusCode = answer[c].response
    /\ result[c] = Ok => answer[c] = Ok

\* An application that started with the client enabled has authenticated and reports
\* itself healthy, until and after its token expires.
StartedIsUp == phase = "ready" => Up

\* What the application is told, of its calls and of the client's health, agrees with
\* what Keycloak answered.
ToldAsAnswered == TypeOK /\ FailuresKeepStatus /\ StartedIsUp

\* An identity is linked twice only if two calls of Link overlapped: each had looked before
\* the other one linked.  Retries of the application, lost answers included, do not link twice.
LinkedOnceUnlessRaced == links > 1 => overlap
=============================================================================
