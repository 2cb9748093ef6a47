---------------------------- MODULE GuardPipeline ----------------------------
(***************************************************************************)
(* Authentication and authorisation in nestjs-auth: JwtAuthGuard with      *)
(* KeycloakTokenValidationService, RoleGuard and PermissionGuard, in front *)
(* of the handlers of HTTP routes, GraphQL fields and WebSocket messages.  *)
(*                                                                         *)
(* An execution is one handler with its guards.  The guards of an          *)
(* execution run one after the other with an await between them; the       *)
(* fields of a GraphQL query run their guards concurrently and share the   *)
(* request object the user is attached to.                                 *)
(*                                                                         *)
(* Offline validation gets its keys from the JWKS cache, of which only the *)
(* promise of module KeyLease is used (JwksCache implements it).           *)
(***************************************************************************)
EXTENDS Naturals

CONSTANTS
  Executions,    \* handlers being run, with their guards
  Objects,       \* HTTP requests, GraphQL queries, WebSocket clients
  Tokens,        \* bearer tokens
  Roles,         \* role names, which are also the permissions
  Kids,          \* key identifiers
  Kid,           \* Kid[t]: the kid in the header of t, or Null
  Expiry,        \* Expiry[t]: the exp claim
  RolesOf,       \* RolesOf[t]: the realm and client roles among the claims
  Genuine,       \* the tokens with a valid signature of the key they name
  Issued,        \* the tokens with the expected issuer
  Addressed,     \* the tokens with the client among their audiences
  Demands,       \* what decorators may ask of a handler
  JwksCacheTtl,  \* jwksCacheTtlMs
  MaxTime,       \* bound on the clock
  Null           \* null and undefined

ASSUME TokensAssumption ==
  /\ Null \notin Tokens \cup Kids \cup Nat
  /\ Kid \in [Tokens -> Kids \cup {Null}]
  /\ Expiry \in [Tokens -> Nat]
  /\ RolesOf \in [Tokens -> SUBSET Roles]
ASSUME DemandsAssumption ==
  Demands \subseteq [public : BOOLEAN, roles : SUBSET Roles, permissions : SUBSET Roles]
ASSUME TimeAssumption == JwksCacheTtl \in Nat /\ MaxTime \in Nat

VARIABLES
  now,             \* Date.now()
  leasedAt,        \* the JWKS cache: when each key was received
  lookup,          \* the JWKS cache: the progress of each execution's GetKey
  wanted,          \* the JWKS cache: the kid asked for
  validationMode,  \* Options.validationMode
  revoked,         \* the tokens whose session was ended in Keycloak
  demand,          \* demand[x]: the metadata of x's handler
  on,              \* on[x]: the request or client x belongs to
  context,         \* context[o]: "http" | "graphql" | "websocket"
  token,           \* token[o]: the bearer token in o's headers, or Null
  user,            \* user[o]: the token whose claims are attached as Request.user
  pc,              \* pc[x]: how far x is
  answer,          \* answer[x]: the introspection result x waits for
  outcome,         \* outcome[x]: "none" | "handled" | "unauthorized" | "forbidden"
  arrival,         \* history: when x began
  vouched,         \* history: the executions whose token Keycloak called active
  accepted         \* history: the executions JwtAuthGuard let pass with a token

keyVars   == <<now, leasedAt, lookup, wanted>>
inputVars == <<validationMode, demand, on, context, token>>
runVars   == <<user, pc, answer, outcome, arrival, vouched, accepted>>
vars == <<keyVars, revoked, inputVars, runVars>>

Cache == INSTANCE KeyLease WITH Callers <- Executions, Ttl <- JwksCacheTtl

-----------------------------------------------------------------------------

Init ==
  /\ Cache!Init
  /\ validationMode \in {"online", "offline"}
  /\ revoked = {}
  /\ demand \in [Executions -> Demands]
  /\ on \in [Executions -> Objects]
  /\ context \in [Objects -> {"http", "graphql", "websocket"}]
  /\ token \in [Objects -> Tokens \cup {Null}]
  /\ user = [o \in Objects |-> Null]
  /\ pc = [x \in Executions |-> "new"]
  /\ answer = [x \in Executions |-> "none"]
  /\ outcome = [x \in Executions |-> "none"]
  /\ arrival = [x \in Executions |-> 0]
  /\ vouched = {}
  /\ accepted = {}

Token(x) == token[on[x]]

Goto(x, next) ==
  /\ pc' = [pc EXCEPT ![x] = next]
  /\ UNCHANGED outcome

Finish(x, result) ==
  /\ pc' = [pc EXCEPT ![x] = "done"]
  /\ outcome' = [outcome EXCEPT ![x] = result]

-----------------------------------------------------------------------------
(* JwtAuthGuard                                                            *)

\* The synchronous part of canActivate and of ValidateToken.  An HTTP request has
\* one handler.
JwtAuthGuard(x) ==
  /\ pc[x] = "new"
  /\ context[on[x]] = "http" => \A y \in Executions \ {x} : on[y] = on[x] => pc[y] = "new"
  /\ arrival' = [arrival EXCEPT ![x] = now]
  /\ \/ demand[x].public /\ Goto(x, "roles")
     \/ /\ ~ demand[x].public
        /\ Token(x) = Null
        /\ Finish(x, "unauthorized")
     \/ /\ ~ demand[x].public
        /\ Token(x) # Null
        /\ validationMode = "online"
        /\ Goto(x, "introspecting")
     \/ /\ ~ demand[x].public
        /\ Token(x) # Null
        /\ validationMode = "offline"
        /\ IF Kid[Token(x)] = Null THEN Finish(x, "unauthorized") ELSE Goto(x, "keyless")
  /\ UNCHANGED <<keyVars, revoked, inputVars, user, answer, vouched, accepted>>

\* Mutant of Attach: the user is attached although the token was not accepted.
AttachAlways(x, valid) ==
  /\ IF valid THEN Goto(x, "roles") ELSE Finish(x, "unauthorized")
  /\ accepted' = IF valid THEN accepted \cup {x} ELSE accepted
  /\ user' = [user EXCEPT ![on[x]] = Token(x)]

\* The end of canActivate: the claims are attached to the request.  For a WebSocket
\* message ExtractRequestFromContext makes a copy of the client (a Socket.IO client, or
\* one with upgradeReq), which is lost.
Attach(x, valid) ==
  /\ IF valid THEN Goto(x, "roles") ELSE Finish(x, "unauthorized")
  /\ accepted' = IF valid THEN accepted \cup {x} ELSE accepted
  /\ user' = IF valid /\ context[on[x]] # "websocket"
             THEN [user EXCEPT ![on[x]] = Token(x)] ELSE user

-----------------------------------------------------------------------------
(* ValidateTokenOnline                                                     *)

\* Keycloak composes the answer of its introspection endpoint, or the call fails.
KeycloakIntrospects(x) ==
  LET active == Token(x) \in Genuine \ revoked /\ now < Expiry[Token(x)]
  IN  /\ pc[x] = "introspecting"
      /\ answer[x] = "none"
      /\ \/ /\ answer' = [answer EXCEPT ![x] = IF active THEN "active" ELSE "inactive"]
            /\ vouched' = IF active THEN vouched \cup {x} ELSE vouched
         \/ /\ answer' = [answer EXCEPT ![x] = "failed"]
            /\ UNCHANGED vouched
      /\ UNCHANGED <<keyVars, revoked, inputVars, user, pc, outcome, arrival, accepted>>

\* Mutant of IntrospectionOk: active is not compared with true.
IntrospectionOkUnlessFailed(x) == answer[x] # "failed" /\ Token(x) \in Addressed

IntrospectionOk(x) == answer[x] = "active" /\ Token(x) \in Addressed

\* Mutant of IntrospectionReturns: a failed call is never reported.
IntrospectionReturnsUnlessFailed(x) ==
  /\ pc[x] = "introspecting"
  /\ answer[x] \in {"active", "inactive"}
  /\ Attach(x, IntrospectionOk(x))
  /\ UNCHANGED <<keyVars, revoked, inputVars, answer, arrival, vouched>>

\* A failed call is caught and becomes a refusal.
IntrospectionReturns(x) ==
  /\ pc[x] = "introspecting"
  /\ answer[x] # "none"
  /\ Attach(x, IntrospectionOk(x))
  /\ UNCHANGED <<keyVars, revoked, inputVars, answer, arrival, vouched>>

-----------------------------------------------------------------------------
(* ValidateTokenOffline                                                    *)

\* GetKey, answered at once or later.
GetKey(x) ==
  /\ pc[x] = "keyless"
  /\ Cache!AnswerAtOnce(x, Kid[Token(x)]) \/ Cache!Ask(x, Kid[Token(x)])
  /\ Goto(x, "awaiting")
  /\ UNCHANGED <<revoked, inputVars, user, answer, arrival, vouched, accepted>>

GetKeySettles(x) ==
  /\ Cache!Grant(x) \/ Cache!Refuse(x)
  /\ UNCHANGED <<revoked, inputVars, runVars>>

\* Signature, expiry, issuer and audience, in this order; each failure is the same
\* refusal.  The expiry is compared with the clock as it is after the await.
Verified(x) ==
  /\ lookup[x] = "found"
  /\ Token(x) \in Genuine
  /\ now < Expiry[Token(x)]
  /\ Token(x) \in Issued
  /\ Token(x) \in Addressed

Verify(x) ==
  /\ pc[x] = "awaiting"
  /\ lookup[x] # "pending"
  /\ Attach(x, Verified(x))
  /\ UNCHANGED <<keyVars, revoked, inputVars, answer, arrival, vouched>>

-----------------------------------------------------------------------------
(* RoleGuard and PermissionGuard                                           *)

\* Both guards: the request is extracted again, and the user needs one of the roles.
Authorize(x, required, next) ==
  LET t == user[on[x]]
  IN  IF required = {} THEN next
      ELSE IF t = Null THEN Finish(x, "unauthorized")
      ELSE IF RolesOf[t] \cap required = {} THEN Finish(x, "forbidden")
      ELSE next

RoleGuard(x) ==
  /\ pc[x] = "roles"
  /\ Authorize(x, demand[x].roles, Goto(x, "permissions"))
  /\ UNCHANGED <<keyVars, revoked, inputVars, user, answer, arrival, vouched, accepted>>

\* Then the handler runs.
PermissionGuard(x) ==
  /\ pc[x] = "permissions"
  /\ Authorize(x, demand[x].permissions, Finish(x, "handled"))
  /\ UNCHANGED <<keyVars, revoked, inputVars, user, answer, arrival, vouched, accepted>>

-----------------------------------------------------------------------------
(* The environment                                                         *)

\* Only the tokens that are presented matter.
Revoke(o) ==
  /\ token[o] \notin revoked \cup {Null}
  /\ revoked' = revoked \cup {token[o]}
  /\ UNCHANGED <<keyVars, inputVars, runVars>>

\* Keys are fetched in offline mode only.
ReceiveKeys ==
  /\ validationMode = "offline"
  /\ Cache!Receive
  /\ UNCHANGED <<revoked, inputVars, runVars>>

Tick ==
  /\ now < MaxTime
  /\ Cache!Tick
  /\ UNCHANGED <<revoked, inputVars, runVars>>

Step(x) ==
  \/ JwtAuthGuard(x)
  \/ IntrospectionReturns(x)
  \/ GetKey(x)
  \/ Verify(x)
  \/ RoleGuard(x)
  \/ PermissionGuard(x)

Next ==
  \/ \E x \in Executions : Step(x) \/ KeycloakIntrospects(x) \/ GetKeySettles(x)
  \/ \E o \in Objects : Revoke(o)
  \/ ReceiveKeys
  \/ Tick

\* Once a request has arrived the runtime runs its continuations, fetch() settles,
\* and so does GetKey (LookupsEnd of JwksCache).
Fairness ==
  \A x \in Executions :
    /\ WF_vars(pc[x] # "new" /\ Step(x))
    /\ WF_vars(KeycloakIntrospects(x))
    /\ WF_vars(GetKeySettles(x))

Spec == Init /\ [][Next]_vars
FairSpec == Spec /\ Fairness

-----------------------------------------------------------------------------
(* Properties                                                              *)

\* Every variable holds a value of its kind; the user attached to a request comes from
\* its own token; an execution has an outcome exactly when it is over.
TypeOK ==
  /\ now \in Nat
  /\ leasedAt \in [Kids -> Nat \cup {Null}]
  /\ lookup \in [Executions -> {"idle", "pending", "found", "unauthorized"}]
  /\ wanted \in [Executions -> Kids]
  /\ validationMode \in {"online", "offline"}
  /\ revoked \subseteq Tokens
  /\ demand \in [Executions -> Demands]
  /\ on \in [Executions -> Objects]
  /\ context \in [Objects -> {"http", "graphql", "websocket"}]
  /\ token \in [Objects -> Tokens \cup {Null}]
  /\ user \in [Objects -> Tokens \cup {Null}]
  /\ \A o \in Objects : user[o] \in {token[o], Null}
  /\ pc \in [Executions -> {"new", "introspecting", "keyless", "awaiting", "roles",
                            "permissions", "done"}]
  /\ answer \in [Executions -> {"none", "active", "inactive", "failed"}]
  /\ outcome \in [Executions -> {"none", "handled", "unauthorized", "forbidden"}]
  /\ \A x \in Executions : outcome[x] = "none" <=> pc[x] # "done"
  /\ arrival \in [Executions -> Nat]
  /\ vouched \subseteq Executions
  /\ accepted \subseteq Executions

\* There is evidence, gathered since x began, that its token is good: Keycloak
\* called it active, or it had not expired and the key that signed it was under
\* lease.
Evidence(x) ==
  LET t == Token(x)
  IN  /\ t \in Genuine \cap Addressed
      /\ validationMode = "online" => x \in vouched
      /\ validationMode = "offline" =>
           /\ t \in Issued
           /\ arrival[x] < Expiry[t]
           /\ leasedAt[Kid[t]] # Null
           /\ arrival[x] < leasedAt[Kid[t]] + JwksCacheTtl

\* A protected handler runs only on evidence that its own guards gathered, however
\* slow Keycloak was and whatever was revoked, expired or rotated meanwhile.
RunsOnEvidence ==
  \A x \in Executions : outcome[x] = "handled" /\ ~ demand[x].public =>
    Token(x) # Null /\ Evidence(x)

\* A handler that requires roles or permissions runs only if the token of its
\* request has one of each, and the guards of this or of a sibling field
\* validated that token.
RunsAuthorized ==
  \A x \in Executions : outcome[x] = "handled" =>
    \A required \in {demand[x].roles, demand[x].permissions} : required # {} =>
      /\ Token(x) # Null
      /\ RolesOf[Token(x)] \cap required # {}
      /\ \E y \in accepted : on[y] = on[x] /\ Evidence(y)

\* Every execution that began ends: its handler runs or it is refused.
ExecutionsEnd == \A x \in Executions : pc[x] \notin {"new", "done"} ~> pc[x] = "done"
=============================================================================
