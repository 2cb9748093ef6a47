------------------------ MODULE KeycloakAdmin_proofs ------------------------
(***************************************************************************)
(* Theorems about KeycloakAdmin, for every set of concurrent calls, every  *)
(* configuration of scopes and every limit of retries.                     *)
(***************************************************************************)
EXTENDS KeycloakAdmin, TLAPS

\* A record of operations in which every change asks for a write scope.
Guarded(service) ==
  \A o \in DOMAIN service :
    service[o].call \in ReadCalls \/ service[o].scopes \cap WriteScopes # {}

\* Calls are those of the table.
CallsTyped ==
  /\ op \in [Calls -> Operations \cup {Null}]
  /\ pc \in [Calls -> {"idle", "sent", "waiting", "done"}]
  /\ wrapped \in [Calls -> BOOLEAN]
  /\ request \in [Calls -> {"list", "call"}]
  /\ applied \in [Calls -> Nat]
  /\ links \in Nat

\* A call that is under way has passed RequireScope, and the granted scopes have not
\* changed since: there is a client, which is made after they are granted.
UnderWay ==
  \A c \in Calls : pc[c] \in {"sent", "waiting"} =>
    HasClient /\ op[c] \in Operations /\ op[c].scopes \subseteq granted

\* What Keycloak applied was permitted, and is so still.
Permitted ==
  \A c \in Calls : applied[c] > 0 =>
    HasClient /\ op[c].scopes \cap granted \cap WriteScopes # {}

\* A call that is not wrapped is over once Keycloak has applied its change.
OverOnceApplied ==
  \A c \in Calls :
    /\ pc[c] = "idle" => applied[c] = 0
    /\ wrapped[c] \/ applied[c] = 0 \/ (applied[c] = 1 /\ pc[c] = "done")

IInv == CallsTyped /\ UnderWay /\ Permitted /\ OverOnceApplied

-----------------------------------------------------------------------------
(* The table of operations                                                 *)

\* The services of users.
LEMMA UsersGuarded ==
  Guarded(UserOperations) /\ Guarded(UserRoleOperations) /\ Guarded(GroupOperations)
<1>1. Guarded(UserOperations)
  BY DEF Guarded, UserOperations, Op, ReadCalls, WriteScopes
<1>2. Guarded(UserRoleOperations)
  BY DEF Guarded, UserRoleOperations, Op, ReadCalls, WriteScopes
<1>3. Guarded(GroupOperations)
  BY DEF Guarded, GroupOperations, Op, ReadCalls, WriteScopes
<1> QED
  BY <1>1, <1>2, <1>3

\* The services of clients, roles, realms and identity providers.
LEMMA RealmGuarded ==
  /\ Guarded(ClientOperations) /\ Guarded(ClientRoleOperations) /\ Guarded(RoleOperations)
  /\ Guarded(RealmOperations) /\ Guarded(IdentityProviderOperations)
<1>1. Guarded(ClientOperations)
  BY DEF Guarded, ClientOperations, Op, ReadCalls, WriteScopes
<1>2. Guarded(ClientRoleOperations)
  BY DEF Guarded, ClientRoleOperations, Op, ReadCalls, WriteScopes
<1>3. Guarded(RoleOperations)
  BY DEF Guarded, RoleOperations, Op, ReadCalls, WriteScopes
<1>4. Guarded(RealmOperations)
  BY DEF Guarded, RealmOperations, Op, ReadCalls, WriteScopes
<1>5. Guarded(IdentityProviderOperations)
  BY DEF Guarded, IdentityProviderOperations, Op, ReadCalls, WriteScopes
<1> QED
  BY <1>1, <1>2, <1>3, <1>4, <1>5

\* The services of flows, events and federated identities.
LEMMA OthersGuarded ==
  /\ Guarded(AuthenticationOperations) /\ Guarded(EventOperations)
  /\ Guarded(FederatedIdentityOperations)
<1>1. Guarded(AuthenticationOperations)
  BY DEF Guarded, AuthenticationOperations, Op, ReadCalls, WriteScopes
<1>2. Guarded(EventOperations)
  BY DEF Guarded, EventOperations, Op, ReadCalls, WriteScopes
<1>3. Guarded(FederatedIdentityOperations)
  BY DEF Guarded, FederatedIdentityOperations, Link, Op, ReadCalls, WriteScopes
<1> QED
  BY <1>1, <1>2, <1>3

\* The table names the right scopes: no operation changes anything under the scopes of a
\* reader.
THEOREM EveryChangeAsks ==
  \A o \in Operations : o.call \in ReadCalls \/ o.scopes \cap WriteScopes # {}
<1>1. \A service \in Services : Guarded(service)
  BY UsersGuarded, RealmGuarded, OthersGuarded DEF Services
<1> QED
  BY <1>1 DEF Operations, Guarded

-----------------------------------------------------------------------------
(* Steps                                                                   *)

\* What the external client throws is never retried: WithRetry looks for fields that
\* only mapped errors have.
LEMMA RawErrorsEnd ==
  ASSUME NEW e \in RawErrors, NEW n
  PROVE  ~ Retries(e, n)
<1>1. DOMAIN e \subseteq {"response", "code", "message"}
  <2>1. CASE e \in HttpErrors
    BY <2>1 DEF HttpErrors
  <2>2. CASE e = [response |-> Null, code |-> "ECONNREFUSED"]
    BY <2>2
  <2>3. CASE e = [message |-> "fetch failed"]
    BY <2>3
  <2> QED
    BY <2>1, <2>2, <2>3 DEF RawErrors
<1> QED
  BY <1>1 DEF Retries, IsRetryableError

\* A request that is applied is one that was permitted, and counts once.
LEMMA ApplyCounts ==
  ASSUME IInv, NEW c \in Calls, pc[c] = "sent", Apply(c)
  PROVE  /\ applied' \in [Calls -> Nat] /\ links' \in Nat
         /\ \A d \in Calls \ {c} : applied'[d] = applied[d]
         /\ applied'[c] \in {applied[c], applied[c] + 1}
         /\ applied'[c] # applied[c] =>
              request[c] = "call" /\ op[c].scopes \cap granted \cap WriteScopes # {}
<1>1. applied \in [Calls -> Nat] /\ links \in Nat
  BY DEF IInv, CallsTyped
<1>2. applied' = [applied EXCEPT ![c] =
        IF request[c] = "list" \/ op[c].call \in ReadCalls THEN @ ELSE @ + 1]
  BY DEF Apply
<1>3. links' \in Nat
  BY <1>1 DEF Apply
<1>4. op[c] \in Operations /\ op[c].scopes \subseteq granted
  BY DEF IInv, UnderWay
<1>5. CASE request[c] = "list" \/ op[c].call \in ReadCalls
  BY <1>1, <1>2, <1>3, <1>5
<1>6. CASE request[c] = "call" /\ op[c].call \notin ReadCalls
  <2>1. op[c].scopes \cap WriteScopes # {}
    BY <1>4, <1>6, EveryChangeAsks
  <2> QED
    BY <1>1, <1>2, <1>3, <1>4, <1>6, <2>1
<1> QED
  BY <1>3, <1>5, <1>6 DEF IInv, CallsTyped

\* An answer to c leaves the other calls alone, and ends c unless it may be applied again
\* or was not applied.
LEMMA AnswerStep ==
  ASSUME IInv, NEW c \in Calls, pc[c] = "sent", UNCHANGED <<clientVars, op, wrapped>>,
         Apply(c) \/ UNCHANGED <<links, applied>>,
         request' \in [Calls -> {"list", "call"}],
         pc' \in [Calls -> {"idle", "sent", "waiting", "done"}],
         \A d \in Calls \ {c} : pc'[d] = pc[d],
         pc'[c] # "idle",
         wrapped[c] \/ request[c] = "list" \/ pc'[c] = "done"
  PROVE  IInv'
<1> USE DEF IInv, clientVars
<1>1. /\ applied' \in [Calls -> Nat] /\ links' \in Nat
      /\ \A d \in Calls \ {c} : applied'[d] = applied[d]
      /\ applied'[c] \in {applied[c], applied[c] + 1}
      /\ applied'[c] # applied[c] =>
           request[c] = "call" /\ op[c].scopes \cap granted \cap WriteScopes # {}
  <2>1. CASE UNCHANGED <<links, applied>>
    BY <2>1 DEF CallsTyped
  <2> QED
    BY <2>1, ApplyCounts
<1>2. CallsTyped'
  BY <1>1 DEF CallsTyped
<1>3. HasClient' = HasClient /\ granted' = granted /\ op' = op /\ wrapped' = wrapped
  BY DEF HasClient
<1>4. HasClient /\ op[c] \in Operations /\ op[c].scopes \subseteq granted
  BY DEF UnderWay
<1>5. UnderWay'
  BY <1>3, <1>4 DEF UnderWay
<1>6. Permitted'
  BY <1>1, <1>3, <1>4 DEF Permitted
<1>7. OverOnceApplied'
  <2>1. ASSUME NEW d \in Calls \ {c}
        PROVE  /\ pc'[d] = "idle" => applied'[d] = 0
               /\ wrapped'[d] \/ applied'[d] = 0 \/ (applied'[d] = 1 /\ pc'[d] = "done")
    BY <1>1, <1>3 DEF OverOnceApplied
  <2>2. wrapped[c] \/ applied[c] = 0
    BY DEF OverOnceApplied
  <2>3. wrapped'[c] \/ applied'[c] = 0 \/ (applied'[c] = 1 /\ pc'[c] = "done")
    <3>1. CASE wrapped[c]
      BY <3>1, <1>3
    <3>2. CASE ~ wrapped[c] /\ request[c] = "list"
      BY <3>2, <2>2, <1>1
    <3>3. CASE pc'[c] = "done" /\ applied[c] = 0
      BY <3>3, <1>1
    <3> QED
      BY <3>1, <3>2, <3>3, <2>2
  <2> QED
    BY <2>1, <2>3 DEF OverOnceApplied
<1> QED
  BY <1>2, <1>5, <1>6, <1>7

\* Every step of the client, of a call and of Keycloak preserves the invariant.
LEMMA Steps ==
  ASSUME IInv, [Next]_vars
  PROVE  IInv'
<1> USE DEF IInv
<1>1. CASE OnModuleInit
  <2>1. ~ HasClient /\ UNCHANGED <<op, pc, wrapped, request, links, applied>>
    BY <1>1 DEF OnModuleInit, HasClient, callVars, serverVars
  <2>2. \A c \in Calls : pc[c] \notin {"sent", "waiting"} /\ ~ (applied[c] > 0)
    BY <2>1 DEF UnderWay, Permitted
  <2> QED
    BY <2>1, <2>2 DEF CallsTyped, UnderWay, Permitted, OverOnceApplied
<1>2. ASSUME UNCHANGED <<granted, op, pc, wrapped, request, links, applied>>, HasClient => HasClient'
      PROVE  IInv'
  BY <1>2 DEF CallsTyped, UnderWay, Permitted, OverOnceApplied
<1>3. CASE Authenticate \/ TokenExpires \/ SetAccessToken \/ UNCHANGED vars
  <2>1. UNCHANGED <<granted, op, pc, wrapped, request, links, applied>>
    BY <1>3 DEF Authenticate, TokenExpires, SetAccessToken, vars, clientVars, callVars, serverVars
  <2>2. HasClient => HasClient'
    BY <1>3 DEF Authenticate, TokenExpires, SetAccessToken, vars, clientVars, HasClient
  <2> QED
    BY <2>1, <2>2, <1>2
<1>4. ASSUME NEW c \in Calls, NEW o \in OperationsOf[c], NEW w \in BOOLEAN, Call(c, o, w)
      PROVE  IInv'
  <2>1. /\ pc[c] = "idle" /\ UNCHANGED <<phase, granted, links, applied>>
        /\ op' = [op EXCEPT ![c] = o] /\ wrapped' = [wrapped EXCEPT ![c] = w]
    BY <1>4 DEF Call, clientVars, serverVars
  <2>2. o \in Operations
    BY OperationsAssumption
  <2>3. \/ pc' = [pc EXCEPT ![c] = "done"] /\ request' = request
        \/ /\ HasClient /\ o.scopes \subseteq granted
           /\ pc' = [pc EXCEPT ![c] = "sent"] /\ request' = [request EXCEPT ![c] = First(o)]
    BY <1>4 DEF Call, Finish
  <2>4. applied[c] = 0 /\ HasClient' = HasClient
    BY <2>1 DEF OverOnceApplied, HasClient
  <2>5. CallsTyped'
    BY <2>1, <2>2, <2>3 DEF CallsTyped, First
  <2>6. UnderWay'
    BY <2>1, <2>2, <2>3, <2>4 DEF UnderWay, CallsTyped
  <2>7. Permitted'
    BY <2>1, <2>4 DEF Permitted, CallsTyped
  <2>8. OverOnceApplied'
    BY <2>1, <2>3, <2>4 DEF OverOnceApplied, CallsTyped
  <2> QED
    BY <2>5, <2>6, <2>7, <2>8
<1>5. ASSUME NEW c \in Calls, Succeeds(c)
      PROVE  IInv'
  <2>1. pc[c] = "sent" /\ Apply(c) /\ UNCHANGED <<clientVars, op, wrapped>>
    BY <1>5 DEF Succeeds
  <2>2. \/ pc' = [pc EXCEPT ![c] = "done"] /\ request' = request
        \/ request[c] = "list" /\ request' = [request EXCEPT ![c] = "call"] /\ pc' = pc
    <3>1. CASE request[c] = "call"
      BY <1>5, <3>1 DEF Succeeds, Finish
    <3>2. CASE request[c] = "list" /\ links > 0
      BY <1>5, <3>2 DEF Succeeds, Finish
    <3>3. CASE request[c] = "list" /\ links = 0
      BY <1>5, <3>3 DEF Succeeds
    <3> QED
      BY <3>1, <3>2, <3>3 DEF CallsTyped
  <2>3. /\ request' \in [Calls -> {"list", "call"}]
        /\ pc' \in [Calls -> {"idle", "sent", "waiting", "done"}]
        /\ \A d \in Calls \ {c} : pc'[d] = pc[d]
        /\ pc'[c] # "idle" /\ (request[c] = "list" \/ pc'[c] = "done")
    BY <2>1, <2>2 DEF CallsTyped
  <2> QED
    BY <2>1, <2>3, AnswerStep
<1>6. ASSUME NEW c \in Calls, NEW e \in RawErrors, Fails(c, e)
      PROVE  IInv'
  <2>1. /\ pc[c] = "sent" /\ UNCHANGED <<clientVars, op, wrapped>> /\ AfterError(c, e)
        /\ (Apply(c) \/ UNCHANGED <<links, applied>>)
    BY <1>6 DEF Fails
  <2>2. ~ Retries(e, inner[c])
    BY RawErrorsEnd
  <2>3. \/ /\ wrapped[c] /\ pc' = [pc EXCEPT ![c] = "waiting"]
           /\ request' = [request EXCEPT ![c] = First(op[c])]
        \/ pc' = [pc EXCEPT ![c] = "done"] /\ request' = request
    BY <2>1, <2>2 DEF AfterError, Finish
  <2>4. /\ request' \in [Calls -> {"list", "call"}]
        /\ pc' \in [Calls -> {"idle", "sent", "waiting", "done"}]
        /\ \A d \in Calls \ {c} : pc'[d] = pc[d]
        /\ pc'[c] # "idle" /\ (wrapped[c] \/ pc'[c] = "done")
    BY <2>3 DEF CallsTyped, First
  <2> QED
    BY <2>1, <2>4, AnswerStep
<1>7. ASSUME NEW c \in Calls, DelayOver(c)
      PROVE  IInv'
  <2>1. /\ pc[c] = "waiting" /\ pc' = [pc EXCEPT ![c] = "sent"]
        /\ UNCHANGED <<phase, granted, op, wrapped, request, links, applied>>
    BY <1>7 DEF DelayOver, clientVars, serverVars
  <2>2. HasClient' = HasClient
    BY <2>1 DEF HasClient
  <2> QED
    BY <2>1, <2>2 DEF CallsTyped, UnderWay, Permitted, OverOnceApplied
<1> QED
  BY <1>1, <1>3, <1>4, <1>5, <1>6, <1>7 DEF Next

\* The inductive invariant of the calls: what is under way or was applied has been
\* permitted, and an unwrapped call ends when its change is applied.
THEOREM CallsCorrect == Spec => []IInv
<1>1. Init => IInv
  BY DEF Init, IInv, CallsTyped, UnderWay, Permitted, OverOnceApplied
<1>2. IInv /\ [Next]_vars => IInv'
  BY Steps
<1> QED
  BY <1>1, <1>2, PTL DEF Spec

\* Whatever is configured and called, Keycloak changes nothing without a write scope.
THEOREM WritesCorrect == Spec => []WritesNeedWriteScope
<1>1. IInv => WritesNeedWriteScope
  BY DEF IInv, Permitted, WritesNeedWriteScope
<1> QED
  BY CallsCorrect, <1>1, PTL

\* However often answers are lost, a call that the application does not wrap changes
\* Keycloak once at most.
THEOREM AppliedOnceCorrect == Spec => []AppliedOnce
<1>1. IInv => AppliedOnce
  BY DEF IInv, OverOnceApplied, CallsTyped, AppliedOnce
<1> QED
  BY CallsCorrect, <1>1, PTL

-----------------------------------------------------------------------------
(* Links                                                                   *)

\* The call that links an identity.
LinkCall == "users.addToFederatedIdentity"

\* A record of operations none of which links an identity.
LinksNothing(service) == \A o \in DOMAIN service : service[o].call # LinkCall

\* Only the operation Link links an identity.
LEMMA LinkingOperation ==
  \A o \in Operations : o.call = LinkCall => o = Link
<1>1. /\ LinksNothing(UserOperations) /\ LinksNothing(UserRoleOperations)
      /\ LinksNothing(GroupOperations)
  BY DEF LinksNothing, LinkCall, Op, UserOperations, UserRoleOperations, GroupOperations
<1>2. /\ LinksNothing(ClientOperations) /\ LinksNothing(ClientRoleOperations)
      /\ LinksNothing(RoleOperations)
  BY DEF LinksNothing, LinkCall, Op, ClientOperations, ClientRoleOperations, RoleOperations
<1>3. /\ LinksNothing(RealmOperations) /\ LinksNothing(IdentityProviderOperations)
      /\ LinksNothing(AuthenticationOperations) /\ LinksNothing(EventOperations)
  BY DEF LinksNothing, LinkCall, Op, RealmOperations, IdentityProviderOperations,
         AuthenticationOperations, EventOperations
<1>4. \A o \in DOMAIN FederatedIdentityOperations :
        FederatedIdentityOperations[o].call = LinkCall => FederatedIdentityOperations[o] = Link
  BY DEF FederatedIdentityOperations, LinkCall, Op
<1>5. \A service \in Services :
        \A o \in DOMAIN service : service[o].call = LinkCall => service[o] = Link
  BY <1>1, <1>2, <1>3, <1>4 DEF Services, LinksNothing
<1> QED
  BY <1>5 DEF Operations

\* As long as no two calls of Link were under way at once, one of them at most is, the
\* identity is linked once at most, and a call that is about to link it has found no link
\* and is not waiting: a retry looks again.
LinksOnce ==
  ~ overlap =>
    /\ \A c, d \in Linking : c = d
    /\ links <= 1
    /\ \A c \in Linking : request[c] = "call" => links = 0 /\ pc[c] = "sent"

\* An answer to c, and the request that c makes next, keep the identity linked once.
LEMMA AnswerLinks ==
  ASSUME IInv, LinksOnce, NEW c \in Calls, pc[c] = "sent", UNCHANGED <<op, overlap>>,
         Apply(c) \/ UNCHANGED links,
         pc' \in [Calls -> {"idle", "sent", "waiting", "done"}],
         request' \in [Calls -> {"list", "call"}],
         \A d \in Calls \ {c} : pc'[d] = pc[d] /\ request'[d] = request[d],
         \/ pc'[c] = "done"
         \/ pc'[c] = "waiting" /\ request'[c] = First(op[c])
         \/ pc'[c] = "sent" /\ request[c] = "list" /\ links = 0
  PROVE  LinksOnce'
<1> SUFFICES ASSUME ~ overlap
             PROVE  /\ \A d, f \in Linking' : d = f
                    /\ links' <= 1
                    /\ \A d \in Linking' : request'[d] = "call" => links' = 0 /\ pc'[d] = "sent"
  BY DEF LinksOnce
<1>1. links \in Nat /\ links <= 1 /\ op[c] \in Operations /\ request[c] \in {"list", "call"}
  BY DEF IInv, CallsTyped, UnderWay, LinksOnce
<1>2. Linking' \subseteq Linking
  BY DEF Linking
<1>3. \A d, f \in Linking' : d = f
  BY <1>2 DEF LinksOnce
<1>4. op[c].call = LinkCall => op[c] = Link
  BY <1>1, LinkingOperation
<1>5. links' \in {links, 0} \/ (links' = links + 1 /\ request[c] = "call" /\ op[c] = Link)
  <2>1. CASE Apply(c) /\ request[c] = "list"
    BY <2>1 DEF Apply
  <2>2. CASE Apply(c) /\ request[c] = "call" /\ op[c].call = LinkCall
    <3>1. links' = links + 1
      BY <2>2 DEF Apply, LinkCall
    <3> QED
      BY <3>1, <2>2, <1>4
  <2>3. CASE Apply(c) /\ request[c] = "call" /\ op[c].call # LinkCall
    BY <2>3 DEF Apply, LinkCall
  <2> QED
    BY <1>1, <2>1, <2>2, <2>3
<1>6. op[c] = Link => c \in Linking
  BY DEF Linking
<1>7. links' <= 1
  BY <1>1, <1>5, <1>6 DEF LinksOnce
<1>8. ASSUME NEW d \in Linking', request'[d] = "call"
      PROVE  links' = 0 /\ pc'[d] = "sent"
  <2>1. CASE d = c
    <3>1. op[c] = Link /\ pc'[c] # "done" /\ First(op[c]) = "list"
      BY <2>1 DEF Linking, First
    <3>2. pc'[c] = "sent" /\ request[c] = "list" /\ links = 0
      BY <3>1, <1>8, <2>1
    <3> QED
      BY <3>2, <1>5, <2>1
  <2>2. CASE d # c
    <3>1. d \in Calls /\ d \in Linking /\ pc'[d] = pc[d] /\ request[d] = "call"
      BY <1>2, <1>8, <2>2 DEF Linking
    <3>2. op[c] # Link
      BY <3>1, <1>6, <2>2 DEF LinksOnce
    <3> QED
      BY <3>1, <3>2, <1>5 DEF LinksOnce
  <2> QED
    BY <2>1, <2>2
<1> QED
  BY <1>3, <1>7, <1>8

\* Every step keeps the identity linked once as long as no two calls of Link overlapped.
LEMMA LinkSteps ==
  ASSUME IInv, LinksOnce, [Next]_vars
  PROVE  LinksOnce'
<1> USE DEF IInv
<1>1. CASE OnModuleInit \/ Authenticate \/ TokenExpires \/ SetAccessToken \/ UNCHANGED vars
  <2>1. UNCHANGED <<op, pc, request, links, overlap>>
    BY <1>1 DEF OnModuleInit, Authenticate, TokenExpires, SetAccessToken, vars, callVars, serverVars
  <2> QED
    BY <2>1 DEF LinksOnce, Linking
<1>2. ASSUME NEW c \in Calls, NEW o \in OperationsOf[c], NEW w \in BOOLEAN, Call(c, o, w)
      PROVE  LinksOnce'
  <2>1. pc[c] = "idle" /\ links' = links /\ op' = [op EXCEPT ![c] = o]
    BY <1>2 DEF Call, serverVars
  <2>2. \/ pc' = [pc EXCEPT ![c] = "done"] /\ request' = request /\ overlap' = overlap
        \/ /\ pc' = [pc EXCEPT ![c] = "sent"] /\ request' = [request EXCEPT ![c] = First(o)]
           /\ overlap' = (overlap \/ (o = Link /\ Linking # {}))
    BY <1>2 DEF Call, Finish
  <2>3. Linking' \ {c} \subseteq Linking /\ (c \in Linking' => o = Link /\ pc'[c] = "sent")
    BY <2>1, <2>2 DEF Linking, CallsTyped
  <2>4. CASE c \notin Linking'
    <3>1. \A d \in Linking' : d \in Linking /\ pc'[d] = pc[d] /\ request'[d] = request[d]
      BY <2>1, <2>2, <2>3, <2>4 DEF Linking, CallsTyped
    <3>2. overlap => overlap'
      BY <2>2
    <3> QED
      BY <2>1, <3>1, <3>2 DEF LinksOnce
  <2>5. CASE c \in Linking'
    <3>1. o = Link /\ request'[c] = "list" /\ overlap' = (overlap \/ Linking # {})
      BY <2>1, <2>2, <2>3, <2>5 DEF First, CallsTyped
    <3>2. ~ overlap' => Linking' = {c}
      BY <2>3, <2>5, <3>1
    <3> QED
      BY <2>1, <3>1, <3>2 DEF LinksOnce
  <2> QED
    BY <2>4, <2>5
<1>3. ASSUME NEW c \in Calls, Succeeds(c)
      PROVE  LinksOnce'
  <2>1. pc[c] = "sent" /\ Apply(c) /\ UNCHANGED <<op, overlap>>
    BY <1>3 DEF Succeeds
  <2>2. \/ pc' = [pc EXCEPT ![c] = "done"] /\ request' = request
        \/ /\ request[c] = "list" /\ links = 0
           /\ request' = [request EXCEPT ![c] = "call"] /\ pc' = pc
    <3>1. CASE request[c] = "call"
      BY <1>3, <3>1 DEF Succeeds, Finish
    <3>2. CASE request[c] = "list" /\ links > 0
      BY <1>3, <3>2 DEF Succeeds, Finish
    <3>3. CASE request[c] = "list" /\ links = 0
      BY <1>3, <3>3 DEF Succeeds
    <3> QED
      BY <3>1, <3>2, <3>3 DEF CallsTyped
  <2>3. /\ request' \in [Calls -> {"list", "call"}]
        /\ pc' \in [Calls -> {"idle", "sent", "waiting", "done"}]
        /\ \A d \in Calls \ {c} : pc'[d] = pc[d] /\ request'[d] = request[d]
        /\ pc'[c] = "done" \/ (pc'[c] = "sent" /\ request[c] = "list" /\ links = 0)
    BY <2>1, <2>2 DEF CallsTyped
  <2> QED
    BY <2>1, <2>3, AnswerLinks
<1>4. ASSUME NEW c \in Calls, NEW e \in RawErrors, Fails(c, e)
      PROVE  LinksOnce'
  <2>1. /\ pc[c] = "sent" /\ UNCHANGED <<op, overlap>> /\ AfterError(c, e)
        /\ (Apply(c) \/ UNCHANGED links)
    BY <1>4 DEF Fails
  <2>2. ~ Retries(e, inner[c])
    BY RawErrorsEnd
  <2>3. \/ pc' = [pc EXCEPT ![c] = "waiting"] /\ request' = [request EXCEPT ![c] = First(op[c])]
        \/ pc' = [pc EXCEPT ![c] = "done"] /\ request' = request
    BY <2>1, <2>2 DEF AfterError, Finish
  <2>4. /\ request' \in [Calls -> {"list", "call"}]
        /\ pc' \in [Calls -> {"idle", "sent", "waiting", "done"}]
        /\ \A d \in Calls \ {c} : pc'[d] = pc[d] /\ request'[d] = request[d]
        /\ pc'[c] = "done" \/ (pc'[c] = "waiting" /\ request'[c] = First(op[c]))
    BY <2>3 DEF CallsTyped, First
  <2> QED
    BY <2>1, <2>4, AnswerLinks
<1>5. ASSUME NEW c \in Calls, DelayOver(c)
      PROVE  LinksOnce'
  <2>1. /\ pc[c] = "waiting" /\ pc' = [pc EXCEPT ![c] = "sent"]
        /\ UNCHANGED <<op, request, links, overlap>>
    BY <1>5 DEF DelayOver, serverVars
  <2>2. Linking' = Linking
    BY <2>1 DEF Linking, CallsTyped
  <2> QED
    BY <2>1, <2>2 DEF LinksOnce, CallsTyped, Linking
<1> QED
  BY <1>1, <1>2, <1>3, <1>4, <1>5 DEF Next

\* However often the application repeats a call of Link whose answers were lost, the identity
\* is linked once, unless two calls of Link were under way at once.
THEOREM LinkedOnceCorrect == Spec => []LinkedOnceUnlessRaced
<1>1. Init => LinksOnce
  BY DEF Init, LinksOnce, Linking
<1>2. IInv /\ LinksOnce /\ [Next]_vars => LinksOnce'
  BY LinkSteps
<1>3. IInv /\ LinksOnce => LinkedOnceUnlessRaced
  BY DEF IInv, CallsTyped, LinksOnce, LinkedOnceUnlessRaced
<1> QED
  BY CallsCorrect, <1>1, <1>2, <1>3, PTL DEF Spec

-----------------------------------------------------------------------------
(* What the application is told                                            *)

\* HandleError keeps the status of an HTTP error, and makes an error of every error.
LEMMA HandlingKeepsStatus ==
  ASSUME NEW e \in RawErrors
  PROVE  /\ HandleError(e) # Ok
         /\ e \in HttpErrors => HandleError(e).StatusCode = e.response
<1>1. \A class, status : Mapped(class, status) # Ok /\ Mapped(class, status).StatusCode = status
  <2> TAKE class, status
  <2>1. Mapped(class, status).StatusCode = status
    BY DEF Mapped
  <2>2. "class" \in DOMAIN Mapped(class, status) /\ "class" \notin DOMAIN Ok
    BY DEF Mapped, Ok
  <2> QED
    BY <2>1, <2>2
<1>2. ASSUME NEW status \in Statuses, e = [response |-> status]
      PROVE  \E class : HandleError(e) = Mapped(class, status)
  <2>1. DOMAIN e = {"response"} /\ e.response = status /\ status # Null
    BY <1>2, NullAssumption
  <2>2. "class" \notin DOMAIN e /\ "response" \in DOMAIN e
    BY <2>1
  <2>3. CASE status = 401
    BY <2>1, <2>2, <2>3 DEF HandleError
  <2>4. CASE status = 403
    BY <2>1, <2>2, <2>4 DEF HandleError
  <2>5. CASE status = 404
    BY <2>1, <2>2, <2>5 DEF HandleError
  <2>6. CASE status = 400
    BY <2>1, <2>2, <2>6 DEF HandleError
  <2>7. CASE status = 408
    BY <2>1, <2>2, <2>7 DEF HandleError
  <2>8. CASE status \notin {400, 401, 403, 404, 408}
    BY <2>1, <2>2, <2>8 DEF HandleError
  <2> QED
    BY <2>3, <2>4, <2>5, <2>6, <2>7, <2>8
<1>3. CASE e \in HttpErrors
  <2>1. PICK status \in Statuses : e = [response |-> status]
    BY <1>3 DEF HttpErrors
  <2> QED
    BY <2>1, <1>2, <1>1
<1>4. CASE e = [response |-> Null, code |-> "ECONNREFUSED"]
  <2>1. DOMAIN e = {"response", "code"} /\ e.response = Null
    BY <1>4
  <2>2. e \notin HttpErrors
    BY <2>1 DEF HttpErrors
  <2>3. \E class, status : HandleError(e) = Mapped(class, status)
    BY <2>1 DEF HandleError
  <2> QED
    BY <2>2, <2>3, <1>1
<1>5. CASE e = [message |-> "fetch failed"]
  <2>1. DOMAIN e = {"message"}
    BY <1>5
  <2>2. e \notin HttpErrors
    BY <2>1 DEF HttpErrors
  <2>3. HandleError(e) = Mapped("KeycloakClientError", 500)
    BY <2>1 DEF HandleError
  <2> QED
    BY <2>2, <2>3, <1>1
<1> QED
  BY <1>3, <1>4, <1>5 DEF RawErrors

\* A success is no error.
LEMMA OkIsNoError == Ok \notin HttpErrors
<1>1. \A e \in HttpErrors : "response" \in DOMAIN e
  BY DEF HttpErrors
<1>2. "response" \notin DOMAIN Ok
  BY DEF Ok
<1> QED
  BY <1>1, <1>2

\* A call that is not over has no result; one that is over was told what Keycloak answered
\* last; and a client that is ready has had a token.
Told ==
  /\ TypeOK
  /\ DOMAIN result = Calls /\ DOMAIN answer = Calls
  /\ \A c \in Calls :
       /\ pc[c] = "idle" => answer[c] = Null
       /\ pc[c] # "done" => result[c] = Null
       /\ pc[c] = "done" =>
            \/ result[c] = Ok /\ answer[c] = Ok
            \/ /\ result[c] # Ok
               /\ answer[c] \in HttpErrors => result[c].StatusCode = answer[c].response
  /\ phase = "ready" => token # "none"

\* An error that answers c ends it with that status or leaves it without a result.
LEMMA ErrorTold ==
  ASSUME Told, NEW c \in Calls, NEW e \in RawErrors, Fails(c, e)
  PROVE  Told'
<1>1. /\ pc[c] = "sent" /\ UNCHANGED <<clientVars, token, op, wrapped, overlap>>
      /\ answer' = [answer EXCEPT ![c] = e] /\ AfterError(c, e)
      /\ (Apply(c) \/ UNCHANGED <<links, applied>>)
  BY DEF Fails
<1>2. ~ Retries(e, inner[c])
  BY RawErrorsEnd
<1>3. e # Null /\ HandleError(e) # Ok
      /\ (e \in HttpErrors => HandleError(e).StatusCode = e.response)
  BY HandlingKeepsStatus, NullAssumption
<1>4. \/ /\ pc' = [pc EXCEPT ![c] = "waiting"] /\ result' = result
         /\ Retries(HandleError(e), outer[c])
         /\ request' = [request EXCEPT ![c] = First(op[c])]
         /\ inner' = [inner EXCEPT ![c] = 0] /\ outer' = [outer EXCEPT ![c] = @ + 1]
      \/ /\ pc' = [pc EXCEPT ![c] = "done"] /\ result' = [result EXCEPT ![c] = HandleError(e)]
         /\ UNCHANGED <<request, inner, outer>>
  BY <1>1, <1>2 DEF AfterError, Finish
<1>5. links' \in Nat /\ applied' \in [Calls -> Nat]
  BY <1>1 DEF Told, TypeOK, Apply
<1>6. inner' \in [Calls -> 0..MaxRetries] /\ outer' \in [Calls -> 0..MaxRetries]
  BY <1>4, OperationsAssumption DEF Told, TypeOK, Retries
<1>7. /\ request' \in [Calls -> {"list", "call"}]
      /\ pc' \in [Calls -> {"idle", "sent", "waiting", "done"}]
  BY <1>4 DEF Told, TypeOK, First
<1>8. TypeOK'
  BY <1>1, <1>5, <1>6, <1>7 DEF Told, TypeOK, clientVars
<1>9. /\ DOMAIN result' = Calls /\ DOMAIN answer' = Calls
      /\ phase' = "ready" => token' # "none"
  BY <1>1, <1>4 DEF Told, clientVars
<1>10. ASSUME NEW d \in Calls
       PROVE  /\ pc'[d] = "idle" => answer'[d] = Null
              /\ pc'[d] # "done" => result'[d] = Null
              /\ pc'[d] = "done" =>
                   \/ result'[d] = Ok /\ answer'[d] = Ok
                   \/ /\ result'[d] # Ok
                      /\ answer'[d] \in HttpErrors => result'[d].StatusCode = answer'[d].response
  <2>1. CASE d = c
    <3>1. answer'[c] = e /\ result[c] = Null
      BY <1>1 DEF Told
    <3>2. \/ pc'[c] = "waiting" /\ result'[c] = Null
          \/ pc'[c] = "done" /\ result'[c] = HandleError(e)
      BY <1>4, <3>1 DEF Told, TypeOK
    <3> QED
      BY <2>1, <3>1, <3>2, <1>3
  <2>2. CASE d # c
    <3>1. pc'[d] = pc[d] /\ result'[d] = result[d] /\ answer'[d] = answer[d]
      BY <1>1, <1>4, <2>2 DEF Told, TypeOK
    <3> QED
      BY <3>1 DEF Told
  <2> QED
    BY <2>1, <2>2
<1> QED
  BY <1>8, <1>9, <1>10 DEF Told

\* A success ends c, or leads it to the call it looked before.
LEMMA SuccessTold ==
  ASSUME Told, NEW c \in Calls, Succeeds(c)
  PROVE  Told'
<1> DEFINE conflict == Mapped("ConflictError", 409)
<1>1. /\ pc[c] = "sent" /\ Apply(c) /\ answer' = [answer EXCEPT ![c] = Ok]
      /\ UNCHANGED <<clientVars, token, op, wrapped, inner, outer, overlap>>
  BY DEF Succeeds
<1>2. conflict # Ok
  <2>1. "class" \in DOMAIN conflict /\ "class" \notin DOMAIN Ok
    BY DEF Mapped, Ok
  <2> QED
    BY <2>1
<1>3. Ok \notin HttpErrors /\ Ok # Null
  BY OkIsNoError, NullAssumption
<1> HIDE DEF conflict
<1>4. \/ /\ pc' = [pc EXCEPT ![c] = "done"] /\ request' = request
         /\ \E r \in {Ok, conflict} : result' = [result EXCEPT ![c] = r]
      \/ pc' = pc /\ result' = result /\ request' = [request EXCEPT ![c] = "call"]
  <2>1. CASE request[c] = "call"
    BY <2>1 DEF Succeeds, Finish
  <2>2. CASE request[c] = "list" /\ links > 0
    BY <2>2 DEF Succeeds, Finish, conflict
  <2>3. CASE request[c] = "list" /\ links = 0
    BY <2>3 DEF Succeeds
  <2> QED
    BY <2>1, <2>2, <2>3 DEF Told, TypeOK
<1>5. links' \in Nat /\ applied' \in [Calls -> Nat]
  BY <1>1 DEF Told, TypeOK, Apply
<1>6. /\ request' \in [Calls -> {"list", "call"}]
      /\ pc' \in [Calls -> {"idle", "sent", "waiting", "done"}]
  BY <1>4 DEF Told, TypeOK
<1>7. TypeOK'
  BY <1>1, <1>5, <1>6 DEF Told, TypeOK, clientVars
<1>8. /\ DOMAIN result' = Calls /\ DOMAIN answer' = Calls
      /\ phase' = "ready" => token' # "none"
  BY <1>1, <1>4 DEF Told, clientVars
<1>9. ASSUME NEW d \in Calls
      PROVE  /\ pc'[d] = "idle" => answer'[d] = Null
             /\ pc'[d] # "done" => result'[d] = Null
             /\ pc'[d] = "done" =>
                  \/ result'[d] = Ok /\ answer'[d] = Ok
                  \/ /\ result'[d] # Ok
                     /\ answer'[d] \in HttpErrors => result'[d].StatusCode = answer'[d].response
  <2>1. CASE d = c
    <3>1. answer'[c] = Ok /\ result[c] = Null
      BY <1>1 DEF Told
    <3>2. \/ pc'[c] = "sent" /\ result'[c] = Null
          \/ pc'[c] = "done" /\ result'[c] \in {Ok, conflict}
      BY <1>1, <1>4, <3>1 DEF Told, TypeOK
    <3> QED
      BY <2>1, <3>1, <3>2, <1>2, <1>3
  <2>2. CASE d # c
    <3>1. pc'[d] = pc[d] /\ result'[d] = result[d] /\ answer'[d] = answer[d]
      BY <1>1, <1>4, <2>2 DEF Told, TypeOK
    <3> QED
      BY <3>1 DEF Told
  <2> QED
    BY <2>1, <2>2
<1> QED
  BY <1>7, <1>8, <1>9 DEF Told

\* A call that is refused before anything is sent was never answered.
LEMMA CallTold ==
  ASSUME Told, NEW c \in Calls, NEW o \in OperationsOf[c], NEW w \in BOOLEAN, Call(c, o, w)
  PROVE  Told'
<1>1. /\ pc[c] = "idle" /\ op' = [op EXCEPT ![c] = o] /\ wrapped' = [wrapped EXCEPT ![c] = w]
      /\ UNCHANGED <<clientVars, token, inner, outer, serverVars>>
  BY DEF Call
<1>2. o \in Operations
  BY OperationsAssumption
<1>3. \A class : Mapped(class, 500) # Ok
  <2> TAKE class
  <2>1. "class" \in DOMAIN Mapped(class, 500) /\ "class" \notin DOMAIN Ok
    BY DEF Mapped, Ok
  <2> QED
    BY <2>1
<1>4. \/ /\ pc' = [pc EXCEPT ![c] = "done"] /\ UNCHANGED <<request, overlap>>
         /\ \E class : result' = [result EXCEPT ![c] = Mapped(class, 500)]
      \/ /\ pc' = [pc EXCEPT ![c] = "sent"] /\ request' = [request EXCEPT ![c] = First(o)]
         /\ overlap' = (overlap \/ (o = Link /\ Linking # {})) /\ result' = result
  BY DEF Call, Finish
<1>5. /\ request' \in [Calls -> {"list", "call"}]
      /\ pc' \in [Calls -> {"idle", "sent", "waiting", "done"}]
  BY <1>4 DEF Told, TypeOK, First
<1>6. overlap' \in BOOLEAN
  BY <1>4 DEF Told, TypeOK
<1>7. TypeOK'
  BY <1>1, <1>2, <1>5, <1>6 DEF Told, TypeOK, clientVars, serverVars
<1>8. /\ DOMAIN result' = Calls /\ DOMAIN answer' = Calls
      /\ phase' = "ready" => token' # "none"
  BY <1>1, <1>4 DEF Told, clientVars, serverVars
<1>9. ASSUME NEW d \in Calls
      PROVE  /\ pc'[d] = "idle" => answer'[d] = Null
             /\ pc'[d] # "done" => result'[d] = Null
             /\ pc'[d] = "done" =>
                  \/ result'[d] = Ok /\ answer'[d] = Ok
                  \/ /\ result'[d] # Ok
                     /\ answer'[d] \in HttpErrors => result'[d].StatusCode = answer'[d].response
  <2>1. CASE d = c
    <3>1. answer'[c] = Null /\ result[c] = Null /\ Null \notin HttpErrors
      BY <1>1, NullAssumption DEF Told, serverVars, RawErrors
    <3>2. \/ pc'[c] = "sent" /\ result'[c] = Null
          \/ pc'[c] = "done" /\ result'[c] # Ok
      BY <1>3, <1>4, <3>1 DEF Told, TypeOK
    <3> QED
      BY <2>1, <3>1, <3>2
  <2>2. CASE d # c
    <3>1. pc'[d] = pc[d] /\ result'[d] = result[d] /\ answer'[d] = answer[d]
      BY <1>1, <1>4, <2>2 DEF Told, TypeOK, serverVars
    <3> QED
      BY <3>1 DEF Told
  <2> QED
    BY <2>1, <2>2
<1> QED
  BY <1>7, <1>8, <1>9 DEF Told

\* The whole of what the application is told, at every step.
LEMMA ToldSteps ==
  ASSUME Told, [Next]_vars
  PROVE  Told'
<1>1. CASE OnModuleInit
  <2>1. /\ UNCHANGED <<config, token, callVars, serverVars>> /\ phase' # "ready"
        /\ phase' \in {"refused", "disabled", "authenticating"}
        /\ granted' \in {granted, KEYCLOAK_DEFAULT_SCOPES} \/
             (config.permissions # Null /\ granted' = config.permissions)
    BY <1>1 DEF OnModuleInit
  <2>2. config.permissions # Null => config.permissions \subseteq KEYCLOAK_ALL_SCOPES
    BY OperationsAssumption DEF Told, TypeOK, Configs
  <2>3. TypeOK'
    BY <2>1, <2>2 DEF Told, TypeOK, callVars, serverVars, KEYCLOAK_ALL_SCOPES
  <2> QED
    BY <2>1, <2>3 DEF Told, callVars, serverVars
<1>2. CASE Authenticate
  <2>1. /\ UNCHANGED <<config, granted, callVars, serverVars>>
        /\ \/ phase' = "ready" /\ token' = "valid"
           \/ phase' = "failed" /\ token' = token
    BY <1>2 DEF Authenticate
  <2> QED
    BY <2>1 DEF Told, TypeOK, callVars, serverVars
<1>3. CASE TokenExpires \/ SetAccessToken
  <2>1. UNCHANGED <<clientVars, callVars, serverVars>> /\ token' \in {"expired", "valid"}
    BY <1>3 DEF TokenExpires, SetAccessToken
  <2> QED
    BY <2>1 DEF Told, TypeOK, clientVars, callVars, serverVars
<1>4. ASSUME NEW c \in Calls, DelayOver(c)
      PROVE  Told'
  <2>1. /\ pc[c] = "waiting" /\ pc' = [pc EXCEPT ![c] = "sent"]
        /\ UNCHANGED <<clientVars, token, op, wrapped, request, inner, outer, result, overlap,
                       serverVars>>
    BY <1>4 DEF DelayOver
  <2>2. TypeOK'
    BY <2>1 DEF Told, TypeOK, clientVars, serverVars
  <2> QED
    BY <2>1, <2>2 DEF Told, TypeOK, clientVars, serverVars
<1>5. CASE UNCHANGED vars
  BY <1>5 DEF Told, TypeOK, vars, clientVars, callVars, serverVars
<1> QED
  BY <1>1, <1>2, <1>3, <1>4, <1>5, CallTold, SuccessTold, ErrorTold DEF Next

\* What the application is told of its calls and of the client's health agrees with what
\* Keycloak answered, whatever fails, expires, is refused or retried.
THEOREM ToldCorrect == Spec => []ToldAsAnswered
<1>1. Init => Told
  <2>1. Init => TypeOK
    <3>1. KEYCLOAK_DEFAULT_SCOPES \subseteq KEYCLOAK_ALL_SCOPES /\ 0 \in 0..MaxRetries
      BY OperationsAssumption DEF KEYCLOAK_ALL_SCOPES
    <3>2. Init => /\ pc \in [Calls -> {"idle", "sent", "waiting", "done"}]
                  /\ op \in [Calls -> Operations \cup {Null}]
                  /\ wrapped \in [Calls -> BOOLEAN]
                  /\ request \in [Calls -> {"list", "call"}]
      BY DEF Init
    <3>3. Init => /\ inner \in [Calls -> 0..MaxRetries]
                  /\ outer \in [Calls -> 0..MaxRetries]
                  /\ applied \in [Calls -> Nat]
      BY <3>1 DEF Init
    <3>4. Init => /\ phase \in {"new", "refused", "disabled", "authenticating", "failed", "ready"}
                  /\ granted \subseteq KEYCLOAK_ALL_SCOPES
                  /\ token \in {"none", "valid", "expired"} /\ links \in Nat /\ config \in Configs
      BY <3>1 DEF Init
    <3>5. Init => overlap \in BOOLEAN
      BY DEF Init
    <3> QED
      BY <3>2, <3>3, <3>4, <3>5 DEF TypeOK
  <2> QED
    BY <2>1 DEF Init, Told
<1>2. Told /\ [Next]_vars => Told'
  BY ToldSteps
<1>3. Told => ToldAsAnswered
  <2>1. Told => FailuresKeepStatus
    BY OkIsNoError, NullAssumption DEF Told, TypeOK, FailuresKeepStatus
  <2>2. Told => StartedIsUp
    BY DEF Told, StartedIsUp, Up, HasClient
  <2> QED
    BY <2>1, <2>2 DEF Told, ToldAsAnswered
<1> QED
  BY <1>1, <1>2, <1>3, PTL DEF Spec
=============================================================================
