------------------------ MODULE GuardPipeline_proofs ------------------------
(***************************************************************************)
(* Theorems about GuardPipeline, for every set of executions, requests,    *)
(* tokens, keys and demands, every TTL and every bound on the clock.       *)
(***************************************************************************)
EXTENDS GuardPipeline, TLAPS

\* Keys are received, and executions begin, in the past.
ThePast ==
  /\ \A k \in Kids : leasedAt[k] # Null => leasedAt[k] <= now
  /\ \A x \in Executions : arrival[x] <= now

\* How far each execution is agrees with what is asked for it: the token whose fate it
\* awaits exists, and in offline mode names a key.
Progress ==
  \A x \in Executions :
    /\ pc[x] = "introspecting" =>
         validationMode = "online" /\ Token(x) # Null /\ ~ demand[x].public
    /\ pc[x] \in {"keyless", "awaiting"} =>
         /\ validationMode = "offline"
         /\ Token(x) # Null
         /\ Kid[Token(x)] # Null
         /\ ~ demand[x].public
    /\ pc[x] \in {"new", "introspecting", "keyless"} => lookup[x] = "idle"
    /\ pc[x] = "awaiting" => wanted[x] = Kid[Token(x)]

\* The answers that came in are evidence, also if they are read late.
Answered ==
  \A x \in Executions :
    /\ answer[x] = "active" => x \in vouched /\ Token(x) \in Genuine
    /\ lookup[x] = "found" =>
         /\ leasedAt[wanted[x]] # Null
         /\ arrival[x] < leasedAt[wanted[x]] + JwksCacheTtl

\* What is accepted was examined, and stays good.
AcceptedOnEvidence ==
  \A x \in accepted :
    /\ pc[x] # "new"
    /\ Token(x) # Null
    /\ validationMode = "offline" => Kid[Token(x)] # Null
    /\ Evidence(x)

\* The attached user is one that a guard accepted.
UserAccepted ==
  \A o \in Objects : user[o] # Null => \E y \in accepted : on[y] = o

Entitled(x, required) ==
  required # {} =>
    /\ Token(x) # Null
    /\ RolesOf[Token(x)] \cap required # {}
    /\ \E y \in accepted : on[y] = on[x]

\* Whoever passed a guard was entitled to.
PassedGuards ==
  \A x \in Executions :
    /\ pc[x] \in {"roles", "permissions"} \/ outcome[x] = "handled" =>
         demand[x].public \/ x \in accepted
    /\ pc[x] = "permissions" \/ outcome[x] = "handled" => Entitled(x, demand[x].roles)
    /\ outcome[x] = "handled" => Entitled(x, demand[x].permissions)

IInv ==
  /\ ThePast
  /\ Progress
  /\ Answered
  /\ AcceptedOnEvidence
  /\ UserAccepted
  /\ PassedGuards

-----------------------------------------------------------------------------
(* What the helpers of the guards do                                       *)

\* An execution goes on or ends, and no other one moves.
LEMMA Moves ==
  ASSUME TypeOK, NEW x \in Executions,
         \/ \E next \in {"introspecting", "keyless", "awaiting", "roles", "permissions"} :
              pc[x] # "done" /\ Goto(x, next)
         \/ \E result \in {"handled", "unauthorized", "forbidden"} : Finish(x, result)
  PROVE  /\ pc' \in [Executions -> {"new", "introspecting", "keyless", "awaiting", "roles",
                                    "permissions", "done"}]
         /\ outcome' \in [Executions -> {"none", "handled", "unauthorized", "forbidden"}]
         /\ \A y \in Executions : outcome'[y] = "none" <=> pc'[y] # "done"
         /\ \A y \in Executions \ {x} : pc'[y] = pc[y] /\ outcome'[y] = outcome[y]
BY DEF TypeOK, Goto, Finish

\* Attach either refuses the execution, or lets it on to the roles and makes its token
\* the user of its request.
LEMMA AttachMoves ==
  ASSUME TypeOK, NEW x \in Executions, NEW valid \in BOOLEAN, Attach(x, valid), pc[x] # "done"
  PROVE  /\ \/ \E next \in {"roles"} : pc[x] # "done" /\ Goto(x, next)
            \/ \E result \in {"unauthorized"} : Finish(x, result)
         /\ accepted' \subseteq Executions
         /\ user' \in [Objects -> Tokens \cup {Null}]
         /\ \A o \in Objects : user'[o] \in {token[o], Null}
<1> USE DEF TypeOK
<1>1. Token(x) = token[on[x]] /\ on[x] \in Objects /\ token[on[x]] \in Tokens \cup {Null}
  BY DEF Token
<1>2. user' = user \/ user' = [user EXCEPT ![on[x]] = Token(x)]
  BY DEF Attach
<1>3. accepted' \subseteq Executions
  BY DEF Attach
<1>4. user' \in [Objects -> Tokens \cup {Null}] /\ \A o \in Objects : user'[o] \in {token[o], Null}
  BY <1>1, <1>2
<1>5. \/ \E next \in {"roles"} : pc[x] # "done" /\ Goto(x, next)
      \/ \E result \in {"unauthorized"} : Finish(x, result)
  BY DEF Attach
<1> QED
  BY <1>3, <1>4, <1>5

-----------------------------------------------------------------------------
(* Types                                                                   *)

\* The variables begin with values of their kinds.
LEMMA InitTyped == Init => TypeOK
BY TokensAssumption DEF Init, TypeOK, Cache!Init

\* A step keeps them.
LEMMA TypeStep ==
  ASSUME TypeOK, Progress, [Next]_vars
  PROVE  TypeOK'
<1>1. ASSUME NEW x \in Executions, JwtAuthGuard(x) PROVE TypeOK'
  <2>1. \/ \E next \in {"introspecting", "keyless", "roles"} : pc[x] # "done" /\ Goto(x, next)
        \/ \E result \in {"unauthorized"} : Finish(x, result)
    BY <1>1 DEF JwtAuthGuard
  <2>2. arrival' \in [Executions -> Nat]
    BY <1>1 DEF JwtAuthGuard, TypeOK
  <2>3. UNCHANGED <<keyVars, revoked, inputVars, user, answer, vouched, accepted>>
    BY <1>1 DEF JwtAuthGuard, TypeOK
  <2> QED
    BY <2>1, <2>2, <2>3, Moves DEF TypeOK, keyVars, inputVars
<1>2. ASSUME NEW x \in Executions, IntrospectionReturns(x) PROVE TypeOK'
  <2>1. IntrospectionOk(x) \in BOOLEAN /\ pc[x] # "done" /\ Attach(x, IntrospectionOk(x))
    BY <1>2 DEF IntrospectionReturns, IntrospectionOk
  <2>2. UNCHANGED <<keyVars, revoked, inputVars, answer, arrival, vouched>>
    BY <1>2 DEF IntrospectionReturns
  <2> QED
    BY <2>1, <2>2, AttachMoves, Moves DEF TypeOK, keyVars, inputVars
<1>3. ASSUME NEW x \in Executions, GetKey(x) PROVE TypeOK'
  <2>1. Kid[Token(x)] \in Kids
    BY <1>3, TokensAssumption DEF GetKey, Progress, TypeOK, Token
  <2>2. lookup' \in [Executions -> {"idle", "pending", "found", "unauthorized"}]
        /\ wanted' \in [Executions -> Kids] /\ UNCHANGED <<now, leasedAt>>
    BY <1>3, <2>1 DEF GetKey, Cache!AnswerAtOnce, Cache!Ask, TypeOK
  <2>3. \E next \in {"awaiting"} : pc[x] # "done" /\ Goto(x, next)
    BY <1>3 DEF GetKey
  <2>4. UNCHANGED <<revoked, inputVars, user, answer, arrival, vouched, accepted>>
    BY <1>3 DEF GetKey
  <2> QED
    BY <2>2, <2>3, <2>4, Moves DEF TypeOK, inputVars
<1>4. ASSUME NEW x \in Executions, Verify(x) PROVE TypeOK'
  <2>1. Verified(x) \in BOOLEAN /\ pc[x] # "done" /\ Attach(x, Verified(x))
    BY <1>4 DEF Verify, Verified
  <2>2. UNCHANGED <<keyVars, revoked, inputVars, answer, arrival, vouched>>
    BY <1>4 DEF Verify
  <2> QED
    BY <2>1, <2>2, AttachMoves, Moves DEF TypeOK, keyVars, inputVars
<1>5. ASSUME NEW x \in Executions, RoleGuard(x) \/ PermissionGuard(x) PROVE TypeOK'
  <2>1. \/ \E next \in {"permissions"} : pc[x] # "done" /\ Goto(x, next)
        \/ \E result \in {"handled", "unauthorized", "forbidden"} : Finish(x, result)
    BY <1>5 DEF RoleGuard, PermissionGuard, Authorize
  <2>2. UNCHANGED <<keyVars, revoked, inputVars, user, answer, arrival, vouched, accepted>>
    BY <1>5 DEF RoleGuard, PermissionGuard
  <2> QED
    BY <2>1, <2>2, Moves DEF TypeOK, keyVars, inputVars
<1>6. ASSUME NEW x \in Executions, KeycloakIntrospects(x) PROVE TypeOK'
  BY <1>6 DEF KeycloakIntrospects, TypeOK, keyVars, inputVars
<1>7. ASSUME NEW x \in Executions, GetKeySettles(x) PROVE TypeOK'
  BY <1>7 DEF GetKeySettles, Cache!Grant, Cache!Refuse, TypeOK, inputVars, runVars
<1>8. ASSUME NEW o \in Objects, Revoke(o) PROVE TypeOK'
  BY <1>8 DEF Revoke, TypeOK, keyVars, inputVars, runVars
<1>9. CASE ReceiveKeys
  <2>1. leasedAt' \in [Kids -> Nat \cup {Null}] /\ UNCHANGED <<now, lookup, wanted>>
    BY <1>9 DEF ReceiveKeys, Cache!Receive, TypeOK
  <2> QED
    BY <1>9, <2>1 DEF ReceiveKeys, TypeOK, inputVars, runVars
<1>10. CASE Tick
  BY <1>10 DEF Tick, Cache!Tick, TypeOK, inputVars, runVars
<1>11. CASE UNCHANGED vars
  BY <1>11 DEF TypeOK, vars, keyVars, inputVars, runVars
<1> QED
  BY <1>1, <1>2, <1>3, <1>4, <1>5, <1>6, <1>7, <1>8, <1>9, <1>10, <1>11 DEF Next, Step

-----------------------------------------------------------------------------
(* The inductive invariant                                                 *)

\* Before any request nothing has been decided.
LEMMA InitInv == Init => IInv
BY TokensAssumption DEF Init, IInv, ThePast, Progress, Answered, AcceptedOnEvidence,
  UserAccepted, PassedGuards, Cache!Init

\* Time goes on, so what was received or began stays in the past.
LEMMA PastStep ==
  ASSUME TypeOK, ThePast, [Next]_vars
  PROVE  ThePast'
<1> USE DEF ThePast
<1>1. ASSUME NEW x \in Executions, JwtAuthGuard(x) PROVE ThePast'
  BY <1>1 DEF JwtAuthGuard, keyVars, TypeOK
<1>2. ASSUME NEW x \in Executions,
             GetKey(x) \/ GetKeySettles(x) \/ KeycloakIntrospects(x)
      PROVE  ThePast'
  BY <1>2 DEF GetKey, GetKeySettles, KeycloakIntrospects, Cache!AnswerAtOnce, Cache!Ask,
     Cache!Grant, Cache!Refuse, keyVars, runVars
<1>3. ASSUME NEW x \in Executions,
             IntrospectionReturns(x) \/ Verify(x) \/ RoleGuard(x) \/ PermissionGuard(x)
      PROVE  ThePast'
  BY <1>3 DEF IntrospectionReturns, Verify, RoleGuard, PermissionGuard, keyVars
<1>4. CASE (\E o \in Objects : Revoke(o)) \/ UNCHANGED vars
  BY <1>4 DEF Revoke, vars, keyVars, runVars
<1>5. CASE ReceiveKeys
  BY <1>5 DEF ReceiveKeys, Cache!Receive, runVars, TypeOK
<1>6. CASE Tick
  BY <1>6 DEF Tick, Cache!Tick, runVars, TypeOK
<1> QED
  BY <1>1, <1>2, <1>3, <1>4, <1>5, <1>6 DEF Next, Step

\* Evidence once gathered is never lost: what Keycloak vouched for stays vouched for, and
\* a lease only ever becomes longer.
LEMMA EvidenceStays ==
  ASSUME TypeOK, ThePast, [Next]_vars,
         NEW x \in Executions, pc[x] # "new"
  PROVE  /\ UNCHANGED <<token, on, demand, context, validationMode>>
         /\ arrival'[x] = arrival[x]
         /\ vouched \subseteq vouched'
         /\ \A k \in Kids : leasedAt[k] # Null =>
              leasedAt'[k] # Null /\ leasedAt[k] <= leasedAt'[k] /\ leasedAt'[k] \in Nat
<1> DEFINE Goal ==
      /\ UNCHANGED <<token, on, demand, context, validationMode>>
      /\ arrival'[x] = arrival[x]
      /\ vouched \subseteq vouched'
      /\ \A k \in Kids : leasedAt[k] # Null =>
           leasedAt'[k] # Null /\ leasedAt[k] <= leasedAt'[k] /\ leasedAt'[k] \in Nat
<1>0. ASSUME UNCHANGED leasedAt
      PROVE  \A k \in Kids : leasedAt[k] # Null =>
               leasedAt'[k] # Null /\ leasedAt[k] <= leasedAt'[k] /\ leasedAt'[k] \in Nat
  BY <1>0 DEF TypeOK
<1>1. ASSUME NEW y \in Executions, JwtAuthGuard(y) PROVE Goal
  BY <1>0, <1>1 DEF JwtAuthGuard, keyVars, inputVars, TypeOK
<1>2. ASSUME NEW y \in Executions,
             GetKey(y) \/ GetKeySettles(y) \/ KeycloakIntrospects(y)
      PROVE  Goal
  BY <1>0, <1>2 DEF GetKey, GetKeySettles, KeycloakIntrospects, Cache!AnswerAtOnce,
     Cache!Ask, Cache!Grant, Cache!Refuse, keyVars, inputVars, runVars
<1>3. ASSUME NEW y \in Executions,
             IntrospectionReturns(y) \/ Verify(y) \/ RoleGuard(y) \/ PermissionGuard(y)
      PROVE  Goal
  BY <1>0, <1>3 DEF IntrospectionReturns, Verify, RoleGuard, PermissionGuard, keyVars, inputVars
<1>4. CASE (\E o \in Objects : Revoke(o)) \/ Tick \/ UNCHANGED vars
  BY <1>0, <1>4 DEF Revoke, Tick, Cache!Tick, vars, keyVars, inputVars, runVars
<1>5. CASE ReceiveKeys
  <2>1. UNCHANGED <<token, on, demand, context, validationMode, arrival, vouched>>
    BY <1>5 DEF ReceiveKeys, inputVars, runVars
  <2>2. \A k \in Kids : leasedAt[k] # Null =>
          leasedAt'[k] # Null /\ leasedAt[k] <= leasedAt'[k] /\ leasedAt'[k] \in Nat
    BY <1>5, TokensAssumption DEF ReceiveKeys, Cache!Receive, ThePast, TypeOK
  <2> QED
    BY <2>1, <2>2
<1> QED
  BY <1>1, <1>2, <1>3, <1>4, <1>5 DEF Next, Step

\* An execution whose evidence is complete keeps it.
LEMMA EvidenceMonotone ==
  ASSUME TypeOK, ThePast, [Next]_vars,
         NEW x \in Executions, pc[x] # "new", Token(x) # Null, Evidence(x),
         validationMode = "offline" => Kid[Token(x)] # Null
  PROVE  Evidence(x)'
<1>1. Token(x)' = Token(x)
  BY EvidenceStays DEF Token
<1>2. Token(x) \in Tokens /\ arrival[x] \in Nat
  BY TokensAssumption DEF TypeOK, Token
<1>3. CASE validationMode = "offline"
  <2>1. Kid[Token(x)] \in Kids
    BY <1>2, <1>3, TokensAssumption
  <2>2. leasedAt[Kid[Token(x)]] # Null =>
          /\ leasedAt'[Kid[Token(x)]] # Null
          /\ leasedAt[Kid[Token(x)]] <= leasedAt'[Kid[Token(x)]]
          /\ leasedAt'[Kid[Token(x)]] \in Nat
          /\ leasedAt[Kid[Token(x)]] \in Nat
    BY <2>1, EvidenceStays DEF TypeOK
  <2> QED
    BY <1>1, <1>2, <1>3, <2>2, EvidenceStays, TimeAssumption DEF Evidence
<1>4. CASE validationMode # "offline"
  BY <1>1, <1>4, EvidenceStays DEF Evidence
<1> QED
  BY <1>3, <1>4

\* The position of an execution changes in its own steps only.
LEMMA ProgressStep ==
  ASSUME TypeOK, Progress, [Next]_vars
  PROVE  Progress'
<1> USE DEF Progress
<1>1. ASSUME NEW x \in Executions, JwtAuthGuard(x) PROVE Progress'
  <2>1. UNCHANGED <<keyVars, inputVars>>
    BY <1>1 DEF JwtAuthGuard
  <2>2. \A y \in Executions \ {x} : pc'[y] = pc[y]
    BY <1>1 DEF JwtAuthGuard, Goto, Finish, TypeOK
  <2>3. /\ pc[x] = "new"
        /\ \/ pc'[x] \in {"roles", "done"}
           \/ /\ ~ demand[x].public /\ Token(x) # Null
              /\ \/ pc'[x] = "introspecting" /\ validationMode = "online"
                 \/ /\ pc'[x] = "keyless" /\ validationMode = "offline"
                    /\ Kid[Token(x)] # Null
    BY <1>1 DEF JwtAuthGuard, Goto, Finish, TypeOK
  <2> QED
    BY <2>1, <2>2, <2>3 DEF keyVars, inputVars, Token
<1>2. ASSUME NEW x \in Executions, GetKey(x) PROVE Progress'
  <2>1. UNCHANGED inputVars /\ pc[x] = "keyless" /\ pc' = [pc EXCEPT ![x] = "awaiting"]
    BY <1>2 DEF GetKey, Goto
  <2>2. wanted' = [wanted EXCEPT ![x] = Kid[Token(x)]]
        /\ \A y \in Executions \ {x} : lookup'[y] = lookup[y]
    BY <1>2 DEF GetKey, Cache!AnswerAtOnce, Cache!Ask, TypeOK
  <2> QED
    BY <2>1, <2>2 DEF inputVars, Token, TypeOK
<1>3. ASSUME NEW x \in Executions, IntrospectionReturns(x) \/ Verify(x) PROVE Progress'
  <2>1. UNCHANGED <<keyVars, inputVars>>
    BY <1>3 DEF IntrospectionReturns, Verify
  <2>2. (\A y \in Executions \ {x} : pc'[y] = pc[y]) /\ pc'[x] \in {"roles", "done"}
    BY <1>3 DEF IntrospectionReturns, Verify, Attach, Goto, Finish, TypeOK
  <2> QED
    BY <2>1, <2>2 DEF keyVars, inputVars, Token
<1>4. ASSUME NEW x \in Executions, RoleGuard(x) \/ PermissionGuard(x) PROVE Progress'
  <2>1. UNCHANGED <<keyVars, inputVars>>
    BY <1>4 DEF RoleGuard, PermissionGuard
  <2>2. (\A y \in Executions \ {x} : pc'[y] = pc[y]) /\ pc'[x] \in {"permissions", "done"}
    BY <1>4 DEF RoleGuard, PermissionGuard, Authorize, Goto, Finish, TypeOK
  <2> QED
    BY <2>1, <2>2 DEF keyVars, inputVars, Token
<1>5. ASSUME NEW x \in Executions, GetKeySettles(x) PROVE Progress'
  BY <1>5 DEF GetKeySettles, Cache!Grant, Cache!Refuse, inputVars, runVars, Token, TypeOK
<1>6. CASE ReceiveKeys \/ Tick
  BY <1>6 DEF ReceiveKeys, Cache!Receive, Tick, Cache!Tick, inputVars, runVars, Token
<1>7. CASE \/ \E x \in Executions : KeycloakIntrospects(x)
           \/ \E o \in Objects : Revoke(o)
           \/ UNCHANGED vars
  BY <1>7 DEF KeycloakIntrospects, Revoke, vars, keyVars, inputVars, runVars, Token
<1> QED
  BY <1>1, <1>2, <1>3, <1>4, <1>5, <1>6, <1>7 DEF Next, Step

\* An answer is given on evidence, and evidence is never lost.  A lookup is granted under
\* a lease that runs now, hence ran after the execution began.
LEMMA AnsweredStep ==
  ASSUME TypeOK, ThePast, Progress, Answered, [Next]_vars
  PROVE  Answered'
<1> SUFFICES ASSUME NEW x \in Executions
             PROVE  /\ answer'[x] = "active" => x \in vouched' /\ Token(x)' \in Genuine
                    /\ lookup'[x] = "found" =>
                         /\ leasedAt'[wanted'[x]] # Null
                         /\ arrival'[x] < leasedAt'[wanted'[x]] + JwksCacheTtl
  BY DEF Answered
<1> DEFINE Asked == answer'[x] = "active" => x \in vouched' /\ Token(x)' \in Genuine
           Leased == lookup'[x] = "found" =>
                       /\ leasedAt'[wanted'[x]] # Null
                       /\ arrival'[x] < leasedAt'[wanted'[x]] + JwksCacheTtl
<1>1. ASSUME NEW y \in Executions, KeycloakIntrospects(y) PROVE Asked /\ Leased
  BY <1>1 DEF KeycloakIntrospects, Answered, TypeOK, keyVars, inputVars, Token
<1>2. ASSUME NEW y \in Executions, JwtAuthGuard(y) PROVE Asked /\ Leased
  <2>1. UNCHANGED <<keyVars, inputVars, answer, vouched>> /\ pc[y] = "new"
        /\ arrival' = [arrival EXCEPT ![y] = now]
    BY <1>2 DEF JwtAuthGuard
  <2>2. lookup[y] = "idle"
    BY <2>1 DEF Progress
  <2> QED
    BY <2>1, <2>2 DEF Answered, TypeOK, keyVars, inputVars, Token
<1>3. ASSUME NEW y \in Executions, GetKey(y) \/ GetKeySettles(y) PROVE Asked /\ Leased
  <2>1. UNCHANGED <<inputVars, answer, vouched, arrival, now, leasedAt>>
    BY <1>3 DEF GetKey, GetKeySettles, Cache!AnswerAtOnce, Cache!Ask, Cache!Grant,
       Cache!Refuse, runVars
  <2>2. \A z \in Executions : z # y => lookup'[z] = lookup[z] /\ wanted'[z] = wanted[z]
    BY <1>3 DEF GetKey, GetKeySettles, Cache!AnswerAtOnce, Cache!Ask, Cache!Grant,
       Cache!Refuse, TypeOK
  <2>3. wanted'[y] \in Kids
    BY <1>3, TokensAssumption DEF GetKey, GetKeySettles, Cache!AnswerAtOnce, Cache!Ask,
       Cache!Grant, Cache!Refuse, TypeOK, Progress, Token
  <2>4. lookup'[y] = "found" => Cache!Leased(wanted'[y])
    BY <1>3 DEF GetKey, GetKeySettles, Cache!AnswerAtOnce, Cache!Ask, Cache!Grant,
       Cache!Refuse, TypeOK
  <2>5. Asked
    BY <2>1 DEF Answered, inputVars, Token
  <2>6. CASE x = y
    BY <2>1, <2>3, <2>4, <2>5, <2>6, TimeAssumption DEF Cache!Leased, ThePast, TypeOK
  <2>7. CASE x # y
    BY <2>1, <2>2, <2>5, <2>7 DEF Answered
  <2> QED
    BY <2>6, <2>7
<1>4. ASSUME NEW y \in Executions,
             IntrospectionReturns(y) \/ Verify(y) \/ RoleGuard(y) \/ PermissionGuard(y)
      PROVE  Asked /\ Leased
  BY <1>4 DEF IntrospectionReturns, Verify, RoleGuard, PermissionGuard, Answered, keyVars,
     inputVars, Token
<1>5. CASE ReceiveKeys
  <2>1. UNCHANGED <<inputVars, answer, vouched, arrival, lookup, wanted>>
    BY <1>5 DEF ReceiveKeys, Cache!Receive, runVars
  <2>2. wanted[x] \in Kids
    BY DEF TypeOK
  <2>3. leasedAt[wanted[x]] # Null =>
          /\ leasedAt'[wanted[x]] # Null
          /\ leasedAt[wanted[x]] \in Nat
          /\ leasedAt'[wanted[x]] \in Nat
          /\ leasedAt[wanted[x]] <= leasedAt'[wanted[x]]
    BY <1>5, <2>2, TokensAssumption DEF ReceiveKeys, Cache!Receive, ThePast, TypeOK
  <2> QED
    BY <2>1, <2>3, TimeAssumption DEF Answered, inputVars, Token, TypeOK
<1>6. CASE Tick \/ (\E o \in Objects : Revoke(o)) \/ UNCHANGED vars
  BY <1>6 DEF Tick, Cache!Tick, Revoke, Answered, vars, keyVars, inputVars, runVars, Token
<1> QED
  BY <1>1, <1>2, <1>3, <1>4, <1>5, <1>6 DEF Next, Step

\* The two ways to be accepted, and the evidence there is for each.
LEMMA AcceptStep ==
  ASSUME TypeOK, IInv, NEW x \in Executions,
         \/ IntrospectionReturns(x) /\ IntrospectionOk(x)
         \/ Verify(x) /\ Verified(x)
  PROVE  /\ Token(x) # Null
         /\ validationMode = "offline" => Kid[Token(x)] # Null
         /\ Evidence(x)
<1>1. CASE IntrospectionReturns(x) /\ IntrospectionOk(x)
  BY <1>1 DEF IntrospectionReturns, IntrospectionOk, IInv, Progress, Answered, Evidence
<1>2. CASE Verify(x) /\ Verified(x)
  <2>1. /\ pc[x] = "awaiting"
        /\ lookup[x] = "found"
        /\ now < Expiry[Token(x)]
        /\ Token(x) \in Genuine /\ Token(x) \in Issued /\ Token(x) \in Addressed
    BY <1>2 DEF Verify, Verified
  <2>2. /\ validationMode = "offline" /\ Token(x) # Null /\ Kid[Token(x)] # Null
        /\ wanted[x] = Kid[Token(x)]
    BY <2>1 DEF IInv, Progress
  <2>3. arrival[x] < Expiry[Token(x)]
    <3>1. Expiry[Token(x)] \in Nat /\ arrival[x] \in Nat /\ now \in Nat /\ arrival[x] <= now
      BY <2>2, TokensAssumption DEF TypeOK, Token, IInv, ThePast
    <3> QED
      BY <2>1, <3>1
  <2> QED
    BY <2>1, <2>2, <2>3 DEF IInv, Answered, Evidence
<1> QED
  BY <1>1, <1>2

\* Who is accepted in a step was accepted before or is accepted now; nobody starts again.
LEMMA AcceptedGrows ==
  ASSUME TypeOK, [Next]_vars
  PROVE  /\ accepted \subseteq accepted'
         /\ \A x \in accepted' \ accepted :
              /\ x \in Executions
              /\ pc'[x] = "roles"
              /\ \/ IntrospectionReturns(x) /\ IntrospectionOk(x)
                 \/ Verify(x) /\ Verified(x)
         /\ \A x \in Executions : pc[x] # "new" => pc'[x] # "new"
<1> DEFINE Goal ==
      /\ accepted \subseteq accepted'
      /\ \A x \in accepted' \ accepted :
           /\ x \in Executions
           /\ pc'[x] = "roles"
           /\ \/ IntrospectionReturns(x) /\ IntrospectionOk(x)
              \/ Verify(x) /\ Verified(x)
      /\ \A x \in Executions : pc[x] # "new" => pc'[x] # "new"
<1>1. ASSUME NEW x \in Executions, IntrospectionReturns(x) \/ Verify(x) PROVE Goal
  <2>1. ASSUME NEW valid \in BOOLEAN, Attach(x, valid)
        PROVE  /\ accepted' = IF valid THEN accepted \cup {x} ELSE accepted
               /\ valid => pc'[x] = "roles"
               /\ \A y \in Executions : pc[y] # "new" => pc'[y] # "new"
    BY <2>1 DEF Attach, Goto, Finish, TypeOK
  <2>2. CASE IntrospectionReturns(x)
    <3>1. IntrospectionOk(x) \in BOOLEAN /\ Attach(x, IntrospectionOk(x))
      BY <2>2 DEF IntrospectionReturns, IntrospectionOk
    <3> QED
      BY <2>1, <2>2, <3>1
  <2>3. CASE Verify(x)
    <3>1. Verified(x) \in BOOLEAN /\ Attach(x, Verified(x))
      BY <2>3 DEF Verify, Verified
    <3> QED
      BY <2>1, <2>3, <3>1
  <2> QED
    BY <1>1, <2>2, <2>3
<1>2. ASSUME NEW x \in Executions,
             JwtAuthGuard(x) \/ GetKey(x) \/ RoleGuard(x) \/ PermissionGuard(x)
      PROVE  Goal
  <2>1. UNCHANGED accepted
    BY <1>2 DEF JwtAuthGuard, GetKey, RoleGuard, PermissionGuard
  <2>2. \A y \in Executions : pc[y] # "new" => pc'[y] # "new"
    BY <1>2 DEF JwtAuthGuard, GetKey, RoleGuard, PermissionGuard, Authorize, Goto, Finish, TypeOK
  <2> QED
    BY <2>1, <2>2
<1>3. CASE \/ \E x \in Executions : KeycloakIntrospects(x) \/ GetKeySettles(x)
           \/ \E o \in Objects : Revoke(o)
           \/ ReceiveKeys \/ Tick \/ UNCHANGED vars
  BY <1>3 DEF KeycloakIntrospects, GetKeySettles, Revoke, ReceiveKeys, Tick, vars, runVars
<1> QED
  BY <1>1, <1>2, <1>3 DEF Next, Step

\* Accepted executions stay accepted on evidence.
LEMMA AcceptedStep ==
  ASSUME TypeOK, IInv, [Next]_vars
  PROVE  AcceptedOnEvidence'
<1> SUFFICES ASSUME NEW x \in accepted'
             PROVE  /\ pc'[x] # "new"
                    /\ Token(x)' # Null
                    /\ validationMode' = "offline" => Kid[Token(x)'] # Null
                    /\ Evidence(x)'
  BY DEF AcceptedOnEvidence
<1>1. /\ x \in Executions
      /\ pc[x] # "new" /\ pc'[x] # "new"
      /\ Token(x) # Null
      /\ validationMode = "offline" => Kid[Token(x)] # Null
      /\ Evidence(x)
  <2>1. CASE x \in accepted
    BY <2>1, AcceptedGrows DEF IInv, AcceptedOnEvidence, TypeOK
  <2>2. CASE x \notin accepted
    <3>1. /\ x \in Executions /\ pc'[x] = "roles"
          /\ \/ IntrospectionReturns(x) /\ IntrospectionOk(x)
             \/ Verify(x) /\ Verified(x)
      BY <2>2, AcceptedGrows
    <3>2. pc[x] # "new"
      BY <3>1 DEF IntrospectionReturns, Verify
    <3> QED
      BY <3>1, <3>2, AcceptStep
  <2> QED
    BY <2>1, <2>2
<1>2. Evidence(x)'
  BY <1>1, EvidenceMonotone DEF IInv
<1>3. Token(x)' = Token(x) /\ validationMode' = validationMode
  BY <1>1, EvidenceStays DEF Token, IInv
<1> QED
  BY <1>1, <1>2, <1>3

\* A user is attached by the guard that accepts it.
LEMMA UserStep ==
  ASSUME TypeOK, UserAccepted, [Next]_vars
  PROVE  UserAccepted'
<1> USE DEF UserAccepted
<1>1. ASSUME NEW x \in Executions, IntrospectionReturns(x) \/ Verify(x) PROVE UserAccepted'
  <2>1. ASSUME NEW valid \in BOOLEAN, Attach(x, valid)
        PROVE  \/ UNCHANGED user /\ accepted \subseteq accepted'
               \/ /\ user' = [user EXCEPT ![on[x]] = Token(x)]
                  /\ accepted' = accepted \cup {x}
    BY <2>1 DEF Attach
  <2>2. (\E valid \in BOOLEAN : Attach(x, valid)) /\ UNCHANGED inputVars
    BY <1>1 DEF IntrospectionReturns, Verify, IntrospectionOk, Verified
  <2> QED
    BY <2>1, <2>2 DEF inputVars, TypeOK
<1>2. CASE \/ \E x \in Executions : \/ JwtAuthGuard(x) \/ GetKey(x) \/ GetKeySettles(x)
                                    \/ KeycloakIntrospects(x) \/ RoleGuard(x) \/ PermissionGuard(x)
           \/ \E o \in Objects : Revoke(o)
           \/ ReceiveKeys \/ Tick \/ UNCHANGED vars
  BY <1>2 DEF JwtAuthGuard, GetKey, GetKeySettles, KeycloakIntrospects, RoleGuard,
     PermissionGuard, Revoke, ReceiveKeys, Tick, vars, inputVars, runVars
<1> QED
  BY <1>1, <1>2 DEF Next, Step

\* RoleGuard and PermissionGuard let pass who is entitled.
LEMMA AuthorizeEntitles ==
  ASSUME TypeOK, UserAccepted, NEW x \in Executions, NEW required \in SUBSET Roles,
         NEW next \in BOOLEAN, Authorize(x, required, next),
         ~ \E result \in {"unauthorized", "forbidden"} : Finish(x, result)
  PROVE  next /\ Entitled(x, required)
<1>1. CASE required = {}
  BY <1>1 DEF Authorize, Entitled
<1>2. CASE required # {}
  <2>1. /\ user[on[x]] # Null
        /\ RolesOf[user[on[x]]] \cap required # {}
        /\ next
    BY <1>2 DEF Authorize
  <2>2. user[on[x]] = Token(x)
    BY <2>1 DEF TypeOK, Token
  <2>3. \E y \in accepted : on[y] = on[x]
    BY <2>1 DEF UserAccepted, TypeOK
  <2> QED
    BY <2>1, <2>2, <2>3 DEF Entitled
<1> QED
  BY <1>1, <1>2

\* Entitlement is not lost.
LEMMA EntitledStays ==
  ASSUME TypeOK, [Next]_vars, UNCHANGED inputVars, NEW x \in Executions,
         NEW required \in SUBSET Roles, Entitled(x, required)
  PROVE  Entitled(x, required)'
BY AcceptedGrows DEF Entitled, Token, inputVars

\* No guard is passed without being entitled to.
LEMMA PassedStep ==
  ASSUME TypeOK, IInv, [Next]_vars
  PROVE  PassedGuards'
<1> DEFINE Passed(x) ==
      /\ pc[x] \in {"roles", "permissions"} \/ outcome[x] = "handled" =>
           demand[x].public \/ x \in accepted
      /\ pc[x] = "permissions" \/ outcome[x] = "handled" => Entitled(x, demand[x].roles)
      /\ outcome[x] = "handled" => Entitled(x, demand[x].permissions)
<1>0. UNCHANGED inputVars /\ accepted \subseteq accepted'
  <2>1. UNCHANGED inputVars
    BY DEF Next, Step, JwtAuthGuard, IntrospectionReturns, GetKey, Verify, RoleGuard,
       PermissionGuard, KeycloakIntrospects, GetKeySettles, Revoke, ReceiveKeys, Tick, vars
  <2> QED
    BY <2>1, AcceptedGrows
<1> SUFFICES ASSUME NEW x \in Executions PROVE Passed(x)'
  BY DEF PassedGuards
<1>1. demand[x].roles \in SUBSET Roles /\ demand[x].permissions \in SUBSET Roles
  BY DemandsAssumption DEF TypeOK
<1>2. Passed(x) /\ UserAccepted
  BY DEF IInv, PassedGuards
<1>3. ASSUME pc'[x] = pc[x], outcome'[x] = outcome[x] PROVE Passed(x)'
  BY <1>0, <1>1, <1>2, <1>3, EntitledStays DEF inputVars
<1>4. ASSUME pc'[x] \notin {"roles", "permissions"}, outcome'[x] # "handled"
      PROVE  Passed(x)'
  BY <1>4
<1>5. ASSUME NEW y \in Executions, JwtAuthGuard(y) PROVE Passed(x)'
  <2>1. CASE x = y
    <3>1. /\ outcome'[x] # "handled"
          /\ pc'[x] \in {"roles", "permissions"} => pc'[x] = "roles" /\ demand[x].public
      BY <1>5, <2>1 DEF JwtAuthGuard, Goto, Finish, TypeOK
    <3> QED
      BY <3>1, <1>0 DEF inputVars
  <2>2. CASE x # y
    BY <1>3, <1>5, <2>2 DEF JwtAuthGuard, Goto, Finish, TypeOK
  <2> QED
    BY <2>1, <2>2
<1>6. ASSUME NEW y \in Executions, IntrospectionReturns(y) \/ Verify(y) PROVE Passed(x)'
  <2>1. CASE x = y
    <3>1. /\ outcome'[x] # "handled"
          /\ pc'[x] \in {"roles", "permissions"} => pc'[x] = "roles" /\ x \in accepted'
      BY <1>6, <2>1 DEF IntrospectionReturns, Verify, Attach, Goto, Finish, TypeOK
    <3> QED
      BY <3>1
  <2>2. CASE x # y
    BY <1>3, <1>6, <2>2 DEF IntrospectionReturns, Verify, Attach, Goto, Finish, TypeOK
  <2> QED
    BY <2>1, <2>2
<1>7. ASSUME NEW y \in Executions, GetKey(y) PROVE Passed(x)'
  <2>1. pc' = [pc EXCEPT ![y] = "awaiting"] /\ UNCHANGED outcome /\ pc[y] = "keyless"
    BY <1>7 DEF GetKey, Goto
  <2>2. outcome[y] # "handled"
    BY <2>1 DEF TypeOK
  <2>3. CASE x = y
    BY <1>4, <2>1, <2>2, <2>3 DEF TypeOK
  <2>4. CASE x # y
    BY <1>3, <2>1, <2>4 DEF TypeOK
  <2> QED
    BY <2>3, <2>4
<1>8. ASSUME NEW y \in Executions, RoleGuard(y) PROVE Passed(x)'
  <2>1. CASE x # y
    BY <1>3, <1>8, <2>1 DEF RoleGuard, Authorize, Goto, Finish, TypeOK
  <2>2. CASE x = y
    <3>1. pc[x] = "roles" /\ Authorize(x, demand[x].roles, Goto(x, "permissions"))
      BY <1>8, <2>2 DEF RoleGuard
    <3>2. CASE \E result \in {"unauthorized", "forbidden"} : Finish(x, result)
      BY <1>4, <3>2 DEF Finish, TypeOK
    <3>3. CASE ~ \E result \in {"unauthorized", "forbidden"} : Finish(x, result)
      <4>1. Goto(x, "permissions") \in BOOLEAN
        BY DEF Goto
      <4>2. Goto(x, "permissions") /\ Entitled(x, demand[x].roles)
        BY <1>1, <1>2, <3>1, <3>3, <4>1, AuthorizeEntitles
      <4>3. pc'[x] = "permissions" /\ outcome'[x] # "handled"
        BY <3>1, <4>2 DEF Goto, TypeOK
      <4>4. Entitled(x, demand[x].roles)'
        BY <1>0, <1>1, <4>2, EntitledStays DEF inputVars
      <4> QED
        BY <1>0, <1>2, <3>1, <4>3, <4>4 DEF inputVars
    <3> QED
      BY <3>2, <3>3
  <2> QED
    BY <2>1, <2>2
<1>9. ASSUME NEW y \in Executions, PermissionGuard(y) PROVE Passed(x)'
  <2>1. CASE x # y
    BY <1>3, <1>9, <2>1 DEF PermissionGuard, Authorize, Goto, Finish, TypeOK
  <2>2. CASE x = y
    <3>1. /\ pc[x] = "permissions"
          /\ Authorize(x, demand[x].permissions, Finish(x, "handled"))
      BY <1>9, <2>2 DEF PermissionGuard
    <3>2. CASE \E result \in {"unauthorized", "forbidden"} : Finish(x, result)
      BY <1>4, <3>2 DEF Finish, TypeOK
    <3>3. CASE ~ \E result \in {"unauthorized", "forbidden"} : Finish(x, result)
      <4>1. Finish(x, "handled") \in BOOLEAN
        BY DEF Finish
      <4>2. Finish(x, "handled") /\ Entitled(x, demand[x].permissions)
        BY <1>1, <1>2, <3>1, <3>3, <4>1, AuthorizeEntitles
      <4>3. Entitled(x, demand[x].roles)' /\ Entitled(x, demand[x].permissions)'
        BY <1>0, <1>1, <1>2, <3>1, <4>2, EntitledStays DEF inputVars
      <4> QED
        BY <1>0, <1>2, <3>1, <4>3 DEF inputVars
    <3> QED
      BY <3>2, <3>3
  <2> QED
    BY <2>1, <2>2
<1>10. CASE \/ \E y \in Executions : KeycloakIntrospects(y) \/ GetKeySettles(y)
            \/ \E o \in Objects : Revoke(o)
            \/ ReceiveKeys \/ Tick \/ UNCHANGED vars
  BY <1>3, <1>10 DEF KeycloakIntrospects, GetKeySettles, Revoke, ReceiveKeys, Tick, vars, runVars
<1> QED
  BY <1>5, <1>6, <1>7, <1>8, <1>9, <1>10 DEF Next, Step

-----------------------------------------------------------------------------
(* Theorems                                                                *)

\* The inductive invariant holds.
LEMMA Invariance == Spec => [](TypeOK /\ IInv)
<1>1. Init => TypeOK /\ IInv
  BY InitTyped, InitInv
<1>2. TypeOK /\ IInv /\ [Next]_vars => TypeOK' /\ IInv'
  BY TypeStep, PastStep, ProgressStep, AnsweredStep, AcceptedStep, UserStep, PassedStep DEF IInv
<1> QED
  BY <1>1, <1>2, PTL DEF Spec

\* Type correctness: every variable keeps a value of its kind, the user on a request comes
\* from its own token, and an execution has an outcome exactly when it is over.
THEOREM TypeCorrect == Spec => []TypeOK
BY Invariance, PTL

\* No protected handler runs without evidence for its token.
THEOREM EvidenceCorrect == Spec => []RunsOnEvidence
<1>1. IInv => RunsOnEvidence
  BY DEF IInv, PassedGuards, AcceptedOnEvidence, RunsOnEvidence
<1> QED
  BY <1>1, Invariance, PTL

\* No handler that asks for roles or permissions runs for a token without them, or for one
\* that no guard of its request validated.
THEOREM AuthorizationCorrect == Spec => []RunsAuthorized
<1>1. IInv => RunsAuthorized
  BY DEF IInv, PassedGuards, AcceptedOnEvidence, RunsAuthorized, Entitled
<1> QED
  BY <1>1, Invariance, PTL
=============================================================================
