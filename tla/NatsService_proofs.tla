------------------------- MODULE NatsService_proofs -------------------------
(***************************************************************************)
(* Theorems about NatsService, for all sets of messages, subscriptions and *)
(* queue groups, in whichever order NestJS runs the hooks.                  *)
(***************************************************************************)
EXTENDS NatsService, SequenceTheorems, TLAPS

\* The message whose handler is awaited, as a sequence.
InHand(s) == IF current[s] = Null THEN <<>> ELSE <<current[s]>>

\* As long as the start is not over there is no connection, and without a connection
\* there was none to drain, to subscribe or to receive on.
Unconnected ==
  /\ nats # "ready" => connection = "none"
  /\ shutdown = "draining" => connection # "none"
  /\ connection = "none" => \A s \in Subs : sub[s] = "none" /\ inbox[s] = <<>> /\ current[s] = Null

\* A registry that is ready subscribed every decorated method, and only the end of the
\* connection ends such a subscription.
Listening ==
  \A s \in Decorated :
    /\ registry = "ready" => sub[s] # "none"
    /\ sub[s] = "ended" => connection = "closed"

-----------------------------------------------------------------------------
(* Sequences                                                               *)

\* A queue is its first message followed by the others.
LEMMA HeadAndTail ==
  ASSUME NEW S, NEW q \in Seq(S), q # <<>>
  PROVE  q = <<Head(q)>> \o Tail(q)
<1>1. Head(q) \in S /\ Tail(q) \in Seq(S) /\ Len(Tail(q)) = Len(q) - 1
      /\ Head(q) = q[1] /\ \A i \in 1 .. Len(Tail(q)) : Tail(q)[i] = q[i + 1]
  BY HeadTailProperties
<1>2. Len(q) \in Nat \ {0}
  BY EmptySeq
<1>3. <<Head(q)>> \in Seq(S) /\ Len(<<Head(q)>>) = 1 /\ <<Head(q)>>[1] = Head(q)
  BY <1>1
<1>4. /\ <<Head(q)>> \o Tail(q) \in Seq(S)
      /\ Len(<<Head(q)>> \o Tail(q)) = Len(q)
      /\ \A i \in 1 .. Len(q) :
           (<<Head(q)>> \o Tail(q))[i] = IF i <= 1 THEN <<Head(q)>>[i] ELSE Tail(q)[i - 1]
  BY <1>1, <1>2, <1>3, ConcatProperties
<1>5. \A i \in 1 .. Len(q) : q[i] = (<<Head(q)>> \o Tail(q))[i]
  <2> TAKE i \in 1 .. Len(q)
  <2>1. CASE i = 1
    BY <2>1, <1>1, <1>2, <1>3, <1>4
  <2>2. CASE i # 1
    <3>1. i - 1 \in 1 .. Len(Tail(q)) /\ ~ (i <= 1) /\ (i - 1) + 1 = i
      BY <2>2, <1>1, <1>2
    <3> QED
      BY <3>1, <1>1, <1>4
  <2> QED
    BY <2>1, <2>2
<1> QED
  BY <1>4, <1>5, SeqEqual, Zenon

\* To append a message is to put a queue of it behind.
LEMMA AppendConcat ==
  ASSUME NEW S, NEW q \in Seq(S), NEW m \in S
  PROVE  Append(q, m) = q \o <<m>> /\ Append(q, m) \in Seq(S)
BY AppendProperties, AppendIsConcat

\* The iterator yields: its first message comes into the hands of the handler.
LEMMA YieldKeeps ==
  ASSUME NEW S, NEW h \in Seq(S), NEW q \in Seq(S), q # <<>>
  PROVE  (h \o <<>>) \o q = (h \o <<Head(q)>>) \o Tail(q)
<1>1. Head(q) \in S /\ Tail(q) \in Seq(S) /\ <<Head(q)>> \in Seq(S)
  BY HeadTailProperties
<1>2. h \o <<>> = h
  BY ConcatEmptySeq
<1>3. (h \o <<Head(q)>>) \o Tail(q) = h \o (<<Head(q)>> \o Tail(q))
  BY <1>1, ConcatAssociative
<1> QED
  BY <1>2, <1>3, HeadAndTail

\* The handler ends: the message in its hands becomes the last one handled.
LEMMA EndKeeps ==
  ASSUME NEW S, NEW h \in Seq(S), NEW m \in S, NEW q \in Seq(S)
  PROVE  (h \o <<m>>) \o q = (Append(h, m) \o <<>>) \o q
BY AppendConcat, ConcatEmptySeq

\* A delivery: the message is the last one of the inbox.
LEMMA DeliveryKeeps ==
  \A p, q \in Seq(Messages), m \in Messages : Append(p \o q, m) = p \o Append(q, m)
<1> TAKE p, q \in Seq(Messages), m \in Messages
<1>1. p \o q \in Seq(Messages) /\ <<m>> \in Seq(Messages)
  BY ConcatProperties
<1>2. Append(p \o q, m) = (p \o q) \o <<m>> /\ Append(q, m) = q \o <<m>>
  BY <1>1, AppendConcat
<1>3. (p \o q) \o <<m>> = p \o (q \o <<m>>)
  BY <1>1, ConcatAssociative
<1> QED
  BY <1>2, <1>3

-----------------------------------------------------------------------------
(* Types                                                                   *)

\* What a step leaves alone when it only changes the life cycle.
LEMMA TypeStep ==
  ASSUME TypeOK, [Next]_vars
  PROVE  TypeOK'
<1> USE DEF TypeOK
<1>1. CASE OnModuleInit
  BY <1>1 DEF OnModuleInit, workVars
<1>2. CASE ConnectSettles
  <2>1. UNCHANGED <<link, registry, shutdown, sub, workVars>>
        /\ connection' \in {connection, "open"} /\ nats' \in {"ready", "failed"}
    BY <1>2 DEF ConnectSettles
  <2>2. late' \in BOOLEAN
    BY <1>2, Zenon DEF ConnectSettles
  <2> QED
    BY <2>1, <2>2 DEF workVars
<1>3. CASE RegistryInit
  BY <1>3 DEF RegistryInit, workVars
<1>4. CASE OnApplicationShutdown
  BY <1>4 DEF OnApplicationShutdown, workVars
<1>5. CASE DrainSettles
  BY <1>5 DEF DrainSettles, Close, workVars
<1>6. CASE LinkChanges
  <2>1. link' \in BOOLEAN
    BY <1>6, Zenon DEF LinkChanges
  <2> QED
    BY <1>6, <2>1 DEF LinkChanges, workVars
<1>7. CASE ReconnectFails
  BY <1>7 DEF ReconnectFails, Close, workVars
<1>8. ASSUME NEW s \in Subs, Subscribe(s) \/ Unsubscribe(s) \/ IteratorFails(s)
      PROVE  TypeOK'
  <2>1. UNCHANGED <<lifeVars, workVars>> /\ sub' \in [Subs -> {"none", "open", "ended", "broken"}]
    BY <1>8 DEF Subscribe, Unsubscribe, IteratorFails
  <2> QED
    BY <2>1 DEF lifeVars, workVars
<1>9. ASSUME NEW s \in Subs, HandlerStarts(s)
      PROVE  TypeOK'
  <2>1. Head(inbox[s]) \in Messages /\ Tail(inbox[s]) \in Seq(Messages)
    BY <1>9, HeadTailProperties DEF HandlerStarts
  <2>2. current' \in [Subs -> Messages \cup {Null}] /\ inbox' \in [Subs -> Seq(Messages)]
    BY <1>9, <2>1 DEF HandlerStarts
  <2>3. Head(inbox[s]) # Null
    BY <2>1, SubscriptionsAssumption
  <2>4. asking' \subseteq {t \in Subs : current'[t] # Null}
    BY <1>9, <2>3 DEF HandlerStarts
  <2> QED
    BY <1>9, <2>2, <2>4 DEF HandlerStarts, lifeVars
<1>10. ASSUME NEW s \in Subs, current[s] # Null, s \notin asking, Ended(s)
       PROVE  /\ handled' \in [Subs -> Seq(Messages)]
              /\ current' \in [Subs -> Messages \cup {Null}]
              /\ asking \subseteq {t \in Subs : current'[t] # Null}
  <2>1. Append(handled[s], current[s]) \in Seq(Messages)
    BY <1>10, AppendProperties
  <2> QED
    BY <1>10, <2>1 DEF Ended
<1>11. ASSUME NEW s \in Subs, HandlerPublishes(s) \/ HandlerRequests(s)
       PROVE  TypeOK'
  <2>1. /\ current[s] # Null /\ s \notin asking /\ AssertConnected(s)
        /\ UNCHANGED <<lifeVars, sub, inbox, delivered, sent>>
    BY <1>11, Zenon DEF HandlerPublishes, HandlerRequests, MaySend
  <2>4. asking' = asking \/ (IsConnected /\ asking' = asking \cup {s})
    BY <1>11 DEF HandlerPublishes, HandlerRequests
  <2>2. CASE IsConnected
    BY <2>1, <2>2, <2>4 DEF AssertConnected, lifeVars
  <2>3. CASE ~ IsConnected
    BY <2>1, <2>3, <2>4, <1>10 DEF AssertConnected, lifeVars
  <2> QED
    BY <2>2, <2>3
<1>12. ASSUME NEW s \in Subs, RequestSettles(s)
       PROVE  TypeOK'
  BY <1>12 DEF RequestSettles, lifeVars
<1>13. ASSUME NEW s \in Subs, HandlerEnds(s)
       PROVE  TypeOK'
  <2>1. current[s] # Null /\ s \notin asking /\ Ended(s)
        /\ UNCHANGED <<lifeVars, sub, inbox, asking, delivered, sent, replied, refused>>
    BY <1>13 DEF HandlerEnds
  <2> QED
    BY <2>1, <1>10 DEF lifeVars
<1>14. ASSUME NEW m \in Messages, Deliver(m)
       PROVE  TypeOK'
  <2>1. \A s \in Subs : Append(inbox[s], m) \in Seq(Messages)
                         /\ Append(delivered[s], m) \in Seq(Messages)
    BY AppendProperties
  <2>2. inbox' \in [Subs -> Seq(Messages)] /\ delivered' \in [Subs -> Seq(Messages)]
    BY <1>14, <2>1 DEF Deliver
  <2>3. sent' \subseteq Messages /\ UNCHANGED <<lifeVars, sub, current, asking, handled, replied, refused>>
    BY <1>14 DEF Deliver
  <2> QED
    BY <2>2, <2>3 DEF lifeVars
<1>15. CASE UNCHANGED vars
  BY <1>15 DEF vars, lifeVars, workVars
<1> QED
  BY <1>1, <1>2, <1>3, <1>4, <1>5, <1>6, <1>7, <1>8, <1>9, <1>11, <1>12, <1>13, <1>14, <1>15
     DEF Next

\* The variables begin with values of their kinds.
LEMMA TypeInit == Init => TypeOK
<1> SUFFICES ASSUME Init PROVE TypeOK
  OBVIOUS
<1>1. <<>> \in Seq(Messages)
  BY EmptySeq
<1>2. link \in BOOLEAN /\ late \in BOOLEAN /\ refused \in BOOLEAN
  BY Zenon DEF Init
<1>3. /\ connection = "none" /\ nats = "new" /\ registry = "new" /\ shutdown = "no"
      /\ sub = [s \in Subs |-> "none"] /\ current = [s \in Subs |-> Null] /\ asking = {}
      /\ inbox = [s \in Subs |-> <<>>] /\ handled = [s \in Subs |-> <<>>]
      /\ delivered = [s \in Subs |-> <<>>] /\ sent = {} /\ replied = {}
  BY DEF Init
<1> QED
  BY <1>1, <1>2, <1>3 DEF TypeOK

\* Type correctness: every variable keeps a value of its kind, and only a handler that
\* runs awaits an answer.
THEOREM TypeCorrect == Spec => []TypeOK
<1>1. TypeOK /\ [Next]_vars => TypeOK'
  BY TypeStep
<1> QED
  BY TypeInit, <1>1, PTL DEF Spec

-----------------------------------------------------------------------------
(* The connection                                                          *)

LIInv == Unconnected /\ Listening /\ RefusedWithoutConnectionOnly

\* Whatever a handler does needs a message in its hands, hence a connection that was there.
LEMMA HandlersWork ==
  ASSUME TypeOK, LIInv, NEW s \in Subs,
         \/ HandlerStarts(s) \/ HandlerPublishes(s) \/ HandlerRequests(s)
         \/ RequestSettles(s) \/ HandlerEnds(s)
  PROVE  /\ UNCHANGED <<lifeVars, sub>>
         /\ connection # "none"
         /\ refused' = refused \/ ~ IsConnected
<1>1. CASE HandlerStarts(s)
  BY <1>1 DEF HandlerStarts, LIInv, Unconnected
<1>2. CASE HandlerPublishes(s)
  BY <1>2 DEF HandlerPublishes, MaySend, AssertConnected, LIInv, Unconnected
<1>3. CASE HandlerRequests(s)
  BY <1>3 DEF HandlerRequests, MaySend, AssertConnected, LIInv, Unconnected
<1>4. CASE RequestSettles(s)
  BY <1>4 DEF RequestSettles, LIInv, Unconnected, TypeOK
<1>5. CASE HandlerEnds(s)
  BY <1>5 DEF HandlerEnds, LIInv, Unconnected
<1> QED
  BY <1>1, <1>2, <1>3, <1>4, <1>5

\* A step keeps what is known of the connection.
LEMMA ConnectionStep ==
  ASSUME TypeOK, LIInv, [Next]_vars
  PROVE  LIInv'
<1> USE DEF LIInv, Unconnected, Listening, RefusedWithoutConnectionOnly
<1>1. CASE OnModuleInit
  BY <1>1 DEF OnModuleInit, workVars
<1>2. CASE ConnectSettles
  <2>1. connection = "none" /\ ~ refused
    BY <1>2 DEF ConnectSettles, TypeOK
  <2>2. \A s \in Subs : sub[s] = "none"
    BY <2>1
  <2> QED
    BY <1>2, <2>1, <2>2 DEF ConnectSettles, workVars, Subs
<1>3. CASE RegistryInit
  <2>1. CASE sub' = sub /\ registry' = "failed"
    BY <1>3, <2>1 DEF RegistryInit, workVars
  <2>2. CASE (IsConnected \/ Decorated = {}) /\ registry' = "ready"
             /\ sub' = [s \in Subs |-> IF s \in Decorated THEN "open" ELSE sub[s]]
    <3>1. \A s \in Decorated : sub'[s] = "open"
      BY <2>2 DEF Subs
    <3> QED
      BY <1>3, <2>2, <3>1 DEF RegistryInit, workVars, IsConnected
  <2> QED
    BY <1>3, <2>1, <2>2 DEF RegistryInit
<1>4. CASE OnApplicationShutdown
  BY <1>4 DEF OnApplicationShutdown, workVars
<1>5. ASSUME Close, UNCHANGED <<nats, registry, workVars>>, connection \in {"open", "draining"}
      PROVE  LIInv'
  <2>1. connection' = "closed" /\ nats = "ready"
    BY <1>5 DEF Close
  <2>2. \A s \in Decorated : sub'[s] = "none" => sub[s] = "none"
    BY <1>5 DEF Close, Subs
  <2> QED
    BY <1>5, <2>1, <2>2 DEF workVars
<1>6. CASE DrainSettles
  <2>1. CASE connection \in {"closed", "none"} /\ UNCHANGED <<connection, sub>>
    BY <1>6, <2>1 DEF DrainSettles, workVars
  <2>2. CASE connection # "closed" /\ Close
    <3>1. UNCHANGED <<nats, registry, workVars>>
      BY <1>6 DEF DrainSettles
    <3>2. connection \in {"open", "draining"}
      BY <1>6, <2>2 DEF DrainSettles, TypeOK
    <3> QED
      BY <1>5, <2>2, <3>1, <3>2
  <2> QED
    BY <1>6, <2>1, <2>2 DEF DrainSettles
<1>7. CASE LinkChanges
  BY <1>7 DEF LinkChanges, workVars
<1>8. CASE ReconnectFails
  BY <1>8, <1>5 DEF ReconnectFails
<1>9. ASSUME NEW s \in Subs, Subscribe(s) \/ Unsubscribe(s)
      PROVE  LIInv'
  <2>1. /\ s \in Dynamic /\ connection # "none" /\ UNCHANGED <<lifeVars, workVars>>
        /\ \E after \in {"open", "ended", "broken"} : sub' = [sub EXCEPT ![s] = after]
    BY <1>9 DEF Subscribe, Unsubscribe, IsConnected
  <2>2. \A t \in Decorated : sub'[t] = sub[t]
    BY <2>1, SubscriptionsAssumption DEF Subs, TypeOK
  <2> QED
    BY <2>1, <2>2 DEF lifeVars, workVars
<1>10. ASSUME NEW s \in Subs, IteratorFails(s)
       PROVE  LIInv'
  <2>1. connection # "none" /\ sub' = [sub EXCEPT ![s] = "broken"] /\ UNCHANGED <<lifeVars, workVars>>
    BY <1>10 DEF IteratorFails
  <2>2. \A t \in Decorated : sub'[t] = sub[t] \/ sub'[t] = "broken"
    BY <2>1 DEF Subs, TypeOK
  <2> QED
    BY <2>1, <2>2 DEF lifeVars, workVars
<1>11. ASSUME NEW s \in Subs,
              \/ HandlerStarts(s) \/ HandlerPublishes(s) \/ HandlerRequests(s)
              \/ RequestSettles(s) \/ HandlerEnds(s)
       PROVE  LIInv'
  <2>1. UNCHANGED <<lifeVars, sub>> /\ connection # "none" /\ (refused' = refused \/ ~ IsConnected)
    BY <1>11, HandlersWork
  <2> QED
    BY <2>1 DEF lifeVars, IsConnected, TypeOK
<1>12. ASSUME NEW m \in Messages, Deliver(m)
       PROVE  LIInv'
  BY <1>12 DEF Deliver, lifeVars
<1>13. CASE UNCHANGED vars
  BY <1>13 DEF vars, lifeVars, workVars
<1> QED
  BY <1>1, <1>2, <1>3, <1>4, <1>6, <1>7, <1>8, <1>9, <1>10, <1>11, <1>12, <1>13 DEF Next

\* There is no connection at the start.
LEMMA ConnectionInit == Init => LIInv
BY Zenon DEF Init, LIInv, Unconnected, Listening, RefusedWithoutConnectionOnly, Subs

\* However the link fails, nothing is subscribed or received without a connection, a
\* registry that is ready listens for every decorated method until the connection ends,
\* and no handler is refused to send while the connection is open.
THEOREM ConnectionCorrect == Spec => []LIInv
<1>1. TypeOK /\ LIInv /\ [Next]_vars => LIInv'
  BY ConnectionStep
<1> QED
  BY ConnectionInit, TypeCorrect, <1>1, PTL DEF Spec

-----------------------------------------------------------------------------
(* Consumption                                                             *)

\* A handler that is done with its message.
LEMMA EndedInOrder ==
  ASSUME TypeOK, EachInOrder, NEW s \in Subs, current[s] # Null, Ended(s),
         UNCHANGED <<inbox, delivered>>
  PROVE  EachInOrder'
<1>1. current[s] \in Messages /\ handled[s] \in Seq(Messages) /\ inbox[s] \in Seq(Messages)
  BY DEF TypeOK
<1>2. delivered[s] = (handled[s] \o <<current[s]>>) \o inbox[s]
  BY DEF EachInOrder
<1>3. handled'[s] = Append(handled[s], current[s]) /\ current'[s] = Null
  BY DEF Ended, TypeOK
<1>4. (handled[s] \o <<current[s]>>) \o inbox[s] = (Append(handled[s], current[s]) \o <<>>) \o inbox[s]
  <2>1. \A h, q \in Seq(Messages), m \in Messages :
          (h \o <<m>>) \o q = (Append(h, m) \o <<>>) \o q
    BY EndKeeps
  <2> QED
    BY <1>1, <2>1, Zenon
<1>5. \A t \in Subs \ {s} : handled'[t] = handled[t] /\ current'[t] = current[t]
  BY DEF Ended, TypeOK
<1>6. ASSUME NEW t \in Subs
      PROVE  delivered[t] = (handled'[t] \o InHand(t)') \o inbox[t]
  <2>1. CASE t = s
    BY <2>1, <1>2, <1>3, <1>4 DEF InHand
  <2>2. CASE t # s
    BY <2>2, <1>5 DEF EachInOrder, InHand
  <2> QED
    BY <2>1, <2>2
<1> QED
  BY <1>6 DEF EachInOrder, InHand

\* A step keeps the messages of each subscription in order.
LEMMA OrderStep ==
  ASSUME TypeOK, EachInOrder, [Next]_vars
  PROVE  EachInOrder'
<1>1. ASSUME UNCHANGED <<inbox, current, handled, delivered>>
      PROVE  EachInOrder'
  BY <1>1 DEF EachInOrder
<1>2. CASE \/ OnModuleInit \/ ConnectSettles \/ RegistryInit \/ OnApplicationShutdown
           \/ DrainSettles \/ LinkChanges \/ ReconnectFails \/ UNCHANGED vars
  BY <1>2, <1>1 DEF OnModuleInit, ConnectSettles, RegistryInit, OnApplicationShutdown,
       DrainSettles, LinkChanges, ReconnectFails, vars, workVars
<1>3. ASSUME NEW s \in Subs,
             Subscribe(s) \/ Unsubscribe(s) \/ IteratorFails(s) \/ RequestSettles(s)
      PROVE  EachInOrder'
  BY <1>3, <1>1 DEF Subscribe, Unsubscribe, IteratorFails, RequestSettles, workVars
<1>4. ASSUME NEW s \in Subs, HandlerStarts(s)
      PROVE  EachInOrder'
  <2>1. /\ inbox[s] # <<>> /\ current[s] = Null /\ UNCHANGED <<handled, delivered>>
        /\ current' = [current EXCEPT ![s] = Head(inbox[s])]
        /\ inbox' = [inbox EXCEPT ![s] = Tail(inbox[s])]
    BY <1>4 DEF HandlerStarts
  <2>2. handled[s] \in Seq(Messages) /\ inbox[s] \in Seq(Messages)
    BY DEF TypeOK
  <2>3. Head(inbox[s]) \in Messages
    BY <2>1, <2>2, HeadTailProperties
  <2>4. Head(inbox[s]) # Null
    BY <2>3, SubscriptionsAssumption
  <2>5. delivered[s] = (handled[s] \o <<>>) \o inbox[s]
    BY <2>1 DEF EachInOrder
  <2>6. delivered[s] = (handled[s] \o <<Head(inbox[s])>>) \o Tail(inbox[s])
    BY <2>1, <2>2, <2>5, YieldKeeps
  <2>7. current'[s] = Head(inbox[s]) /\ inbox'[s] = Tail(inbox[s])
    BY <2>1 DEF TypeOK
  <2>8. \A t \in Subs \ {s} : current'[t] = current[t] /\ inbox'[t] = inbox[t]
    BY <2>1 DEF TypeOK
  <2>9. ASSUME NEW t \in Subs
        PROVE  delivered'[t] = (handled'[t] \o InHand(t)') \o inbox'[t]
    <3>1. CASE t = s
      <4>1. InHand(s)' = <<Head(inbox[s])>>
        BY <2>4, <2>7 DEF InHand
      <4> QED
        BY <3>1, <4>1, <2>1, <2>6, <2>7
    <3>2. CASE t # s
      BY <3>2, <2>1, <2>8 DEF EachInOrder, InHand
    <3> QED
      BY <3>1, <3>2
  <2> QED
    BY <2>9 DEF EachInOrder, InHand
<1>5. ASSUME NEW s \in Subs, HandlerPublishes(s) \/ HandlerRequests(s)
      PROVE  EachInOrder'
  <2>1. current[s] # Null /\ AssertConnected(s) /\ UNCHANGED <<inbox, delivered>>
    BY <1>5, Zenon DEF HandlerPublishes, HandlerRequests, MaySend
  <2> QED
    BY <2>1, <1>1, EndedInOrder DEF AssertConnected
<1>6. ASSUME NEW s \in Subs, HandlerEnds(s)
      PROVE  EachInOrder'
  BY <1>6, EndedInOrder DEF HandlerEnds
<1>7. ASSUME NEW m \in Messages, Deliver(m)
      PROVE  EachInOrder'
  <2>1. PICK to \in SUBSET Subs :
          /\ inbox' = [s \in Subs |-> IF s \in to THEN Append(inbox[s], m) ELSE inbox[s]]
          /\ delivered' = [s \in Subs |-> IF s \in to THEN Append(delivered[s], m) ELSE delivered[s]]
          /\ UNCHANGED <<current, handled>>
    BY <1>7 DEF Deliver
  <2>2. ASSUME NEW s \in Subs
        PROVE  delivered'[s] = (handled'[s] \o InHand(s)') \o inbox'[s]
    <3>1. InHand(s)' = InHand(s) /\ handled'[s] = handled[s]
      BY <2>1 DEF InHand
    <3>2. delivered[s] = (handled[s] \o InHand(s)) \o inbox[s]
      BY DEF EachInOrder, InHand
    <3>3. CASE s \notin to
      BY <2>1, <3>1, <3>2, <3>3
    <3>4. CASE s \in to
      <4>1. InHand(s) \in Seq(Messages)
        <5>1. CASE current[s] = Null
          BY <5>1, EmptySeq DEF InHand
        <5>2. CASE current[s] # Null
          <6>1. InHand(s) = <<current[s]>> /\ current[s] \in Messages
            BY <5>2 DEF InHand, TypeOK
          <6> QED
            BY <6>1
        <5> QED
          BY <5>1, <5>2
      <4>2. handled[s] \o InHand(s) \in Seq(Messages) /\ inbox[s] \in Seq(Messages)
        BY <4>1, ConcatProperties DEF TypeOK
      <4>3. Append((handled[s] \o InHand(s)) \o inbox[s], m)
              = (handled[s] \o InHand(s)) \o Append(inbox[s], m)
        BY <4>2, DeliveryKeeps, Zenon
      <4>4. delivered'[s] = Append(delivered[s], m) /\ inbox'[s] = Append(inbox[s], m)
        BY <2>1, <3>4
      <4> QED
        BY <3>1, <3>2, <4>3, <4>4
    <3> QED
      BY <3>3, <3>4
  <2> QED
    BY <2>2 DEF EachInOrder, InHand
<1> QED
  BY <1>2, <1>3, <1>4, <1>5, <1>6, <1>7 DEF Next

\* At the start no message was sent.
LEMMA OrderInit == Init => EachInOrder
<1>1. <<>> \o <<>> = <<>>
  BY EmptySeq, ConcatEmptySeq
<1> QED
  BY <1>1 DEF Init, EachInOrder

\* Consumption: each subscription handles its messages one at a time and in the order
\* they were delivered, and a handler is refused to send only once the connection drains
\* or is closed, by the application's shutdown or by the library.
THEOREM ConsumptionCorrect == Spec => []ConsumedInOrder
<1>1. TypeOK /\ EachInOrder /\ [Next]_vars => EachInOrder'
  BY OrderStep
<1>2. Spec => []EachInOrder
  BY OrderInit, TypeCorrect, <1>1, PTL DEF Spec
<1>3. TypeOK /\ EachInOrder /\ LIInv => ConsumedInOrder
  BY DEF ConsumedInOrder, LIInv
<1> QED
  BY TypeCorrect, ConnectionCorrect, <1>2, <1>3, PTL

\* A started application listens: whatever the order of the hooks, once both have
\* succeeded every decorated method is subscribed until the connection ends.
THEOREM ListeningCorrect == Spec => []StartedListens
<1>1. TypeOK /\ LIInv => StartedListens
  BY DEF LIInv, Listening, StartedListens, TypeOK, Subs
<1> QED
  BY TypeCorrect, ConnectionCorrect, <1>1, PTL
=============================================================================
