---------------------------- MODULE NatsService ----------------------------
(***************************************************************************)
(* NatsService and NatsSubscriberRegistry of nestjs-nats: connecting,      *)
(* registering the decorated handlers, consuming subscriptions one         *)
(* message at a time, draining.                                            *)
(*                                                                         *)
(* The server and the client library are the environment: a link that may  *)
(* go down and come back, deliveries, iterators that fail.                 *)
(***************************************************************************)
EXTENDS Naturals, Sequences, FiniteSets

CONSTANTS
  Messages,     \* messages of the subjects, each sent once
  Wrappers,     \* the providers and controllers DiscoveryService lists
  MethodsOf,    \* MethodsOf[w]: decorated methods of w's instance, {} without one
  Dynamic,      \* subscriptions made by the application with Subscribe
  SubjectOf,    \* SubjectOf[x], of a message or a subscription
  QueueOf,      \* QueueOf[s]: the queue group of a subscription, or Null
  Requesters,   \* the subscriptions whose handler sends a request; the others' publish
  HooksInOrder, \* whether NestJS awaits the onModuleInit of NatsService first
  Null

\* What the registry finds: one subscription per wrapper and decorated method.
Decorated == UNION {{<<w, m>> : m \in MethodsOf[w]} : w \in Wrappers}
Subs == Decorated \cup Dynamic

ASSUME SubscriptionsAssumption ==
  /\ Dynamic \cap Decorated = {}
  /\ \A s \in Subs : s \in DOMAIN SubjectOf /\ s \in DOMAIN QueueOf
  /\ Messages \subseteq DOMAIN SubjectOf
  /\ Requesters \subseteq Subs
  /\ HooksInOrder \in BOOLEAN
  /\ Null \notin Messages

VARIABLES
  connection, \* Connection: "none" | "open" | "draining" | "closed"
  link,       \* whether the server can be reached
  nats,       \* onModuleInit of NatsService: "new" | "connecting" | "ready" | "failed"
  registry,   \* onModuleInit of the registry: "new" | "ready" | "failed"
  shutdown,   \* onApplicationShutdown: "no" | "draining" | "done"
  late,       \* history: the connection opened after that hook had begun
  sub,        \* sub[s]: "none" | "open" | "ended" (no new message) | "broken" (not read any more)
  inbox,      \* inbox[s]: messages the iterator of s has yet to yield
  current,    \* current[s]: the message whose handler is awaited, or Null
  asking,     \* the subscriptions whose handler awaits the answer to a request
  handled,    \* history: handled[s], the messages whose handler has ended
  delivered,  \* history: delivered[s], all the messages s was sent
  sent,       \* history: the messages that were sent
  replied,    \* history: the <<s, m>> whose handler published
  refused     \* history: whether a handler was refused to publish or to ask

lifeVars == <<connection, link, nats, registry, shutdown, late>>
workVars == <<inbox, current, asking, handled, delivered, sent, replied, refused>>
vars == <<lifeVars, sub, workVars>>

Init ==
  /\ connection = "none"
  /\ link \in BOOLEAN
  /\ nats = "new"
  /\ registry = "new"
  /\ shutdown = "no"
  /\ late = FALSE
  /\ sub = [s \in Subs |-> "none"]
  /\ inbox = [s \in Subs |-> <<>>]
  /\ current = [s \in Subs |-> Null]
  /\ asking = {}
  /\ handled = [s \in Subs |-> <<>>]
  /\ delivered = [s \in Subs |-> <<>>]
  /\ sent = {}
  /\ replied = {}
  /\ refused = FALSE

\* IsConnected, and what AssertConnected demands.  The link does not matter.
IsConnected == connection = "open"

-----------------------------------------------------------------------------
(* Life cycle                                                              *)

OnModuleInit ==
  /\ nats = "new"
  /\ nats' = "connecting"
  /\ UNCHANGED <<connection, link, registry, shutdown, late, sub, workVars>>

\* connect() settles: the status monitor is started, or the start of the application fails.
ConnectSettles ==
  /\ nats = "connecting"
  /\ \/ /\ link
        /\ connection' = "open"
        /\ nats' = "ready"
        /\ late' = (shutdown # "no")
     \/ /\ nats' = "failed"
        /\ UNCHANGED <<connection, late>>
  /\ UNCHANGED <<link, registry, shutdown, sub, workVars>>

\* Mutant of RegistryInit: a wrapper whose handler cannot be registered is skipped.
RegistryInitSkips ==
  /\ registry = "new"
  /\ nats # "new"
  /\ HooksInOrder => nats = "ready"
  /\ registry' = "ready"
  /\ sub' = [s \in Subs |-> IF IsConnected /\ s \in Decorated THEN "open" ELSE sub[s]]
  /\ UNCHANGED <<connection, link, nats, shutdown, late, workVars>>

\* onModuleInit of the registry: scan every instance, subscribe every decorated
\* method.  The first Subscribe that throws ends the start of the application.
RegistryInit ==
  /\ registry = "new"
  /\ nats # "new"
  /\ HooksInOrder => nats = "ready"
  /\ \/ /\ IsConnected \/ Decorated = {}
        /\ registry' = "ready"
        /\ sub' = [s \in Subs |-> IF s \in Decorated THEN "open" ELSE sub[s]]
     \/ /\ ~ IsConnected /\ Decorated # {}
        /\ registry' = "failed"
        /\ UNCHANGED sub
  /\ UNCHANGED <<connection, link, nats, shutdown, late, workVars>>

\* Mutant of OnApplicationShutdown: a connection without link is left alone.
OnApplicationShutdownByLink ==
  /\ shutdown = "no"
  /\ nats # "new"
  /\ \/ /\ connection = "open" /\ link
        /\ connection' = "draining"
        /\ shutdown' = "draining"
     \/ /\ ~ (connection = "open" /\ link)
        /\ shutdown' = "done"
        /\ UNCHANGED connection
  /\ UNCHANGED <<link, nats, registry, late, sub, workVars>>

\* A signal may arrive at any time, also while connect() is under way.
OnApplicationShutdown ==
  /\ shutdown = "no"
  /\ nats # "new"
  /\ \/ /\ connection = "open"
        /\ connection' = "draining"
        /\ shutdown' = "draining"
     \/ /\ connection # "open"
        /\ shutdown' = "done"
        /\ UNCHANGED connection
  /\ UNCHANGED <<link, nats, registry, late, sub, workVars>>

\* The end of a connection: its iterators yield what they hold and end.
Close ==
  /\ connection' = "closed"
  /\ sub' = [s \in Subs |-> IF sub[s] = "open" THEN "ended" ELSE sub[s]]

\* drain() settles once the server has confirmed; it does not wait for handlers.
DrainSettles ==
  /\ shutdown = "draining"
  /\ shutdown' = "done"
  /\ IF connection = "closed" THEN UNCHANGED <<connection, sub>> ELSE Close
  /\ UNCHANGED <<link, nats, registry, late, workVars>>

\* The link goes down or comes back: MonitorStatus logs it, the library reconnects
\* and subscribes again.
LinkChanges ==
  /\ link' = ~ link
  /\ UNCHANGED <<connection, nats, registry, shutdown, late, sub, workVars>>

\* The library gives up reconnecting.
ReconnectFails ==
  /\ ~ link
  /\ connection \in {"open", "draining"}
  /\ Close
  /\ UNCHANGED <<link, nats, registry, shutdown, late, workVars>>

-----------------------------------------------------------------------------
(* Subscriptions                                                           *)

\* The application subscribes; a refusal changes nothing.
Subscribe(s) ==
  /\ s \in Dynamic
  /\ sub[s] = "none"
  /\ IsConnected
  /\ sub' = [sub EXCEPT ![s] = "open"]
  /\ UNCHANGED <<lifeVars, workVars>>

\* The application unsubscribes: what the iterator still holds may be dropped.
Unsubscribe(s) ==
  /\ s \in Dynamic
  /\ sub[s] = "open"
  /\ \E after \in {"ended", "broken"} : sub' = [sub EXCEPT ![s] = after]
  /\ UNCHANGED <<lifeVars, workVars>>

\* The server delivers m to the subscriptions of its subject, and to one of each
\* queue group.
Deliver(m) ==
  LET matching == {s \in Subs : sub[s] = "open" /\ SubjectOf[s] = SubjectOf[m]}
  IN  /\ link /\ connection \in {"open", "draining"}
      /\ m \notin sent
      /\ \E to \in SUBSET matching :
           /\ \A s \in matching : QueueOf[s] = Null => s \in to
           /\ \A s \in matching : QueueOf[s] # Null =>
                Cardinality({t \in to : QueueOf[t] = QueueOf[s]}) = 1
           /\ inbox' = [s \in Subs |-> IF s \in to THEN Append(inbox[s], m) ELSE inbox[s]]
           /\ delivered' = [s \in Subs |->
                IF s \in to THEN Append(delivered[s], m) ELSE delivered[s]]
      /\ sent' = sent \cup {m}
      /\ UNCHANGED <<lifeVars, sub, current, asking, handled, replied, refused>>

\* Mutant of HandlerStarts: the loop does not await the handler before.
HandlerStartsAtOnce(s) ==
  /\ sub[s] \in {"open", "ended"}
  /\ inbox[s] # <<>>
  /\ current' = [current EXCEPT ![s] = Head(inbox[s])]
  /\ inbox' = [inbox EXCEPT ![s] = Tail(@)]
  /\ UNCHANGED <<lifeVars, sub, asking, handled, delivered, sent, replied, refused>>

\* Mutant of HandlerStarts: the loop stops with the connection.
HandlerStartsWhileOpen(s) ==
  /\ sub[s] = "open"
  /\ current[s] = Null
  /\ inbox[s] # <<>>
  /\ current' = [current EXCEPT ![s] = Head(inbox[s])]
  /\ inbox' = [inbox EXCEPT ![s] = Tail(@)]
  /\ UNCHANGED <<lifeVars, sub, asking, handled, delivered, sent, replied, refused>>

\* The loop of ConsumeSubscription: the iterator yields, the handler is called.
HandlerStarts(s) ==
  /\ sub[s] \in {"open", "ended"}
  /\ current[s] = Null
  /\ inbox[s] # <<>>
  /\ current' = [current EXCEPT ![s] = Head(inbox[s])]
  /\ inbox' = [inbox EXCEPT ![s] = Tail(@)]
  /\ UNCHANGED <<lifeVars, sub, asking, handled, delivered, sent, replied, refused>>

\* The handler is running: not awaiting an answer.  It publishes, or asks, once.
MaySend(s) == current[s] # Null /\ s \notin asking /\ <<s, current[s]>> \notin replied

\* The message is done with: what a handler throws is caught inside the loop.
Ended(s) ==
  /\ handled' = [handled EXCEPT ![s] = Append(@, current[s])]
  /\ current' = [current EXCEPT ![s] = Null]

\* Publish and Request throw unless the connection is there and does not drain.
AssertConnected(s) ==
  IF IsConnected
  THEN /\ replied' = replied \cup {<<s, current[s]>>}
       /\ UNCHANGED <<current, handled, refused>>
  ELSE /\ refused' = TRUE
       /\ Ended(s)
       /\ UNCHANGED replied

\* The handler publishes a reply.
HandlerPublishes(s) ==
  /\ s \notin Requesters /\ MaySend(s)
  /\ AssertConnected(s)
  /\ UNCHANGED <<lifeVars, sub, inbox, asking, delivered, sent>>

\* The handler sends a request, perhaps to a subject that it listens to itself, and
\* awaits the answer: its subscription waits with it.
HandlerRequests(s) ==
  /\ s \in Requesters /\ MaySend(s)
  /\ AssertConnected(s)
  /\ asking' = IF IsConnected THEN asking \cup {s} ELSE asking
  /\ UNCHANGED <<lifeVars, sub, inbox, delivered, sent>>

\* The answer arrives, the time is up, nobody listens, or the connection is closed.
RequestSettles(s) ==
  /\ s \in asking
  /\ asking' = asking \ {s}
  /\ UNCHANGED <<lifeVars, sub, inbox, current, handled, delivered, sent, replied, refused>>

\* The handler settles.  Its error is caught and logged inside the loop: no difference.
HandlerEnds(s) ==
  /\ current[s] # Null /\ s \notin asking
  /\ Ended(s)
  /\ UNCHANGED <<lifeVars, sub, inbox, asking, delivered, sent, replied, refused>>

\* The iterator throws: the loop is over, which is logged, and nobody subscribes again.
IteratorFails(s) ==
  /\ sub[s] \in {"open", "ended"}
  /\ current[s] = Null
  /\ sub' = [sub EXCEPT ![s] = "broken"]
  /\ UNCHANGED <<lifeVars, workVars>>

Next ==
  \/ OnModuleInit \/ ConnectSettles \/ RegistryInit
  \/ OnApplicationShutdown \/ DrainSettles
  \/ LinkChanges \/ ReconnectFails
  \/ \E s \in Subs :
       \/ Subscribe(s) \/ Unsubscribe(s)
       \/ HandlerStarts(s) \/ HandlerPublishes(s) \/ HandlerEnds(s)
       \/ HandlerRequests(s) \/ RequestSettles(s)
       \/ IteratorFails(s)
  \/ \E m \in Messages : Deliver(m)

\* The event loop goes on, handlers settle, a request settles at the latest when its
\* time is up, and drain() settles.
Fairness ==
  /\ \A s \in Subs :
       WF_vars(HandlerStarts(s)) /\ WF_vars(HandlerEnds(s)) /\ WF_vars(RequestSettles(s))
  /\ WF_vars(DrainSettles)

Spec == Init /\ [][Next]_vars /\ Fairness

-----------------------------------------------------------------------------
(* Properties                                                              *)

\* Every variable holds a value of its kind.
TypeOK ==
  /\ connection \in {"none", "open", "draining", "closed"}
  /\ link \in BOOLEAN
  /\ nats \in {"new", "connecting", "ready", "failed"}
  /\ registry \in {"new", "ready", "failed"}
  /\ shutdown \in {"no", "draining", "done"}
  /\ late \in BOOLEAN
  /\ sub \in [Subs -> {"none", "open", "ended", "broken"}]
  /\ inbox \in [Subs -> Seq(Messages)]
  /\ current \in [Subs -> Messages \cup {Null}]
  /\ asking \subseteq {s \in Subs : current[s] # Null}
  /\ handled \in [Subs -> Seq(Messages)]
  /\ delivered \in [Subs -> Seq(Messages)]
  /\ sent \subseteq Messages
  /\ replied \subseteq Subs \X Messages
  /\ refused \in BOOLEAN

\* Each subscription handles its messages one at a time in the order they were
\* delivered, whatever its handlers throw: none is skipped, repeated or overtaken.
EachInOrder ==
  \A s \in Subs :
    delivered[s] = handled[s] \o (IF current[s] = Null THEN <<>> ELSE <<current[s]>>)
                              \o inbox[s]

\* An application that has started listens to every decorated method, until the
\* connection ends or the iterator of the method fails; and it is only told that
\* its start succeeded when that is so, in whichever order the hooks ran.
StartedListens ==
  nats = "ready" /\ registry = "ready" =>
    \A s \in Decorated :
      \/ sub[s] = "open"
      \/ sub[s] = "ended" /\ connection = "closed"
      \/ sub[s] = "broken"

\* A handler is refused to publish or to ask only when the connection has begun to
\* drain or is closed: because the application shuts down, or because the library
\* gave up reconnecting, with no shutdown at all.  A lost link alone refuses nothing.
RefusedWithoutConnectionOnly == refused => connection \in {"draining", "closed"}

\* The consumption of the subscriptions: no message is skipped, repeated or overtaken,
\* and every handler may send until the connection drains or is closed.
ConsumedInOrder == TypeOK /\ EachInOrder /\ RefusedWithoutConnectionOnly

\* Shutdown ends the connection, whatever the link does, except one that opens after
\* the hook has run: connect() may still be under way.
ShutdownCloses ==
  shutdown # "no" ~> connection \in {"none", "closed"} \/ late

\* Every delivered message is handled, also when the connection is drained or lost
\* with messages queued, unless the iterator fails.
DeliveredIsHandled ==
  \A s \in Subs :
    inbox[s] # <<>> ~> (inbox[s] = <<>> /\ current[s] = Null) \/ sub[s] = "broken"
=============================================================================
