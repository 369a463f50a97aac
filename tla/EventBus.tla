------------------------------ MODULE EventBus ------------------------------
(***************************************************************************)
(* The RabbitMQ topic exchange "raffle.events" as the services use it, and *)
(* the consumer protocol that CatalogService, OrderService and             *)
(* NotificationService all repeat: take a delivery, test-and-set its       *)
(* MessageId in an in-memory store, work, acknowledge; on an exception     *)
(* publish a copy with a larger x-retry header and dead-letter the         *)
(* original.  The work itself is in OrderSaga, which extends this module.  *)
(*                                                                         *)
(* Every copy the broker holds is a record with its own tag, so a queue is *)
(* a set; mid is the MessageId in the body, shared by retry copies.        *)
(* Deliveries are unordered: two catalog replicas compete for one queue    *)
(* and an unacknowledged delivery is put back.                             *)
(***************************************************************************)
EXTENDS Naturals

CONSTANTS
  Orders,      \* order ids
  Catalogs,    \* the replicas of CatalogService
  OrderSvc,    \* the one instance of OrderService
  Notifier,    \* the one instance of NotificationService
  NoMsg,       \* stands for "no delivery in hand"
  MaxFaults,   \* bound: exceptions thrown by a database, SMTP or broker call
  MaxLosses    \* bound: processes that crash and connections that are lost, together

Keys == {"order.placed", "inventory.reserved", "inventory.rejected",
         "inventory.release-requested", "order.status-changed"}

RetryLimit == 3     \* the literal of every catch block

Message == [tag: Nat, mid: Nat, key: Keys, order: Orders,
            success: BOOLEAN, retry: 0..RetryLimit]

ASSUME BusAssumption ==
  /\ OrderSvc \notin Catalogs       \* three distinct kinds of process
  /\ Notifier \notin Catalogs
  /\ OrderSvc # Notifier
  /\ NoMsg \notin Message
  /\ MaxFaults \in Nat /\ MaxLosses \in Nat

Services == Catalogs \cup {OrderSvc, Notifier}

\* The durable queue a routing key is bound to.
Queue == [k \in Keys |->
            CASE k = "order.placed"                -> "inventory.order-placed"
              [] k = "inventory.release-requested" -> "inventory.release-requested"
              [] k = "order.status-changed"        -> "notifications.order-status"
              [] OTHER                             -> "orders.inventory-reserved.v2"]

Queues == {Queue[k] : k \in Keys}

\* The queues whose deliveries a service runs through its processed-message
\* store, and all the queues it declares, binds and consumes.
Reads(s) ==
  CASE s = OrderSvc -> {"orders.inventory-reserved.v2"}
    [] s = Notifier -> {"notifications.order-status"}
    [] OTHER        -> {"inventory.order-placed"}

Declares(s) ==
  IF s \in Catalogs THEN Reads(s) \cup {"inventory.release-requested"} ELSE Reads(s)

\* The routing key a service republishes a failed delivery under.  A rejection
\* that OrderService fails on comes back under "inventory.reserved".
RetryKey(s) ==
  CASE s = OrderSvc -> "inventory.reserved"
    [] s = Notifier -> "order.status-changed"
    [] OTHER        -> "order.placed"

\* Where a handler stands: its own steps, then the protocol's.
PC == {"idle", "check", "reply", "apply", "release", "announce", "send",
       "settle", "catch", "nack"}

VARIABLES
  ready,      \* copies waiting in the queues
  dead,       \* copies in the dead-letter queues, which nothing consumes
  bound,      \* queues declared so far; a declared queue is durable
  nextId,     \* source of fresh tags and MessageIds
  host,       \* each process: "down", "starting" (serves HTTP only) or "up"
  seen,       \* ProcessedMessageStore of each process: in memory, never evicted
  pc,         \* where each consumer's handler stands
  held,       \* the delivery each handler has in hand
  stale,      \* handlers whose delivery the broker has already taken back
  cut,        \* services whose consumer connection is gone and not recovered yet
  log,        \* history: every event published, as first published
  done,       \* history: MessageIds some handler finished its work for
  unrouted,   \* history: MessageIds published while no queue was bound
  abandoned,  \* history: MessageIds whose handler gave up on a stale delivery
  lost,       \* history: MessageIds published on a connection that was gone
  faults, crashes, drops

brokerVars  == <<ready, dead, bound, nextId>>
handlerVars == <<pc, held, stale, cut>>
historyVars == <<log, done, unrouted, abandoned, lost>>
boundVars   == <<faults, crashes, drops>>
busVars     == <<brokerVars, host, seen, handlerVars, historyVars, boundVars>>

\* Every variable of the bus holds a value of its type, and a handler has a
\* delivery in hand exactly while it is at work.
BusTypeOK ==
  /\ ready \subseteq Message /\ dead \subseteq Message /\ log \subseteq Message
  /\ bound \subseteq Queues
  /\ nextId \in Nat
  /\ host \in [Services -> {"down", "starting", "up"}]
  /\ seen \in [Services -> SUBSET Nat]
  /\ pc \in [Services -> PC]
  /\ held \in [Services -> Message \cup {NoMsg}]
  /\ \A s \in Services : held[s] = NoMsg <=> pc[s] = "idle"
  /\ stale \subseteq Services /\ cut \subseteq Services
  /\ done \subseteq Nat /\ unrouted \subseteq Nat /\ abandoned \subseteq Nat /\ lost \subseteq Nat
  /\ faults \in Nat /\ crashes \in Nat /\ drops \in Nat

Busy(s) == pc[s] # "idle"

\* The queues once the broker takes back the unacknowledged delivery of s.
AutoAcked(s) == ready    \* mutant: deliveries acknowledged when sent
Requeued(s) == IF Busy(s) /\ s \notin stale THEN ready \cup {held[s]} ELSE ready

\* The dead-letter queues once a delivery is nacked without requeueing.
Discarded(m) == dead     \* mutant: the queue has no x-dead-letter-exchange
DeadLetters(m) == dead \cup {m}

-----------------------------------------------------------------------------
(* Publishing.  The exchange drops an event whose routing key has no queue *)
(* yet: the publisher sets mandatory but registers no return handler.  No  *)
(* channel asks for publisher confirms, so a publish returns when its      *)
(* bytes are on their way: on a connection that is gone, and not known to  *)
(* be, it reaches nobody and its caller goes on.                           *)

Send(key, o, success, arrives) ==
  LET m == [tag |-> nextId, mid |-> nextId, key |-> key, order |-> o,
            success |-> success, retry |-> 0]
      routed == Queue[key] \in bound
  IN  /\ ready' = IF arrives /\ routed THEN ready \cup {m} ELSE ready
      /\ unrouted' = IF arrives /\ ~routed THEN unrouted \cup {nextId} ELSE unrouted
      /\ lost' = IF arrives THEN lost ELSE lost \cup {nextId}
      /\ log' = log \cup {m}
      /\ nextId' = nextId + 1
      /\ UNCHANGED <<dead, bound, done, abandoned>>

\* RabbitMqPublisher, on a connection of its own that is closed after the publish.
Publish(key, o, success) ==
  \/ Send(key, o, success, TRUE) /\ UNCHANGED boundVars
  \/ /\ crashes + drops < MaxLosses
     /\ drops' = drops + 1
     /\ Send(key, o, success, FALSE)
     /\ UNCHANGED <<faults, crashes>>

-----------------------------------------------------------------------------
(* The consumer protocol.                                                  *)

CanTake(s, m) ==
  /\ host[s] = "up" /\ s \notin cut
  /\ ~Busy(s)
  /\ m \in ready
  /\ Queue[m.key] \in Reads(s)

\* TryMarkProcessed succeeds: the delivery leaves the queue unacknowledged and
\* the handler starts at its first step of work.
Take(s, m, first) ==
  /\ CanTake(s, m)
  /\ m.mid \notin seen[s]
  /\ seen' = [seen EXCEPT ![s] = @ \cup {m.mid}]
  /\ ready' = ready \ {m}
  /\ pc' = [pc EXCEPT ![s] = first]
  /\ held' = [held EXCEPT ![s] = m]
  /\ UNCHANGED <<dead, bound, nextId, host, stale, cut, historyVars, boundVars>>

\* TryMarkProcessed fails: the delivery is acknowledged and forgotten.  After a
\* reconnection the new delivery loop runs beside the stale handler.
Suppress(s, m) ==
  /\ host[s] = "up" /\ s \notin cut
  /\ ~Busy(s) \/ s \in stale
  /\ m \in ready
  /\ Queue[m.key] \in Reads(s)
  /\ m.mid \in seen[s]
  /\ ready' = ready \ {m}
  /\ UNCHANGED <<dead, bound, nextId, host, seen, handlerVars, historyVars, boundVars>>

\* mutant: the handler keeps its delivery after it has left
IdleHolding(s) ==
  /\ pc' = [pc EXCEPT ![s] = "idle"]
  /\ stale' = stale \ {s}
  /\ UNCHANGED held

\* The handler leaves: nothing in hand, nothing stale.
Idle(s) ==
  /\ pc' = [pc EXCEPT ![s] = "idle"]
  /\ held' = [held EXCEPT ![s] = NoMsg]
  /\ stale' = stale \ {s}

\* BasicAckAsync.  On a stale delivery tag it does nothing.
Ack(s) ==
  /\ pc[s] = "settle"
  /\ done' = done \cup {held[s].mid}
  /\ Idle(s)
  /\ UNCHANGED <<brokerVars, host, seen, cut, log, unrouted, abandoned, lost, boundVars>>

\* BasicAckAsync throws because the connection is still down; the work is done.
AckThrows(s) ==
  /\ pc[s] = "settle" /\ s \in stale
  /\ done' = done \cup {held[s].mid}
  /\ pc' = [pc EXCEPT ![s] = "catch"]
  /\ UNCHANGED <<brokerVars, host, seen, held, stale, cut, log, unrouted, abandoned, lost, boundVars>>

\* A call of the try block throws before it takes effect.
Throw(s, steps) ==
  /\ pc[s] \in steps
  /\ faults < MaxFaults
  /\ faults' = faults + 1
  /\ pc' = [pc EXCEPT ![s] = "catch"]
  /\ UNCHANGED <<brokerVars, host, seen, held, stale, cut, historyVars, crashes, drops>>

\* catch, retryCount < 3: RepublishWithRetryAsync copies the body, MessageId included,
\* and publishes it on the consumer's channel.
Republish(s) ==
  /\ pc[s] = "catch"
  /\ held[s].retry < RetryLimit
  /\ LET copy == [held[s] EXCEPT !.tag = nextId, !.key = RetryKey(s), !.retry = @ + 1]
     IN  ready' = IF s \in cut THEN ready ELSE ready \cup {copy}
  /\ nextId' = nextId + 1
  /\ pc' = [pc EXCEPT ![s] = "nack"]
  /\ UNCHANGED <<dead, bound, host, seen, held, stale, cut, historyVars, boundVars>>

\* BasicNackAsync(requeue: false) dead-letters the delivery; on a stale delivery
\* tag it does nothing.
Nack(s) ==
  /\ pc[s] = "nack" \/ (pc[s] = "catch" /\ held[s].retry = RetryLimit)
  /\ IF s \in stale
       THEN /\ abandoned' = abandoned \cup {held[s].mid}
            /\ UNCHANGED dead
       ELSE /\ dead' = DeadLetters(held[s])
            /\ UNCHANGED abandoned
  /\ Idle(s)
  /\ UNCHANGED <<ready, bound, nextId, host, seen, cut, log, done, unrouted, lost, boundVars>>

\* The catch block itself throws on the closed channel; the exception ends the handler.
Abandon(s) ==
  /\ pc[s] \in {"catch", "nack"} /\ s \in stale
  /\ abandoned' = abandoned \cup {held[s].mid}
  /\ Idle(s)
  /\ UNCHANGED <<brokerVars, host, seen, cut, log, done, unrouted, lost, boundVars>>

-----------------------------------------------------------------------------
(* Processes and connections.                                              *)

\* The host serves HTTP as soon as it runs ...
Boot(s) ==
  /\ host[s] = "down"
  /\ host' = [host EXCEPT ![s] = "starting"]
  /\ UNCHANGED <<brokerVars, seen, handlerVars, historyVars, boundVars>>

\* ... and its background service declares, binds and consumes its queues later.
Subscribe(s) ==
  /\ host[s] = "starting"
  /\ host' = [host EXCEPT ![s] = "up"]
  /\ bound' = bound \cup Declares(s)
  /\ UNCHANGED <<ready, dead, nextId, seen, handlerVars, historyVars, boundVars>>

\* A process dies: the broker puts its unacknowledged delivery back and the
\* processed-message store is gone.
Crash(s) ==
  /\ host[s] # "down"
  /\ crashes + drops < MaxLosses
  /\ crashes' = crashes + 1
  /\ host' = [host EXCEPT ![s] = "down"]
  /\ seen' = [seen EXCEPT ![s] = {}]
  /\ ready' = Requeued(s)
  /\ abandoned' = IF Busy(s) /\ s \in stale THEN abandoned \cup {held[s].mid} ELSE abandoned
  /\ Idle(s)
  /\ cut' = cut \ {s}
  /\ UNCHANGED <<dead, bound, nextId, log, done, unrouted, lost, faults, drops>>

\* The consumer's connection is lost: the broker puts the delivery back and the
\* handler goes on, with a delivery tag that is stale from now on, unaware of it.
Drop(s) ==
  /\ Busy(s) /\ s \notin cut
  /\ crashes + drops < MaxLosses
  /\ drops' = drops + 1
  /\ ready' = Requeued(s)
  /\ stale' = stale \cup {s}
  /\ cut' = cut \cup {s}
  /\ UNCHANGED <<dead, bound, nextId, host, seen, pc, held, historyVars, faults, crashes>>

\* The client library has noticed and recovered the connection and the consumer; the
\* processed-message store survives.
Reconnect(s) ==
  /\ s \in cut
  /\ cut' = cut \ {s}
  /\ UNCHANGED <<brokerVars, host, seen, pc, held, stale, historyVars, boundVars>>

=============================================================================
