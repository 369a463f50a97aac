-------------------------- MODULE OrderSagaProofs ---------------------------
(***************************************************************************)
(* Theorems about OrderSaga for every set of orders, gifts and catalog     *)
(* replicas, any number of exceptions, crashes and lost connections.       *)
(*                                                                         *)
(* In this order: the types; no event is lost without a trace (Accounts);  *)
(* what the customer is told follows from what the catalog decided         *)
(* (Decided); and, unless a process crashes or a connection is lost,       *)
(* retries duplicate nothing (Once).                                       *)
(***************************************************************************)
EXTENDS OrderSaga, TLAPS

-----------------------------------------------------------------------------
(* The bus alone: what each of its operations does to the types.           *)

\* A delivery in hand is a message.
LEMMA HeldIsMessage ==
  ASSUME BusTypeOK, NEW s \in Services, Busy(s)
  PROVE  held[s] \in Message
BY DEF BusTypeOK, Busy

\* An event is published, and the broker has it or the connection was gone.
Sent(key, o, ok) == \E arrives \in BOOLEAN : Send(key, o, ok, arrives)

LEMMA PublishSends ==
  ASSUME NEW key, NEW o, NEW ok, Publish(key, o, ok)
  PROVE  /\ Sent(key, o, ok)
         /\ UNCHANGED boundVars \/ (drops' = drops + 1 /\ UNCHANGED <<faults, crashes>>)
BY DEF Publish, Sent

\* What goes out is in the log, whether or not it arrives.
LEMMA SentIsLogged ==
  ASSUME NEW key, NEW o, NEW ok, Sent(key, o, ok)
  PROVE  log \subseteq log'
BY DEF Sent, Send

\* Publishing a new event keeps the types of what it writes.
LEMMA SendTypes ==
  ASSUME BusTypeOK, NEW key \in Keys, NEW o \in Orders, NEW ok \in BOOLEAN,
         Sent(key, o, ok)
  PROVE  /\ ready' \subseteq Message /\ log' \subseteq Message
         /\ dead' \subseteq Message /\ bound' \subseteq Queues
         /\ unrouted' \subseteq Nat /\ nextId' \in Nat
         /\ done' \subseteq Nat /\ abandoned' \subseteq Nat /\ lost' \subseteq Nat
<1> DEFINE m == [tag |-> nextId, mid |-> nextId, key |-> key, order |-> o,
                 success |-> ok, retry |-> 0]
<1>1. m \in Message
  BY DEF BusTypeOK, Message, RetryLimit
<1>2. QED
  BY <1>1 DEF BusTypeOK, Send, Sent

LEMMA TakeTypes ==
  ASSUME BusTypeOK, NEW s \in Services, NEW m \in ready, NEW first \in PC \ {"idle"},
         Take(s, m, first)
  PROVE  BusTypeOK'
<1>1. m \in Message /\ m.mid \in Nat /\ m # NoMsg
  BY BusAssumption DEF BusTypeOK, Message
<1>2. QED
  BY <1>1 DEF BusTypeOK, Take, historyVars, boundVars

\* Leaving a handler keeps the handler's types.
LEMMA IdleTypes ==
  ASSUME BusTypeOK, NEW s \in Services, Idle(s)
  PROVE  /\ pc' \in [Services -> PC]
         /\ held' \in [Services -> Message \cup {NoMsg}]
         /\ \A t \in Services : held'[t] = NoMsg <=> pc'[t] = "idle"
         /\ stale' \subseteq Services
BY DEF BusTypeOK, Idle, PC

\* Moving a busy handler to another step keeps the handler's types.
LEMMA StepTypes ==
  ASSUME BusTypeOK, NEW s \in Services, Busy(s), NEW next \in PC \ {"idle"},
         pc' = [pc EXCEPT ![s] = next], UNCHANGED <<held, stale>>
  PROVE  /\ pc' \in [Services -> PC]
         /\ held' \in [Services -> Message \cup {NoMsg}]
         /\ \A t \in Services : held'[t] = NoMsg <=> pc'[t] = "idle"
         /\ stale' \subseteq Services
BY DEF BusTypeOK, Busy

\* Every operation of the consumer protocol and of processes and connections keeps
\* the types of the bus.
LEMMA ProtocolTypes ==
  ASSUME BusTypeOK, NEW s \in Services,
         \/ \E m \in ready : Suppress(s, m)
         \/ Ack(s) \/ AckThrows(s) \/ Republish(s) \/ Nack(s) \/ Abandon(s)
         \/ Boot(s) \/ Subscribe(s) \/ Crash(s) \/ Drop(s) \/ Reconnect(s)
         \/ \E steps \in SUBSET (PC \ {"idle"}) : Throw(s, steps)
  PROVE  BusTypeOK'
<1> USE DEF brokerVars, handlerVars, historyVars, boundVars
<1>1. ASSUME NEW m \in ready, Suppress(s, m) PROVE BusTypeOK'
  BY <1>1 DEF BusTypeOK, Suppress
<1>2. CASE Ack(s)
  <2>1. held[s].mid \in Nat
    BY <1>2, HeldIsMessage DEF Ack, Busy, Message
  <2>2. QED
    BY <1>2, <2>1, IdleTypes DEF BusTypeOK, Ack
<1>3. CASE AckThrows(s)
  <2>1. Busy(s) /\ "catch" \in PC \ {"idle"}
    BY <1>3 DEF AckThrows, Busy, PC
  <2>2. held[s].mid \in Nat
    BY <2>1, HeldIsMessage DEF Message
  <2>3. QED
    BY <1>3, <2>1, <2>2, StepTypes DEF BusTypeOK, AckThrows
<1>4. CASE Republish(s)
  <2>1. Busy(s) /\ "nack" \in PC \ {"idle"}
    BY <1>4 DEF Republish, Busy, PC
  <2>2. RetryKey(s) \in Keys
    BY DEF RetryKey, Keys
  <2>3. [held[s] EXCEPT !.tag = nextId, !.key = RetryKey(s), !.retry = @ + 1] \in Message
    <3> DEFINE h == held[s]
    <3>1. h \in Message /\ nextId \in Nat
      BY <2>1, HeldIsMessage DEF BusTypeOK
    <3>2. h.retry < RetryLimit
      BY <1>4 DEF Republish
    <3> HIDE DEF h
    <3>3. h.retry + 1 \in 0..RetryLimit
      BY <3>1, <3>2 DEF Message, RetryLimit
    <3>4. [h EXCEPT !.tag = nextId, !.key = RetryKey(s), !.retry = @ + 1] \in Message
      BY <2>2, <3>1, <3>3 DEF Message
    <3>5. QED
      BY <3>4 DEF h
  <2>4. QED
    BY <1>4, <2>1, <2>3, StepTypes DEF BusTypeOK, Republish
<1>5. CASE Nack(s)
  <2>1. Busy(s)
    BY <1>5 DEF Nack, Busy
  <2>2. held[s] \in Message /\ held[s].mid \in Nat
    BY <2>1, HeldIsMessage DEF Message
  <2>3. dead' \subseteq Message /\ abandoned' \subseteq Nat
    BY <1>5, <2>2 DEF Nack, BusTypeOK, DeadLetters
  <2>4. QED
    BY <1>5, <2>3, IdleTypes DEF BusTypeOK, Nack
<1>6. CASE Abandon(s)
  <2>1. held[s].mid \in Nat
    BY <1>6, HeldIsMessage DEF Abandon, Busy, Message
  <2>2. QED
    BY <1>6, <2>1, IdleTypes DEF BusTypeOK, Abandon
<1>7. CASE Boot(s)
  BY <1>7 DEF BusTypeOK, Boot
<1>8. CASE Subscribe(s)
  <2>1. Declares(s) \subseteq Queues
    BY DEF Declares, Reads, Queues, Queue, Keys
  <2>2. QED
    BY <1>8, <2>1 DEF BusTypeOK, Subscribe
<1>9. CASE Crash(s)
  <2>1. ready' \subseteq Message /\ abandoned' \subseteq Nat
    BY <1>9, HeldIsMessage DEF Crash, BusTypeOK, Requeued, Message
  <2>2. QED
    BY <1>9, <2>1, IdleTypes DEF BusTypeOK, Crash
<1>10. CASE Drop(s)
  <2>1. ready' \subseteq Message
    BY <1>10, HeldIsMessage DEF Drop, BusTypeOK, Requeued
  <2>2. QED
    BY <1>10, <2>1 DEF BusTypeOK, Drop
<1>11. ASSUME NEW steps \in SUBSET (PC \ {"idle"}), Throw(s, steps) PROVE BusTypeOK'
  <2>1. Busy(s) /\ "catch" \in PC \ {"idle"}
    BY <1>11 DEF Throw, Busy, PC
  <2>2. QED
    BY <1>11, <2>1, StepTypes DEF BusTypeOK, Throw
<1>12. CASE Reconnect(s)
  BY <1>12 DEF BusTypeOK, Reconnect
<1>13. QED
  BY <1>1, <1>2, <1>3, <1>4, <1>5, <1>6, <1>7, <1>8, <1>9, <1>10, <1>11, <1>12

-----------------------------------------------------------------------------
(* Type correctness of the saga.                                           *)

LEMMA InitTypes == Init => TypeOK
<1> SUFFICES ASSUME Init PROVE TypeOK
  OBVIOUS
<1>1. BusTypeOK
  BY DEF Init, BusTypeOK, PC
<1>2. QED
  BY <1>1 DEF Init, TypeOK

\* What the clients' requests change.
LEMMA CheckoutTypes ==
  ASSUME TypeOK, Checkout
  PROVE  TypeOK'
<1> USE DEF TypeOK, busVars, brokerVars, handlerVars, historyVars, boundVars, mailVars
<1>1. ASSUME NEW o \in Orders, NEW draft \in BOOLEAN, SaveOrder(o, draft)
      PROVE  TypeOK'
  BY <1>1 DEF SaveOrder, BusTypeOK
<1>2. ASSUME NEW o \in Orders, PublishPlaced(o)
      PROVE  TypeOK'
  <2>1. "order.placed" \in Keys /\ FALSE \in BOOLEAN
    BY DEF Keys
  <2>2. /\ Sent("order.placed", o, FALSE)
        /\ UNCHANGED boundVars \/ (drops' = drops + 1 /\ UNCHANGED <<faults, crashes>>)
    BY <1>2, PublishSends DEF PublishPlaced
  <2>3. BusTypeOK'
    <3>1. /\ ready' \subseteq Message /\ log' \subseteq Message
          /\ dead' \subseteq Message /\ bound' \subseteq Queues
          /\ unrouted' \subseteq Nat /\ nextId' \in Nat
          /\ done' \subseteq Nat /\ abandoned' \subseteq Nat /\ lost' \subseteq Nat
      BY <2>1, <2>2, SendTypes
    <3>2. faults' \in Nat /\ crashes' \in Nat /\ drops' \in Nat
      BY <2>2 DEF BusTypeOK
    <3>3. UNCHANGED <<host, seen, pc, held, stale, cut>>
      BY <1>2 DEF PublishPlaced
    <3>4. QED
      BY <3>1, <3>2, <3>3 DEF BusTypeOK
  <2>4. QED
    BY <1>2, <2>3 DEF PublishPlaced
<1>3. ASSUME NEW o \in Orders, PublishPlacedFails(o)
      PROVE  TypeOK'
  BY <1>3 DEF PublishPlacedFails, BusTypeOK
<1>4. ASSUME NEW o \in Orders, ConfirmOverHttp(o)
      PROVE  TypeOK'
  BY <1>4 DEF ConfirmOverHttp, BusTypeOK
<1>5. QED
  BY <1>1, <1>2, <1>3, <1>4, SagaAssumption DEF Checkout

LEMMA CatalogTypes ==
  ASSUME TypeOK, NEW c \in Catalogs, CatalogWork(c)
  PROVE  TypeOK'
<1> USE DEF TypeOK, brokerVars, handlerVars, historyVars, boundVars, mailVars, sagaVars
<1>0. c \in Services
  BY DEF Services
<1>1. ASSUME NEW m \in ready, TakePlaced(c, m)
      PROVE  TypeOK'
  <2>1. "check" \in PC \ {"idle"} /\ m.order \in Orders
    BY DEF PC, BusTypeOK, Message
  <2>2. BusTypeOK'
    BY <1>0, <1>1, <2>1, TakeTypes DEF TakePlaced
  <2>3. unchecked' \in [Catalogs -> SUBSET Gifts]
    BY <1>1, <2>1, SagaAssumption DEF TakePlaced
  <2>4. QED
    BY <1>1, <2>2, <2>3 DEF TakePlaced
<1>2. ASSUME NEW m \in ready, ReleaseLogged(c, m)
      PROVE  TypeOK'
  <2>1. m.mid \in Nat
    BY DEF BusTypeOK, Message
  <2>2. QED
    BY <1>2, <2>1 DEF ReleaseLogged, BusTypeOK
<1>3. ASSUME NEW g \in Gifts, CheckItem(c, g)
      PROVE  TypeOK'
  <2>1. Busy(c)
    BY <1>3 DEF CheckItem, Busy
  <2>2. PICK next \in {"reply", "check"} : pc' = [pc EXCEPT ![c] = next]
    BY <1>3 DEF CheckItem
  <2>3. next \in PC \ {"idle"}
    BY DEF PC
  <2>4. BusTypeOK'
    BY <1>0, <1>3, <2>1, <2>2, <2>3, StepTypes DEF CheckItem, BusTypeOK
  <2>5. unchecked' \in [Catalogs -> SUBSET Gifts]
    BY <1>3 DEF CheckItem
  <2>6. QED
    BY <1>3, <2>4, <2>5 DEF CheckItem
<1>4. ASSUME Reply(c)
      PROVE  TypeOK'
  <2>1. Busy(c) /\ "settle" \in PC \ {"idle"}
    BY <1>4 DEF Reply, Busy, PC
  <2>2. held[c].order \in Orders
    BY <1>0, <2>1, HeldIsMessage DEF Message
  <2>3. PICK key \in Keys, ok \in BOOLEAN : Sent(key, held[c].order, ok)
    BY <1>4 DEF Reply, Keys, Sent
  <2>4. BusTypeOK'
    BY <1>0, <1>4, <2>1, <2>2, <2>3, SendTypes, StepTypes DEF Reply, BusTypeOK
  <2>5. QED
    BY <1>4, <2>4 DEF Reply
<1>5. QED
  BY <1>1, <1>2, <1>3, <1>4 DEF CatalogWork

LEMMA OrderTypes ==
  ASSUME TypeOK, OrderWork
  PROVE  TypeOK'
<1> USE DEF TypeOK, brokerVars, handlerVars, historyVars, boundVars, mailVars, sagaVars
<1>0. OrderSvc \in Services
  BY DEF Services
<1>1. ASSUME NEW m \in ready, TakeResult(m)
      PROVE  TypeOK'
  <2>1. "apply" \in PC \ {"idle"}
    BY DEF PC
  <2>2. BusTypeOK'
    BY <1>0, <1>1, <2>1, TakeTypes DEF TakeResult
  <2>3. QED
    BY <1>1, <2>2 DEF TakeResult
<1>2. ASSUME ApplyResult
      PROVE  TypeOK'
  <2>1. Busy(OrderSvc)
    BY <1>2 DEF ApplyResult, Busy
  <2>2. held[OrderSvc].order \in Orders
    BY <1>0, <2>1, HeldIsMessage DEF Message
  <2>3. PICK next \in {"announce", "release"} : pc' = [pc EXCEPT ![OrderSvc] = next]
    BY <1>2 DEF ApplyResult
  <2>4. next \in PC \ {"idle"}
    BY DEF PC
  <2>5. BusTypeOK'
    BY <1>0, <1>2, <2>1, <2>3, <2>4, StepTypes DEF ApplyResult, BusTypeOK
  <2>6. row' \in [Orders -> {"absent", "draft", "final"}]
    BY <1>2, <2>2 DEF ApplyResult, RowAfter
  <2>7. QED
    BY <1>2, <2>5, <2>6 DEF ApplyResult
<1>3. ASSUME PublishRelease
      PROVE  TypeOK'
  <2>1. Busy(OrderSvc) /\ "announce" \in PC \ {"idle"}
    BY <1>3 DEF PublishRelease, Busy, PC
  <2>2. held[OrderSvc].order \in Orders
    BY <1>0, <2>1, HeldIsMessage DEF Message
  <2>3. PICK key \in Keys, ok \in BOOLEAN : Publish(key, held[OrderSvc].order, ok)
    BY <1>3 DEF PublishRelease, Keys
  <2>6. /\ Sent(key, held[OrderSvc].order, ok)
        /\ UNCHANGED boundVars \/ (drops' = drops + 1 /\ UNCHANGED <<faults, crashes>>)
    BY <2>3, PublishSends
  <2>4. BusTypeOK'
    BY <1>0, <1>3, <2>1, <2>2, <2>6, SendTypes, StepTypes DEF PublishRelease, BusTypeOK
  <2>5. QED
    BY <1>3, <2>4 DEF PublishRelease
<1>4. ASSUME PublishStatus
      PROVE  TypeOK'
  <2>1. Busy(OrderSvc) /\ "settle" \in PC \ {"idle"}
    BY <1>4 DEF PublishStatus, Busy, PC
  <2>2. held[OrderSvc].order \in Orders /\ held[OrderSvc].success \in BOOLEAN
    BY <1>0, <2>1, HeldIsMessage DEF Message
  <2>3. PICK key \in Keys, ok \in BOOLEAN : Publish(key, held[OrderSvc].order, ok)
    BY <1>4, <2>2 DEF PublishStatus, Verdict, Keys
  <2>6. /\ Sent(key, held[OrderSvc].order, ok)
        /\ UNCHANGED boundVars \/ (drops' = drops + 1 /\ UNCHANGED <<faults, crashes>>)
    BY <2>3, PublishSends
  <2>4. BusTypeOK'
    BY <1>0, <1>4, <2>1, <2>2, <2>6, SendTypes, StepTypes DEF PublishStatus, BusTypeOK
  <2>5. QED
    BY <1>4, <2>4 DEF PublishStatus
<1>5. QED
  BY <1>1, <1>2, <1>3, <1>4 DEF OrderWork

LEMMA NotifierTypes ==
  ASSUME TypeOK, NotifierWork
  PROVE  TypeOK'
<1> USE DEF TypeOK, brokerVars, handlerVars, historyVars, boundVars, mailVars, sagaVars
<1>0. Notifier \in Services
  BY DEF Services
<1>1. ASSUME NEW m \in ready, TakeStatus(m)
      PROVE  TypeOK'
  <2>1. "send" \in PC \ {"idle"}
    BY DEF PC
  <2>2. BusTypeOK'
    BY <1>0, <1>1, <2>1, TakeTypes DEF TakeStatus
  <2>3. QED
    BY <1>1, <2>2 DEF TakeStatus
<1>2. ASSUME SendMail
      PROVE  TypeOK'
  <2>1. Busy(Notifier) /\ "settle" \in PC \ {"idle"}
    BY <1>2 DEF SendMail, Busy, PC
  <2>2. held[Notifier].order \in Orders
    BY <1>0, <2>1, HeldIsMessage DEF Message
  <2>3. BusTypeOK'
    BY <1>0, <1>2, <2>1, StepTypes DEF SendMail, BusTypeOK
  <2>4. QED
    BY <1>2, <2>2, <2>3 DEF SendMail
<1>3. QED
  BY <1>1, <1>2 DEF NotifierWork

\* The steps every service shares: the protocol's, the processes', the failures'.
SharedStep(s) == Protocol(s) \/ Startup(s) \/ Failure(s)

LEMMA SharedTypes ==
  ASSUME TypeOK, NEW s \in Services, SharedStep(s)
  PROVE  TypeOK'
<1>1. ThrowingSteps(s) \in SUBSET (PC \ {"idle"})
  BY DEF ThrowingSteps, PC
<1>2. BusTypeOK'
  BY <1>1, ProtocolTypes
  DEF TypeOK, SharedStep, Protocol, Startup, Failure, SuppressDuplicate, Acknowledge,
      AcknowledgeThrows, HandlerThrows, RepublishWithRetry, DeadLetter, AbandonStale,
      BootService, SubscribeService, RecoverConnection, DropConnection, CrashService
<1>3. \/ UNCHANGED sagaVars
      \/ /\ UNCHANGED <<row, gift, unchecked, chosenFinal, manual, mailVars>>
         /\ checkout' \in [Orders -> {"new", "saved", "done", "failed"}]
  BY DEF TypeOK, SharedStep, Protocol, Startup, Failure, SuppressDuplicate, Acknowledge,
      AcknowledgeThrows, HandlerThrows, RepublishWithRetry, DeadLetter, AbandonStale,
      BootService, SubscribeService, RecoverConnection, DropConnection, CrashService
<1>4. QED
  BY <1>2, <1>3 DEF TypeOK, sagaVars, mailVars

LEMMA NextTypes ==
  ASSUME TypeOK, [Next]_vars
  PROVE  TypeOK'
<1>1. CASE UNCHANGED vars
  BY <1>1 DEF TypeOK, BusTypeOK, vars, busVars, sagaVars, brokerVars, handlerVars,
              historyVars, boundVars, mailVars
<1>2. CASE Checkout
  BY <1>2, CheckoutTypes
<1>3. ASSUME NEW g \in Gifts, AddGift(g) \/ DeleteGift(g)
      PROVE  TypeOK'
  <2>1. UNCHANGED busVars
    BY <1>3 DEF AddGift, DeleteGift
  <2>2. BusTypeOK'
    BY <2>1 DEF TypeOK, BusTypeOK, busVars, brokerVars, handlerVars, historyVars, boundVars
  <2>3. gift' \in [Gifts -> {"absent", "live", "deleted"}]
    BY <1>3 DEF AddGift, DeleteGift, TypeOK
  <2>4. UNCHANGED <<row, checkout, unchecked, chosenFinal, manual, mailVars>>
    BY <1>3 DEF AddGift, DeleteGift
  <2>5. QED
    BY <2>2, <2>3, <2>4 DEF TypeOK, mailVars
<1>4. ASSUME NEW c \in Catalogs, CatalogWork(c)
      PROVE  TypeOK'
  BY <1>4, CatalogTypes
<1>5. CASE OrderWork
  BY <1>5, OrderTypes
<1>6. CASE NotifierWork
  BY <1>6, NotifierTypes
<1>7. ASSUME NEW s \in Services, SharedStep(s)
      PROVE  TypeOK'
  BY <1>7, SharedTypes
<1>8. QED
  BY <1>1, <1>2, <1>3, <1>4, <1>5, <1>6, <1>7 DEF Next, SharedStep

\* Every reachable state is type correct, whatever the orders, gifts, replicas and
\* failures.
THEOREM TypesAreInvariant == Spec => []TypeOK
<1>1. Init => TypeOK
  BY InitTypes
<1>2. TypeOK /\ [Next]_vars => TypeOK'
  BY NextTypes
<1>3. QED
  BY <1>1, <1>2, PTL DEF Spec

-----------------------------------------------------------------------------
(* No event is lost silently.  NoSilentLoss alone is not inductive: a      *)
(* duplicate may only be thrown away because whoever marked its MessageId  *)
(* answers for it, which is SeenAccounted.                                 *)

\* The marks a process holds are accounted for, and what was accounted for stays so.
StaysAccounted ==
  /\ SeenAccounted'
  /\ \A mid : Accounted(mid) => Accounted(mid)'

\* A step that takes nothing away: no copy leaves a queue, no handler starts or
\* leaves, no MessageId is marked or forgotten.
TakesNothing ==
  /\ ready \subseteq ready' /\ dead \subseteq dead'
  /\ done \subseteq done' /\ abandoned \subseteq abandoned'
  /\ unrouted \subseteq unrouted' /\ lost \subseteq lost'
  /\ UNCHANGED <<seen, held>>
  /\ \A s \in Services : Busy(s)' <=> Busy(s)

LEMMA TakingNothingIsSafe ==
  ASSUME SeenAccounted, TakesNothing
  PROVE  StaysAccounted
<1>1. ASSUME NEW mid
      PROVE  /\ InBroker(mid) => InBroker(mid)'
             /\ InHand(mid) => InHand(mid)'
             /\ DeadLettered(mid) => DeadLettered(mid)'
             /\ mid \in done \cup abandoned => mid \in (done \cup abandoned)'
             /\ mid \in unrouted \cup lost => mid \in (unrouted \cup lost)'
  BY DEF TakesNothing, InBroker, InHand, DeadLettered
<1>2. \A mid : Accounted(mid) => Accounted(mid)'
  BY <1>1 DEF Accounted
<1>3. SeenAccounted'
  BY <1>1 DEF SeenAccounted, TakesNothing
<1>4. QED
  BY <1>2, <1>3 DEF StaysAccounted

\* Taking a delivery moves it from its queue into a hand.
LEMMA TakeIsSafe ==
  ASSUME BusTypeOK, SeenAccounted, NEW s \in Services, NEW m \in ready,
         NEW first \in PC \ {"idle"}, Take(s, m, first)
  PROVE  StaysAccounted
<1> USE DEF historyVars, boundVars
<1>1. /\ ~Busy(s) /\ Busy(s)' /\ held'[s] = m /\ seen'[s] = seen[s] \cup {m.mid}
      /\ \A t \in Services \ {s} : /\ Busy(t)' <=> Busy(t)
                                  /\ held'[t] = held[t] /\ seen'[t] = seen[t]
      /\ ready' = ready \ {m} /\ UNCHANGED <<dead, done, unrouted, abandoned, lost>>
  BY DEF BusTypeOK, Take, CanTake, Busy
<1>2. SeenAccounted'
  BY <1>1 DEF SeenAccounted, DeadLettered
<1>3. ASSUME NEW mid, InBroker(mid)
      PROVE  InBroker(mid)' \/ InHand(mid)'
  BY <1>1, <1>3 DEF InBroker, InHand
<1>4. ASSUME NEW mid, InHand(mid)
      PROVE  InHand(mid)'
  BY <1>1, <1>4 DEF InHand
<1>5. QED
  BY <1>1, <1>2, <1>3, <1>4 DEF StaysAccounted, Accounted, DeadLettered

\* A duplicate thrown away is accounted for by the mark that made it one.
LEMMA SuppressIsSafe ==
  ASSUME SeenAccounted, NEW s \in Services, NEW m \in ready, Suppress(s, m)
  PROVE  StaysAccounted
<1> USE DEF handlerVars, historyVars, boundVars
<1>1. /\ ready' = ready \ {m} /\ m.mid \in seen[s]
      /\ UNCHANGED <<seen, held, pc, dead, done, unrouted, abandoned, lost>>
  BY DEF Suppress
<1>2. SeenAccounted'
  BY <1>1 DEF SeenAccounted, DeadLettered, Busy
<1>3. \/ InHand(m.mid)' \/ DeadLettered(m.mid)' \/ m.mid \in (done \cup abandoned)'
  BY <1>1 DEF SeenAccounted, InHand, DeadLettered, Busy
<1>4. ASSUME NEW mid, InBroker(mid)
      PROVE  InBroker(mid)' \/ mid = m.mid
  BY <1>1, <1>4 DEF InBroker
<1>5. QED
  BY <1>1, <1>2, <1>3, <1>4 DEF StaysAccounted, Accounted, InHand, DeadLettered, Busy

\* A handler that leaves with its delivery finished, dead-lettered, given up or put
\* back leaves nothing behind.
LEMMA LeavingIsSafe ==
  ASSUME BusTypeOK, SeenAccounted, NEW s \in Services, Idle(s),
         \A t \in Services \ {s} : seen'[t] = seen[t],
         ready \subseteq ready', dead \subseteq dead', done \subseteq done',
         unrouted \subseteq unrouted', abandoned \subseteq abandoned', lost \subseteq lost',
         \/ seen'[s] = {} /\ (Busy(s) => held[s] \in ready')
         \/ seen'[s] \subseteq seen[s]
            /\ (Busy(s) => held[s] \in dead' \/ held[s].mid \in done' \cup abandoned')
  PROVE  StaysAccounted
<1>1. \A t \in Services \ {s} : (Busy(t)' <=> Busy(t)) /\ held'[t] = held[t]
  BY DEF BusTypeOK, Idle, Busy
<1>2. ASSUME NEW mid
      PROVE  /\ InBroker(mid) => InBroker(mid)'
             /\ DeadLettered(mid) => DeadLettered(mid)'
  BY DEF InBroker, DeadLettered
<1>3. ASSUME NEW mid, InHand(mid)
      PROVE  InHand(mid)' \/ InBroker(mid)' \/ DeadLettered(mid)' \/ mid \in (done \cup abandoned)'
  BY <1>1, <1>3 DEF InHand, InBroker, DeadLettered
<1>4. ASSUME NEW t \in Services \ {s}, NEW mid \in seen'[t]
      PROVE  \/ Busy(t)' /\ held'[t].mid = mid
             \/ DeadLettered(mid)' \/ mid \in (done \cup abandoned)'
  BY <1>1, <1>2 DEF SeenAccounted
<1>5. ASSUME NEW mid \in seen'[s]
      PROVE  DeadLettered(mid)' \/ mid \in (done \cup abandoned)'
  BY <1>2, <1>5 DEF SeenAccounted, DeadLettered
<1>6. SeenAccounted'
  BY <1>4, <1>5 DEF SeenAccounted
<1>7. QED
  BY <1>2, <1>3, <1>6 DEF StaysAccounted, Accounted

\* Publishing adds at most a copy and a MessageId the exchange or the connection dropped.
LEMMA SendTakesNothing ==
  ASSUME NEW key, NEW o, NEW ok, Sent(key, o, ok)
  PROVE  /\ ready \subseteq ready' /\ unrouted \subseteq unrouted' /\ lost \subseteq lost'
         /\ UNCHANGED <<dead, done, abandoned>>
         /\ \E m \in log' : /\ log' = log \cup {m}
                            /\ InBroker(m.mid)' \/ m.mid \in unrouted' \cup lost'
<1>1. PICK arrives \in BOOLEAN : Send(key, o, ok, arrives)
  BY DEF Sent
<1>2. PICK m : m = [tag |-> nextId, mid |-> nextId, key |-> key, order |-> o,
                   success |-> ok, retry |-> 0]
  OBVIOUS
<1>3. /\ \/ ready' = ready \cup {m} /\ UNCHANGED <<unrouted, lost>>
         \/ unrouted' = unrouted \cup {m.mid} /\ UNCHANGED <<ready, lost>>
         \/ lost' = lost \cup {m.mid} /\ UNCHANGED <<ready, unrouted>>
      /\ log' = log \cup {m} /\ UNCHANGED <<dead, done, abandoned>>
  BY <1>1, <1>2 DEF Send
<1>4. InBroker(m.mid)' \/ m.mid \in unrouted' \cup lost'
  BY <1>3 DEF InBroker
<1>5. QED
  BY <1>3, <1>4

\* The log grows only by events that are accounted for.
LogGrowsSafely == \A m \in log' \ log : Accounted(m.mid)'

\* What the consumer protocol does to an event, at every service and for every
\* failure, is safe.
LEMMA SharedIsSafe ==
  ASSUME TypeOK, SeenAccounted, NEW s \in Services, SharedStep(s)
  PROVE  StaysAccounted /\ log' = log
<1> USE DEF TypeOK, brokerVars, handlerVars, historyVars, boundVars
<1>1. ASSUME NEW m \in ready, SuppressDuplicate(s, m)
      PROVE  StaysAccounted /\ log' = log
  BY <1>1, SuppressIsSafe DEF SuppressDuplicate, Suppress
<1>2. CASE Acknowledge(s)
  BY <1>2, LeavingIsSafe DEF Acknowledge, Ack
<1>3. CASE AcknowledgeThrows(s)
  <2>1. TakesNothing
    BY <1>3 DEF AcknowledgeThrows, AckThrows, TakesNothing, Busy, BusTypeOK
  <2>2. QED
    BY <1>3, <2>1, TakingNothingIsSafe DEF AcknowledgeThrows, AckThrows
<1>4. CASE RepublishWithRetry(s)
  <2>1. TakesNothing
    BY <1>4 DEF RepublishWithRetry, Republish, TakesNothing, Busy, BusTypeOK
  <2>2. QED
    BY <1>4, <2>1, TakingNothingIsSafe DEF RepublishWithRetry, Republish
<1>5. CASE DeadLetter(s)
  <2>1. Busy(s) => held[s] \in dead' \/ held[s].mid \in done' \cup abandoned'
    BY <1>5 DEF DeadLetter, Nack, DeadLetters
  <2>2. dead \subseteq dead' /\ abandoned \subseteq abandoned'
    BY <1>5 DEF DeadLetter, Nack, DeadLetters
  <2>3. /\ Idle(s) /\ UNCHANGED <<seen, log, ready, done, unrouted, lost>>
    BY <1>5 DEF DeadLetter, Nack
  <2>4. QED
    BY <2>1, <2>2, <2>3, LeavingIsSafe
<1>6. CASE AbandonStale(s)
  BY <1>6, LeavingIsSafe DEF AbandonStale, Abandon
<1>7. CASE Startup(s)
  <2>1. TakesNothing /\ log' = log
    BY <1>7 DEF Startup, BootService, Boot, SubscribeService, Subscribe, RecoverConnection,
                Reconnect, TakesNothing, Busy
  <2>2. QED
    BY <2>1, TakingNothingIsSafe
<1>8. CASE HandlerThrows(s)
  <2>1. pc[s] # "idle"
    BY <1>8 DEF HandlerThrows, Throw, ThrowingSteps
  <2>2. TakesNothing
    BY <1>8, <2>1 DEF HandlerThrows, Throw, TakesNothing, Busy, BusTypeOK
  <2>3. QED
    BY <1>8, <2>2, TakingNothingIsSafe DEF HandlerThrows, Throw
<1>9. CASE DropConnection(s)
  <2>1. TakesNothing
    BY <1>9 DEF DropConnection, Drop, Requeued, TakesNothing, Busy
  <2>2. QED
    BY <1>9, <2>1, TakingNothingIsSafe DEF DropConnection, Drop
<1>10. CASE CrashService(s)
  <2>1. /\ Idle(s) /\ seen' = [seen EXCEPT ![s] = {}]
        /\ ready' = Requeued(s) /\ UNCHANGED <<dead, done, unrouted, lost, log>>
        /\ abandoned' = IF Busy(s) /\ s \in stale THEN abandoned \cup {held[s].mid} ELSE abandoned
    BY <1>10 DEF CrashService, Crash
  <2>2. CASE Busy(s) /\ s \in stale
    <3>1. ready \subseteq ready' /\ held[s].mid \in abandoned' /\ abandoned \subseteq abandoned'
      BY <2>1, <2>2 DEF Requeued
    <3>2. seen'[s] \subseteq seen[s] /\ \A t \in Services \ {s} : seen'[t] = seen[t]
      BY <2>1 DEF BusTypeOK
    <3>3. QED
      BY <2>1, <3>1, <3>2, LeavingIsSafe
  <2>3. CASE ~(Busy(s) /\ s \in stale)
    <3>1. ready \subseteq ready' /\ (Busy(s) => held[s] \in ready') /\ abandoned \subseteq abandoned'
      BY <2>1, <2>3 DEF Requeued
    <3>2. seen'[s] = {} /\ \A t \in Services \ {s} : seen'[t] = seen[t]
      BY <2>1 DEF BusTypeOK
    <3>3. QED
      BY <2>1, <3>1, <3>2, LeavingIsSafe
  <2>4. QED
    BY <2>2, <2>3
<1>11. QED
  BY <1>1, <1>2, <1>3, <1>4, <1>5, <1>6, <1>7, <1>8, <1>9, <1>10
  DEF SharedStep, Protocol, Startup, Failure

\* A step that publishes one event and moves its handler on is safe.
LEMMA PublishingIsSafe ==
  ASSUME SeenAccounted, NEW key, NEW o, NEW ok, Sent(key, o, ok),
         UNCHANGED <<seen, held>>, \A s \in Services : Busy(s)' <=> Busy(s)
  PROVE  StaysAccounted /\ LogGrowsSafely
<1>1. TakesNothing
  BY SendTakesNothing DEF TakesNothing
<1>2. PICK m : log' = log \cup {m} /\ (InBroker(m.mid)' \/ m.mid \in unrouted' \cup lost')
  BY SendTakesNothing
<1>3. LogGrowsSafely
  BY <1>2 DEF LogGrowsSafely, Accounted
<1>4. QED
  BY <1>1, <1>3, TakingNothingIsSafe

\* The requests of clients and managers.
LEMMA RequestsAreSafe ==
  ASSUME TypeOK, SeenAccounted, Checkout \/ \E g \in Gifts : AddGift(g) \/ DeleteGift(g)
  PROVE  StaysAccounted /\ LogGrowsSafely
<1> USE DEF busVars, brokerVars, handlerVars, historyVars, boundVars
<1>1. ASSUME NEW o \in Orders, PublishPlaced(o)
      PROVE  StaysAccounted /\ LogGrowsSafely
  BY <1>1, PublishSends, PublishingIsSafe DEF PublishPlaced, Busy
<1>2. ASSUME UNCHANGED <<brokerVars, host, seen, handlerVars, historyVars>>
      PROVE  StaysAccounted /\ LogGrowsSafely
  <2>1. TakesNothing /\ log' = log
    BY <1>2 DEF TakesNothing, Busy
  <2>2. QED
    BY <2>1, TakingNothingIsSafe DEF LogGrowsSafely
<1>3. ASSUME NEW o \in Orders, NEW draft \in BOOLEAN, SaveOrder(o, draft)
      PROVE  StaysAccounted /\ LogGrowsSafely
  BY <1>2, <1>3 DEF SaveOrder
<1>4. ASSUME NEW o \in Orders, PublishPlacedFails(o) \/ ConfirmOverHttp(o)
      PROVE  StaysAccounted /\ LogGrowsSafely
  BY <1>2, <1>4 DEF PublishPlacedFails, ConfirmOverHttp
<1>5. ASSUME NEW g \in Gifts, AddGift(g) \/ DeleteGift(g)
      PROVE  StaysAccounted /\ LogGrowsSafely
  BY <1>2, <1>5 DEF AddGift, DeleteGift
<1>6. QED
  BY <1>1, <1>3, <1>4, <1>5, SagaAssumption DEF Checkout

\* The work of a catalog replica.
LEMMA CatalogIsSafe ==
  ASSUME TypeOK, SeenAccounted, NEW c \in Catalogs, CatalogWork(c)
  PROVE  StaysAccounted /\ LogGrowsSafely
<1> USE DEF TypeOK, brokerVars, handlerVars, historyVars, boundVars, sagaVars
<1>0. c \in Services
  BY DEF Services
<1>1. ASSUME NEW m \in ready, TakePlaced(c, m)
      PROVE  StaysAccounted /\ LogGrowsSafely
  <2>1. "check" \in PC \ {"idle"} /\ Take(c, m, "check") /\ log' = log
    BY <1>1 DEF TakePlaced, Take, PC
  <2>2. QED
    BY <1>0, <2>1, TakeIsSafe DEF LogGrowsSafely
<1>2. ASSUME NEW m \in ready, ReleaseLogged(c, m)
      PROVE  StaysAccounted /\ LogGrowsSafely
  <2>1. /\ ready' = ready \ {m} /\ done' = done \cup {m.mid}
        /\ UNCHANGED <<dead, seen, pc, held, log, unrouted, abandoned, lost>>
    BY <1>2 DEF ReleaseLogged
  <2>2. SeenAccounted'
    BY <2>1 DEF SeenAccounted, DeadLettered, Busy
  <2>3. ASSUME NEW mid, InBroker(mid)
        PROVE  InBroker(mid)' \/ mid \in done'
    BY <2>1, <2>3 DEF InBroker
  <2>4. QED
    BY <2>1, <2>2, <2>3
    DEF StaysAccounted, Accounted, LogGrowsSafely, InHand, DeadLettered, Busy
<1>3. ASSUME NEW g \in Gifts, CheckItem(c, g)
      PROVE  StaysAccounted /\ LogGrowsSafely
  <2>1. TakesNothing /\ log' = log
    BY <1>0, <1>3 DEF CheckItem, TakesNothing, Busy, BusTypeOK
  <2>2. QED
    BY <2>1, TakingNothingIsSafe DEF LogGrowsSafely
<1>4. CASE Reply(c)
  <2>1. UNCHANGED <<seen, held>> /\ \A s \in Services : Busy(s)' <=> Busy(s)
    BY <1>0, <1>4 DEF Reply, Busy, BusTypeOK
  <2>2. \/ Sent("inventory.reserved", held[c].order, TRUE)
        \/ Sent("inventory.rejected", held[c].order, FALSE)
    BY <1>4 DEF Reply, Sent
  <2>3. QED
    BY <2>1, <2>2, PublishingIsSafe
<1>5. QED
  BY <1>1, <1>2, <1>3, <1>4 DEF CatalogWork

\* The work of OrderService's and NotificationService's consumers.
LEMMA ResultsAreSafe ==
  ASSUME TypeOK, SeenAccounted, OrderWork \/ NotifierWork
  PROVE  StaysAccounted /\ LogGrowsSafely
<1> USE DEF TypeOK, brokerVars, handlerVars, historyVars, boundVars, sagaVars
<1>0. OrderSvc \in Services /\ Notifier \in Services
  BY DEF Services
<1>1. ASSUME NEW m \in ready, TakeResult(m) \/ TakeStatus(m)
      PROVE  StaysAccounted /\ LogGrowsSafely
  <2>1. {"apply", "send"} \subseteq PC \ {"idle"}
    BY DEF PC
  <2>2. (Take(OrderSvc, m, "apply") \/ Take(Notifier, m, "send")) /\ log' = log
    BY <1>1 DEF TakeResult, TakeStatus, Take
  <2>3. QED
    BY <1>0, <2>1, <2>2, TakeIsSafe DEF LogGrowsSafely
<1>2. CASE ApplyResult \/ SendMail
  <2>1. TakesNothing /\ log' = log
    BY <1>0, <1>2 DEF ApplyResult, SendMail, TakesNothing, Busy, BusTypeOK
  <2>2. QED
    BY <2>1, TakingNothingIsSafe DEF LogGrowsSafely
<1>3. CASE PublishRelease \/ PublishStatus
  <2>1. UNCHANGED <<seen, held>> /\ \A s \in Services : Busy(s)' <=> Busy(s)
    BY <1>0, <1>3 DEF PublishRelease, PublishStatus, Busy, BusTypeOK
  <2>2. \E key, o, ok : Sent(key, o, ok)
    BY <1>3, PublishSends DEF PublishRelease, PublishStatus
  <2>3. QED
    BY <2>1, <2>2, PublishingIsSafe
<1>4. QED
  BY <1>1, <1>2, <1>3 DEF OrderWork, NotifierWork

\* Every step keeps every accounted event accounted for and logs only events that are.
LEMMA NextIsSafe ==
  ASSUME TypeOK, SeenAccounted, [Next]_vars
  PROVE  StaysAccounted /\ LogGrowsSafely
<1>1. CASE UNCHANGED vars
  <2>1. TakesNothing /\ log' = log
    BY <1>1 DEF TakesNothing, Busy, vars, busVars, brokerVars, handlerVars, historyVars
  <2>2. QED
    BY <2>1, TakingNothingIsSafe DEF LogGrowsSafely
<1>2. ASSUME NEW s \in Services, SharedStep(s)
      PROVE  StaysAccounted /\ LogGrowsSafely
  BY <1>2, SharedIsSafe DEF LogGrowsSafely
<1>3. QED
  BY <1>1, <1>2, RequestsAreSafe, CatalogIsSafe, ResultsAreSafe DEF Next, SharedStep

\* The inductive invariant behind NoSilentLoss.
Accounts == TypeOK /\ SeenAccounted /\ NoSilentLoss

\* Whatever crashes, lost connections and exceptions happen, an event that was published
\* is waiting, in a hand, handled or dead-lettered, unless no queue was bound when it
\* came, it went out on a connection that was gone, or a handler gave up on it after its
\* connection had been lost.
THEOREM NothingIsLostSilently == Spec => []NoSilentLoss
<1>1. Init => Accounts
  BY InitTypes DEF Init, Accounts, SeenAccounted, NoSilentLoss
<1>2. Accounts /\ [Next]_vars => Accounts'
  <2> SUFFICES ASSUME Accounts, [Next]_vars PROVE Accounts'
    OBVIOUS
  <2>1. TypeOK'
    BY NextTypes DEF Accounts
  <2>2. StaysAccounted /\ LogGrowsSafely
    BY NextIsSafe DEF Accounts
  <2>3. NoSilentLoss'
    BY <2>2 DEF Accounts, NoSilentLoss, StaysAccounted, LogGrowsSafely
  <2>4. QED
    BY <2>1, <2>2, <2>3 DEF Accounts, StaysAccounted
<1>3. Accounts => NoSilentLoss
  BY DEF Accounts
<1>4. QED
  BY <1>1, <1>2, <1>3, PTL DEF Spec

\* A process suppresses only duplicates somebody answers for.
THEOREM MarksAreAccountedFor == Spec => []SeenAccounted
<1>1. Init => TypeOK /\ SeenAccounted
  BY InitTypes DEF Init, SeenAccounted
<1>2. TypeOK /\ SeenAccounted /\ [Next]_vars => (TypeOK /\ SeenAccounted)'
  BY NextTypes, NextIsSafe DEF StaysAccounted
<1>3. QED
  BY <1>1, <1>2, PTL DEF Spec

-----------------------------------------------------------------------------
(* Verdicts follow decisions. Two facts carry the induction. Every copy in *)
(* a queue or in a hand goes back to a published event of the same order,  *)
(* success and queue, also after a retry has changed its routing key       *)
(* (Origins); and a handler in the middle of its work has done what its    *)
(* step says (Progress).                                                   *)

\* Copies of one event: a retry keeps the MessageId and the body; it changes the tag, the
\* retry count and perhaps the routing key, but not the queue the key leads to.
Published(m) == \E n \in log : /\ n.mid = m.mid /\ n.order = m.order /\ n.success = m.success
                               /\ Queue[n.key] = Queue[m.key]

Origins ==
  /\ \A m \in ready : Published(m)
  /\ \A s \in Services : Busy(s) => Published(held[s]) /\ Queue[held[s].key] \in Reads(s)

Progress ==
  /\ \A c \in Catalogs : pc[c] \in {"check", "reply"} =>
       \A g \in ItemsOf[held[c].order] \ unchecked[c] : gift[g] # "absent"
  /\ pc[OrderSvc] = "release" => held[OrderSvc].success = FALSE
  /\ pc[OrderSvc] = "announce" /\ held[OrderSvc].success = FALSE
       => Releases(held[OrderSvc].order) # {}

-----------------------------------------------------------------------------
(* Which event is behind a delivery in hand.                               *)

\* The queues tell the kinds of events apart.
LEMMA QueuesOfKeys ==
  ASSUME NEW key \in Keys
  PROVE  /\ Queue[key] = "orders.inventory-reserved.v2" <=> key \in ResultKeys
         /\ Queue[key] = "notifications.order-status" <=> key = "order.status-changed"
BY DEF Queue, Keys, ResultKeys

LEMMA QueuesOfServices ==
  /\ Reads(OrderSvc) = {"orders.inventory-reserved.v2"}
  /\ Reads(Notifier) = {"notifications.order-status"}
  /\ \A c \in Catalogs : Reads(c) = {"inventory.order-placed"}
BY BusAssumption DEF Reads

\* OrderService has a result of the catalog in hand, under whatever key.
LEMMA ResultBehind ==
  ASSUME TypeOK, Origins, Busy(OrderSvc)
  PROVE  Results(held[OrderSvc].order, held[OrderSvc].success) # {}
<1> DEFINE h == held[OrderSvc]
<1>1. OrderSvc \in Services
  BY DEF Services
<1>2. Published(h) /\ Queue[h.key] = "orders.inventory-reserved.v2"
  BY <1>1, QueuesOfServices DEF Origins
<1>3. PICK n \in log : /\ n.order = h.order /\ n.success = h.success
                       /\ Queue[n.key] = "orders.inventory-reserved.v2"
  BY <1>2 DEF Published
<1>4. n.key \in Keys
  BY DEF TypeOK, BusTypeOK, Message
<1>5. n.key \in ResultKeys
  BY <1>3, <1>4, QueuesOfKeys
<1>6. QED
  BY <1>3, <1>5 DEF Results

\* NotificationService has a published status in hand.
LEMMA StatusBehind ==
  ASSUME TypeOK, Origins, Busy(Notifier)
  PROVE  \E ok \in BOOLEAN : Statuses(held[Notifier].order, ok) # {}
<1> DEFINE h == held[Notifier]
<1>1. Notifier \in Services
  BY DEF Services
<1>2. Published(h) /\ Queue[h.key] = "notifications.order-status"
  BY <1>1, QueuesOfServices DEF Origins
<1>3. PICK n \in log : n.order = h.order /\ Queue[n.key] = "notifications.order-status"
  BY <1>2 DEF Published
<1>4. n.key \in Keys /\ n.success \in BOOLEAN
  BY DEF TypeOK, BusTypeOK, Message
<1>5. n.key = "order.status-changed"
  BY <1>3, <1>4, QueuesOfKeys
<1>6. n \in Statuses(h.order, n.success)
  BY <1>3, <1>5 DEF Statuses
<1>7. QED
  BY <1>4, <1>6

-----------------------------------------------------------------------------
(* Origins.                                                                *)

\* The log only grows.
LEMMA PublishedStays ==
  ASSUME log \subseteq log'
  PROVE  \A m : Published(m) => Published(m)'
BY DEF Published

LEMMA SendAddsOne ==
  ASSUME NEW key, NEW o, NEW ok, Sent(key, o, ok)
  PROVE  \E m : /\ m.key = key /\ m.order = o /\ m.success = ok
                /\ log' = log \cup {m} /\ ready' \subseteq ready \cup {m}
<1>1. PICK m : m = [tag |-> nextId, mid |-> nextId, key |-> key, order |-> o,
                   success |-> ok, retry |-> 0]
  OBVIOUS
<1>2. m.key = key /\ m.order = o /\ m.success = ok
  BY <1>1
<1>3. log' = log \cup {m} /\ ready' \subseteq ready \cup {m}
  BY <1>1 DEF Send, Sent
<1>4. QED
  BY <1>2, <1>3

LEMMA SendLogs ==
  ASSUME NEW key, NEW o, NEW ok, Sent(key, o, ok)
  PROVE  \E m : m.key = key /\ m.order = o /\ log' = log \cup {m}
BY SendAddsOne

\* The new event of a publish is its own origin, and leaves hands alone.
LEMMA SendKeepsOrigins ==
  ASSUME Origins, NEW key, NEW o, NEW ok, Sent(key, o, ok),
         UNCHANGED held, \A s \in Services : Busy(s)' <=> Busy(s)
  PROVE  Origins'
<1>1. PICK m : log' = log \cup {m} /\ ready' \subseteq ready \cup {m}
  BY SendAddsOne
<1>2. Published(m)'
  BY <1>1 DEF Published
<1>3. \A n \in ready' : Published(n)'
  BY <1>1, <1>2, PublishedStays DEF Origins
<1>4. \A s \in Services : Busy(s)' => Published(held[s])' /\ Queue[held'[s].key] \in Reads(s)
  BY <1>1, PublishedStays DEF Origins
<1>5. QED
  BY <1>3, <1>4 DEF Origins

\* Taking a delivery moves it from a queue of the service into its hand.
LEMMA TakeKeepsOrigins ==
  ASSUME TypeOK, Origins, NEW s \in Services, NEW m \in ready, NEW first, Take(s, m, first)
  PROVE  Origins'
<1>1. /\ ready' \subseteq ready /\ log' = log
      /\ held'[s] = m /\ Queue[m.key] \in Reads(s)
      /\ \A t \in Services \ {s} : held'[t] = held[t] /\ (Busy(t)' <=> Busy(t))
  BY DEF Take, CanTake, Busy, TypeOK, BusTypeOK, historyVars
<1>2. QED
  BY <1>1, PublishedStays DEF Origins

\* Nothing new comes into a queue or into a hand.
LEMMA NothingNewKeepsOrigins ==
  ASSUME Origins, log' = log, ready' \subseteq ready,
         \A s \in Services : Busy(s)' => Busy(s) /\ held'[s] = held[s]
  PROVE  Origins'
BY PublishedStays DEF Origins

\* A delivery goes back into its queue, or its handler leaves, or both.
LEMMA PutBackKeepsOrigins ==
  ASSUME Origins, NEW s \in Services, log' = log, ready' \subseteq Requeued(s),
         \A t \in Services : Busy(t)' => Busy(t) /\ held'[t] = held[t]
  PROVE  Origins'
<1>1. \A m \in ready' : Published(m)
  BY DEF Origins, Requeued
<1>2. QED
  BY <1>1, PublishedStays DEF Origins

\* A retry is a copy of the same event for the same queue.
LEMMA RepublishKeepsOrigins ==
  ASSUME TypeOK, Origins, NEW s \in Services, Republish(s)
  PROVE  Origins'
<1> DEFINE h == held[s]
<1> DEFINE copy == [h EXCEPT !.tag = nextId, !.key = RetryKey(s), !.retry = @ + 1]
<1>1. Busy(s) /\ ready' \subseteq ready \cup {copy} /\ log' = log /\ held' = held
  BY DEF Republish, Busy, historyVars
<1>2. \A t \in Services : Busy(t)' => Busy(t)
  BY <1>1 DEF Republish, Busy, TypeOK, BusTypeOK
<1>3. h \in Message
  BY <1>1, HeldIsMessage DEF TypeOK
<1> HIDE DEF h
<1>4. /\ copy.mid = h.mid /\ copy.order = h.order /\ copy.success = h.success
      /\ copy.key = RetryKey(s)
  BY <1>3 DEF Message
<1>5. Queue[RetryKey(s)] \in Reads(s) /\ Queue[h.key] \in Reads(s)
  <2>1. Queue[RetryKey(s)] \in Reads(s)
    BY DEF RetryKey, Reads, Queue, Keys
  <2>2. QED
    BY <1>1, <2>1 DEF Origins, h
<1>6. Queue[RetryKey(s)] = Queue[h.key]
  BY <1>5, QueuesOfServices DEF Services
<1>7. Published(h) /\ Published(copy)
  BY <1>1, <1>4, <1>6 DEF Origins, Published, h
<1>8. QED
  BY <1>1, <1>2, <1>7, PublishedStays DEF Origins

\* The consumer protocol and the failures, at any service.
LEMMA SharedKeepsOrigins ==
  ASSUME TypeOK, Origins, NEW s \in Services, SharedStep(s)
  PROVE  Origins'
<1> USE DEF brokerVars, handlerVars, historyVars, boundVars
<1>1. CASE RepublishWithRetry(s)
  BY <1>1, RepublishKeepsOrigins DEF RepublishWithRetry
<1>2. CASE (\E m \in ready : SuppressDuplicate(s, m)) \/ Startup(s)
  BY <1>2, NothingNewKeepsOrigins
  DEF SuppressDuplicate, Suppress, Startup, BootService, Boot, SubscribeService, Subscribe,
      RecoverConnection, Reconnect, Busy
<1>3. CASE Acknowledge(s) \/ DeadLetter(s) \/ AbandonStale(s)
  <2>1. Idle(s) /\ ready' = ready /\ log' = log
    BY <1>3 DEF Acknowledge, Ack, DeadLetter, Nack, AbandonStale, Abandon
  <2>2. \A t \in Services : Busy(t)' => Busy(t) /\ held'[t] = held[t]
    BY <2>1 DEF Idle, Busy, TypeOK, BusTypeOK
  <2>3. QED
    BY <2>1, <2>2, NothingNewKeepsOrigins
<1>4. CASE AcknowledgeThrows(s) \/ HandlerThrows(s)
  <2>1. /\ pc[s] # "idle" /\ pc' = [pc EXCEPT ![s] = "catch"]
        /\ ready' = ready /\ log' = log /\ held' = held
    BY <1>4 DEF AcknowledgeThrows, AckThrows, HandlerThrows, Throw, ThrowingSteps
  <2>2. \A t \in Services : Busy(t)' => Busy(t) /\ held'[t] = held[t]
    BY <2>1 DEF Busy, TypeOK, BusTypeOK
  <2>3. QED
    BY <2>1, <2>2, NothingNewKeepsOrigins
<1>5. CASE CrashService(s) \/ DropConnection(s)
  <2>1. ready' = Requeued(s) /\ log' = log
    BY <1>5 DEF CrashService, Crash, DropConnection, Drop
  <2>2. Idle(s) \/ UNCHANGED <<pc, held>>
    BY <1>5 DEF CrashService, Crash, DropConnection, Drop
  <2>3. \A t \in Services : Busy(t)' => Busy(t) /\ held'[t] = held[t]
    BY <2>2 DEF Idle, Busy, TypeOK, BusTypeOK
  <2>4. QED
    BY <2>1, <2>3, PutBackKeepsOrigins
<1>6. QED
  BY <1>1, <1>2, <1>3, <1>4, <1>5 DEF SharedStep, Protocol, Startup, Failure

\* Every step keeps what is in the queues and in the hands published.
LEMMA NextKeepsOrigins ==
  ASSUME TypeOK, Origins, [Next]_vars
  PROVE  Origins'
<1> USE DEF busVars, brokerVars, handlerVars, historyVars, boundVars, sagaVars
<1>1. CASE UNCHANGED vars
  BY <1>1, NothingNewKeepsOrigins DEF vars, Busy
<1>2. ASSUME NEW o \in Orders, PublishPlaced(o)
      PROVE  Origins'
  BY <1>2, PublishSends, SendKeepsOrigins DEF PublishPlaced, Busy
<1>3. ASSUME NEW o \in Orders,
             \/ \E draft \in BOOLEAN : SaveOrder(o, draft)
             \/ PublishPlacedFails(o) \/ ConfirmOverHttp(o)
      PROVE  Origins'
  BY <1>3, NothingNewKeepsOrigins DEF SaveOrder, PublishPlacedFails, ConfirmOverHttp, Busy
<1>4. ASSUME NEW g \in Gifts, AddGift(g) \/ DeleteGift(g)
      PROVE  Origins'
  BY <1>4, NothingNewKeepsOrigins DEF AddGift, DeleteGift, Busy
<1>5. ASSUME NEW c \in Catalogs, CatalogWork(c)
      PROVE  Origins'
  <2>0. c \in Services
    BY DEF Services
  <2>1. ASSUME NEW m \in ready, TakePlaced(c, m)
        PROVE  Origins'
    BY <2>0, <2>1, TakeKeepsOrigins DEF TakePlaced
  <2>2. ASSUME NEW m \in ready, ReleaseLogged(c, m)
        PROVE  Origins'
    BY <2>2, NothingNewKeepsOrigins DEF ReleaseLogged, Busy
  <2>3. ASSUME NEW g \in Gifts, CheckItem(c, g)
        PROVE  Origins'
    <3>1. ready' = ready /\ log' = log /\ held' = held
      BY <2>3 DEF CheckItem
    <3>2. \A s \in Services : Busy(s)' => Busy(s)
      BY <2>0, <2>3 DEF CheckItem, Busy, TypeOK, BusTypeOK
    <3>3. QED
      BY <3>1, <3>2, NothingNewKeepsOrigins
  <2>4. CASE Reply(c)
    <3>1. UNCHANGED held /\ \A s \in Services : Busy(s)' <=> Busy(s)
      BY <2>0, <2>4 DEF Reply, Busy, TypeOK, BusTypeOK
    <3>2. \E key, ok : Sent(key, held[c].order, ok)
      BY <2>4 DEF Reply, Sent
    <3>3. QED
      BY <3>1, <3>2, SendKeepsOrigins
  <2>5. QED
    BY <1>5, <2>1, <2>2, <2>3, <2>4 DEF CatalogWork
<1>6. CASE OrderWork \/ NotifierWork
  <2>0. OrderSvc \in Services /\ Notifier \in Services
    BY DEF Services
  <2>1. ASSUME NEW m \in ready, TakeResult(m) \/ TakeStatus(m)
        PROVE  Origins'
    BY <2>0, <2>1, TakeKeepsOrigins DEF TakeResult, TakeStatus
  <2>2. CASE ApplyResult \/ SendMail
    <3>1. ready' = ready /\ log' = log /\ held' = held
      BY <2>2 DEF ApplyResult, SendMail
    <3>2. \A s \in Services : Busy(s)' => Busy(s)
      BY <2>0, <2>2 DEF ApplyResult, SendMail, Busy, TypeOK, BusTypeOK
    <3>3. QED
      BY <3>1, <3>2, NothingNewKeepsOrigins
  <2>3. CASE PublishRelease \/ PublishStatus
    <3>1. UNCHANGED held /\ \A s \in Services : Busy(s)' <=> Busy(s)
      BY <2>0, <2>3 DEF PublishRelease, PublishStatus, Busy, TypeOK, BusTypeOK
    <3>2. \E key, ok : Sent(key, held[OrderSvc].order, ok)
      BY <2>3, PublishSends DEF PublishRelease, PublishStatus
    <3>3. QED
      BY <3>1, <3>2, SendKeepsOrigins
  <2>4. QED
    BY <1>6, <2>1, <2>2, <2>3 DEF OrderWork, NotifierWork
<1>7. ASSUME NEW s \in Services, SharedStep(s)
      PROVE  Origins'
  BY <1>7, SharedKeepsOrigins
<1>8. QED
  BY <1>1, <1>2, <1>3, <1>4, <1>5, <1>6, <1>7, SagaAssumption DEF Next, Checkout, SharedStep

-----------------------------------------------------------------------------
(* Progress.                                                               *)

\* Events are never withdrawn and gifts never become unknown again.
Grows == /\ log \subseteq log'
         /\ \A g \in Gifts : gift[g] # "absent" => gift'[g] # "absent"

\* The steps at which Progress asks nothing of a handler.
Careless == {"idle", "apply", "send", "settle", "catch", "nack"}

LEMMA OrderOfHeld ==
  ASSUME TypeOK, NEW s \in Services, Busy(s)
  PROVE  /\ held[s].order \in Orders /\ held[s].success \in BOOLEAN
         /\ ItemsOf[held[s].order] \subseteq Gifts
<1>1. held[s].order \in Orders /\ held[s].success \in BOOLEAN
  BY HeldIsMessage DEF TypeOK, Message
<1>2. QED
  BY <1>1, SagaAssumption

LEMMA ReleasesStay ==
  ASSUME log \subseteq log', NEW o, Releases(o) # {}
  PROVE  Releases(o)' # {}
BY DEF Releases

\* A step after which every handler stands where it stood or at a careless step.
LEMMA CarelessKeepsProgress ==
  ASSUME TypeOK, Progress, Grows, UNCHANGED unchecked,
         \A s \in Services : pc'[s] \in Careless \/ (pc'[s] = pc[s] /\ held'[s] = held[s])
  PROVE  Progress'
<1>1. ASSUME NEW c \in Catalogs, pc'[c] \in {"check", "reply"},
             NEW g \in ItemsOf[held'[c].order] \ unchecked'[c]
      PROVE  gift'[g] # "absent"
  <2>1. c \in Services /\ pc'[c] \notin Careless
    BY <1>1 DEF Services, Careless
  <2>2. pc[c] = pc'[c] /\ held[c] = held'[c] /\ Busy(c)
    BY <1>1, <2>1 DEF Busy
  <2>3. g \in Gifts /\ gift[g] # "absent"
    BY <1>1, <2>1, <2>2, OrderOfHeld DEF Progress
  <2>4. QED
    BY <2>3 DEF Grows
<1>2. ASSUME pc'[OrderSvc] \in {"release", "announce"}
      PROVE  pc[OrderSvc] = pc'[OrderSvc] /\ held[OrderSvc] = held'[OrderSvc]
  BY <1>2 DEF Services, Careless
<1>3. QED
  BY <1>1, <1>2, ReleasesStay DEF Progress, Grows

LEMMA CatalogKeepsProgress ==
  ASSUME TypeOK, Progress, NEW c \in Catalogs, CatalogWork(c)
  PROVE  Progress'
<1> USE DEF brokerVars, handlerVars, historyVars, boundVars, sagaVars
<1>0. c \in Services /\ c # OrderSvc /\ OrderSvc \in Services
  BY BusAssumption DEF Services
<1>1. ASSUME NEW m \in ready, TakePlaced(c, m)
      PROVE  Progress'
  <2>1. /\ held'[c] = m /\ unchecked'[c] = ItemsOf[m.order] /\ UNCHANGED <<gift, log>>
        /\ \A s \in Services \ {c} : pc'[s] = pc[s] /\ held'[s] = held[s]
        /\ \A d \in Catalogs \ {c} : unchecked'[d] = unchecked[d]
    BY <1>0, <1>1 DEF TakePlaced, Take, TypeOK, BusTypeOK
  <2>2. \A d \in Catalogs : d \in Services
    BY DEF Services
  <2>3. QED
    BY <1>0, <2>1, <2>2 DEF Progress, Releases
<1>2. ASSUME NEW g \in Gifts, CheckItem(c, g)
      PROVE  Progress'
  <2>1. /\ pc[c] = "check" /\ UNCHANGED <<held, gift, log>>
        /\ \A s \in Services \ {c} : pc'[s] = pc[s]
        /\ \A d \in Catalogs \ {c} : unchecked'[d] = unchecked[d]
    BY <1>0, <1>2 DEF CheckItem, TypeOK, BusTypeOK
  <2>2. \A x \in unchecked[c] \ unchecked'[c] : gift[x] = "live"
    BY <1>2 DEF CheckItem, TypeOK
  <2>3. \A d \in Catalogs : d \in Services
    BY DEF Services
  <2>4. ASSUME NEW x \in ItemsOf[held[c].order] \ unchecked'[c]
        PROVE  gift[x] # "absent"
    BY <2>1, <2>2, <2>4 DEF Progress
  <2>5. QED
    BY <1>0, <2>1, <2>3, <2>4 DEF Progress, Releases
<1>3. ASSUME NEW m \in ready, ReleaseLogged(c, m)
      PROVE  Progress'
  BY <1>3, CarelessKeepsProgress DEF ReleaseLogged, Grows
<1>4. CASE Reply(c)
  <2>1. log \subseteq log' /\ UNCHANGED <<gift, unchecked, held>>
    BY <1>4 DEF Reply, Send
  <2>2. \A s \in Services : pc'[s] \in Careless \/ pc'[s] = pc[s]
    BY <1>4 DEF Reply, Careless, TypeOK, BusTypeOK
  <2>3. QED
    BY <2>1, <2>2, CarelessKeepsProgress DEF Grows
<1>5. QED
  BY <1>1, <1>2, <1>3, <1>4 DEF CatalogWork

LEMMA OrderKeepsProgress ==
  ASSUME TypeOK, Progress, OrderWork
  PROVE  Progress'
<1> USE DEF brokerVars, handlerVars, historyVars, boundVars, sagaVars
<1>0. OrderSvc \in Services /\ \A c \in Catalogs : c \in Services \ {OrderSvc}
  BY BusAssumption DEF Services
<1>1. ASSUME NEW m \in ready, TakeResult(m)
      PROVE  Progress'
  <2>1. UNCHANGED <<log, gift, unchecked>>
    BY <1>1 DEF TakeResult, Take
  <2>2. \A s \in Services : pc'[s] \in Careless \/ (pc'[s] = pc[s] /\ held'[s] = held[s])
    BY <1>1 DEF TakeResult, Take, Careless, TypeOK, BusTypeOK
  <2>3. QED
    BY <2>1, <2>2, CarelessKeepsProgress DEF Grows
<1>2. CASE ApplyResult
  <2>1. /\ UNCHANGED <<held, gift, unchecked, log>>
        /\ pc'[OrderSvc] = IF held[OrderSvc].success THEN "announce" ELSE "release"
        /\ \A s \in Services \ {OrderSvc} : pc'[s] = pc[s]
    BY <1>0, <1>2 DEF ApplyResult, TypeOK, BusTypeOK
  <2>2. held[OrderSvc].success \in BOOLEAN
    BY <1>0, <1>2, OrderOfHeld DEF ApplyResult, Busy
  <2>3. QED
    BY <1>0, <2>1, <2>2 DEF Progress, Releases
<1>3. CASE PublishRelease
  <2>1. /\ UNCHANGED <<held, gift, unchecked>>
        /\ pc'[OrderSvc] = "announce"
        /\ \A s \in Services \ {OrderSvc} : pc'[s] = pc[s]
    BY <1>0, <1>3 DEF PublishRelease, TypeOK, BusTypeOK
  <2>2. PICK o : o = held[OrderSvc].order /\ o = held'[OrderSvc].order
    BY <2>1
  <2>3. \E key, ok : key = "inventory.release-requested" /\ Sent(key, o, ok)
    BY <1>3, <2>2, PublishSends DEF PublishRelease
  <2>4. \E m : m.key = "inventory.release-requested" /\ m.order = o /\ log' = log \cup {m}
    BY <2>3, SendLogs
  <2>5. Releases(o)' # {}
    BY <2>4 DEF Releases
  <2>6. \A c \in Catalogs : pc'[c] = pc[c]
    BY <1>0, <2>1
  <2>7. QED
    BY <2>1, <2>2, <2>5, <2>6 DEF Progress
<1>4. CASE PublishStatus
  <2>1. log \subseteq log' /\ UNCHANGED <<gift, unchecked, held>>
    BY <1>4, PublishSends, SentIsLogged DEF PublishStatus
  <2>2. \A s \in Services : pc'[s] \in Careless \/ pc'[s] = pc[s]
    BY <1>4 DEF PublishStatus, Careless, TypeOK, BusTypeOK
  <2>3. QED
    BY <2>1, <2>2, CarelessKeepsProgress DEF Grows
<1>5. QED
  BY <1>1, <1>2, <1>3, <1>4 DEF OrderWork

\* The protocol leaves every handler where it was or at a careless step.
LEMMA SharedIsCareless ==
  ASSUME TypeOK, NEW s \in Services, SharedStep(s)
  PROVE  /\ UNCHANGED <<log, gift, unchecked, row, chosenFinal, manual, mailVars>>
         /\ \A t \in Services : pc'[t] \in Careless \/ (pc'[t] = pc[t] /\ held'[t] = held[t])
<1> USE DEF brokerVars, handlerVars, historyVars, boundVars, sagaVars, Careless
<1>1. CASE RepublishWithRetry(s) \/ AcknowledgeThrows(s) \/ HandlerThrows(s)
  <2>1. UNCHANGED <<log, gift, unchecked, row, chosenFinal, manual, mailVars>>
    BY <1>1 DEF RepublishWithRetry, Republish, AcknowledgeThrows, AckThrows, HandlerThrows, Throw
  <2>2. held' = held /\ \E next \in {"nack", "catch"} : pc' = [pc EXCEPT ![s] = next]
    BY <1>1 DEF RepublishWithRetry, Republish, AcknowledgeThrows, AckThrows, HandlerThrows, Throw
  <2>3. QED
    BY <2>1, <2>2 DEF TypeOK, BusTypeOK
<1>2. CASE (\E m \in ready : SuppressDuplicate(s, m)) \/ Startup(s)
           \/ DropConnection(s)
  BY <1>2 DEF SuppressDuplicate, Suppress, Startup, BootService, Boot, SubscribeService,
              Subscribe, RecoverConnection, Reconnect, DropConnection, Drop
<1>3. CASE Acknowledge(s) \/ DeadLetter(s) \/ AbandonStale(s) \/ CrashService(s)
  <2>1. UNCHANGED <<log, gift, unchecked, row, chosenFinal, manual, mailVars>>
    BY <1>3 DEF Acknowledge, Ack, DeadLetter, Nack, AbandonStale, Abandon, CrashService, Crash
  <2>2. Idle(s)
    BY <1>3 DEF Acknowledge, Ack, DeadLetter, Nack, AbandonStale, Abandon, CrashService, Crash
  <2>3. QED
    BY <2>1, <2>2 DEF Idle, TypeOK, BusTypeOK
<1>4. QED
  BY <1>1, <1>2, <1>3 DEF SharedStep, Protocol, Startup, Failure

\* What clients, managers and the mailer do to a handler in the middle of its work.
LEMMA OthersAreCareless ==
  ASSUME TypeOK,
         \/ Checkout \/ NotifierWork \/ \E g \in Gifts : AddGift(g) \/ DeleteGift(g)
  PROVE  /\ Grows /\ UNCHANGED unchecked
         /\ \A s \in Services : pc'[s] \in Careless \/ (pc'[s] = pc[s] /\ held'[s] = held[s])
<1> USE DEF busVars, brokerVars, handlerVars, historyVars, boundVars, sagaVars, Careless, Grows
<1>1. CASE Checkout
  BY <1>1, PublishSends, SentIsLogged
  DEF Checkout, SaveOrder, PublishPlaced, PublishPlacedFails, ConfirmOverHttp
<1>2. ASSUME NEW g \in Gifts, AddGift(g) \/ DeleteGift(g)
      PROVE  /\ log' = log /\ UNCHANGED <<pc, held, unchecked>>
             /\ \A x \in Gifts : gift[x] # "absent" => gift'[x] # "absent"
  BY <1>2 DEF AddGift, DeleteGift, TypeOK
<1>3. ASSUME NEW m \in ready, TakeStatus(m)
      PROVE  /\ UNCHANGED <<log, gift, unchecked>>
             /\ \A s \in Services : pc'[s] \in Careless \/ (pc'[s] = pc[s] /\ held'[s] = held[s])
  BY <1>3 DEF TakeStatus, Take, TypeOK, BusTypeOK
<1>4. ASSUME SendMail
      PROVE  /\ UNCHANGED <<log, gift, unchecked>>
             /\ \A s \in Services : pc'[s] \in Careless \/ (pc'[s] = pc[s] /\ held'[s] = held[s])
  BY <1>4 DEF SendMail, TypeOK, BusTypeOK
<1>5. QED
  BY <1>1, <1>2, <1>3, <1>4 DEF NotifierWork

LEMMA NextKeepsProgress ==
  ASSUME TypeOK, Progress, [Next]_vars
  PROVE  Progress'
<1>1. CASE UNCHANGED vars
  BY <1>1, CarelessKeepsProgress
  DEF Grows, vars, busVars, brokerVars, handlerVars, historyVars, sagaVars
<1>2. CASE Checkout \/ NotifierWork \/ \E g \in Gifts : AddGift(g) \/ DeleteGift(g)
  BY <1>2, OthersAreCareless, CarelessKeepsProgress
<1>3. ASSUME NEW s \in Services, SharedStep(s)
      PROVE  Progress'
  BY <1>3, SharedIsCareless, CarelessKeepsProgress DEF Grows
<1>4. QED
  BY <1>1, <1>2, <1>3, CatalogKeepsProgress, OrderKeepsProgress DEF Next, SharedStep

-----------------------------------------------------------------------------
(* VerdictsFollowDecisions, event by event.                                *)

\* What must have been published, or be known to the catalog, for an event to be right.
Backed(m) ==
  /\ m.key = "order.status-changed" =>
       /\ Results(m.order, m.success) # {}
       /\ m.success = FALSE => Releases(m.order) # {}
  /\ m.key = "inventory.release-requested" => Results(m.order, FALSE) # {}
  /\ m.key \in ResultKeys /\ m.success = TRUE =>
       \A g \in ItemsOf[m.order] : gift[g] # "absent"

EventsBacked == \A m \in log : Backed(m)

MailsBacked ==
  \A o \in Orders : Informed(o) => \E ok \in BOOLEAN : Statuses(o, ok) # {}

LEMMA BackedMeansDecided ==
  ASSUME EventsBacked, MailsBacked
  PROVE  VerdictsFollowDecisions
<1> SUFFICES ASSUME NEW o \in Orders
             PROVE  /\ \A ok \in BOOLEAN : Statuses(o, ok) # {} => Results(o, ok) # {}
                    /\ Releases(o) # {} => Results(o, FALSE) # {}
                    /\ Statuses(o, FALSE) # {} => Releases(o) # {}
                    /\ Results(o, TRUE) # {} => \A g \in ItemsOf[o] : gift[g] # "absent"
                    /\ Informed(o) => Statuses(o, TRUE) \cup Statuses(o, FALSE) # {}
  BY DEF VerdictsFollowDecisions, Informed
<1>1. \A ok \in BOOLEAN : Statuses(o, ok) # {} => Results(o, ok) # {}
  BY DEF EventsBacked, Backed, Statuses
<1>2. Releases(o) # {} => Results(o, FALSE) # {}
  BY DEF EventsBacked, Backed, Releases
<1>3. Statuses(o, FALSE) # {} => Releases(o) # {}
  BY DEF EventsBacked, Backed, Statuses
<1>4. Results(o, TRUE) # {} => \A g \in ItemsOf[o] : gift[g] # "absent"
  BY DEF EventsBacked, Backed, Results
<1>5. Informed(o) => Statuses(o, TRUE) \cup Statuses(o, FALSE) # {}
  BY DEF MailsBacked
<1>6. QED
  BY <1>1, <1>2, <1>3, <1>4, <1>5

\* What backs an event is never taken back.
LEMMA BackedStays ==
  ASSUME Grows, NEW m, Backed(m), m.order \in Orders
  PROVE  Backed(m)'
<1>1. ItemsOf[m.order] \subseteq Gifts
  BY SagaAssumption
<1>2. Results(m.order, m.success) \subseteq Results(m.order, m.success)'
  BY DEF Grows, Results
<1>3. Results(m.order, FALSE) \subseteq Results(m.order, FALSE)'
  BY DEF Grows, Results
<1>4. Releases(m.order) \subseteq Releases(m.order)'
  BY DEF Grows, Releases
<1>5. QED
  BY <1>1, <1>2, <1>3, <1>4 DEF Backed, Grows

LEMMA MailsStayBacked ==
  ASSUME MailsBacked, Grows, UNCHANGED mailVars
  PROVE  MailsBacked'
<1>1. \A o, ok : Statuses(o, ok) \subseteq Statuses(o, ok)'
  BY DEF Grows, Statuses
<1>2. \A o \in Orders : Informed(o)' <=> Informed(o)
  BY DEF Informed, mailVars
<1>3. QED
  BY <1>1, <1>2 DEF MailsBacked

\* A step that publishes nothing, and one that publishes an event which is right.
LEMMA QuietKeepsBacked ==
  ASSUME TypeOK, EventsBacked, Grows, log' = log
  PROVE  EventsBacked'
<1>1. \A m \in log : m.order \in Orders
  BY DEF TypeOK, BusTypeOK, Message
<1>2. QED
  BY <1>1, BackedStays DEF EventsBacked

LEMMA PublishKeepsBacked ==
  ASSUME TypeOK, EventsBacked, Grows, NEW m, log' = log \cup {m}, Backed(m)'
  PROVE  EventsBacked'
<1>1. \A n \in log : n.order \in Orders
  BY DEF TypeOK, BusTypeOK, Message
<1>2. \A n \in log : Backed(n)'
  BY <1>1, BackedStays DEF EventsBacked
<1>3. QED
  BY <1>2 DEF EventsBacked

\* OrderService announces and releases on behalf of the result it has in hand, the
\* catalog reserves what it has found: every publish is of an event which is right.
LEMMA ReplyKeepsBacked ==
  ASSUME TypeOK, Progress, EventsBacked, NEW c \in Catalogs, Reply(c)
  PROVE  Grows /\ EventsBacked'
<1>1. log \subseteq log' /\ gift' = gift
  BY DEF Reply, Send, sagaVars
<1>2. Grows
  BY <1>1 DEF Grows
<1>3. PICK o : o = held[c].order
  OBVIOUS
<1>4. \A g \in ItemsOf[o] \ unchecked[c] : gift[g] # "absent"
  BY <1>3 DEF Progress, Reply
<1>5. CASE AllAvailable(c)
  <2>1. \E key, ok : key = "inventory.reserved" /\ Sent(key, o, ok)
    BY <1>3, <1>5 DEF Reply, Sent
  <2>2. PICK m : m.key = "inventory.reserved" /\ m.order = o /\ log' = log \cup {m}
    BY <2>1, SendLogs
  <2>3. \A g \in ItemsOf[o] : gift'[g] # "absent"
    BY <1>1, <1>4, <1>5 DEF AllAvailable
  <2>4. Backed(m)'
    BY <2>2, <2>3 DEF Backed
  <2>5. QED
    BY <1>2, <2>2, <2>4, PublishKeepsBacked
<1>6. CASE ~AllAvailable(c)
  <2>1. \E key, ok : key = "inventory.rejected" /\ (~ok) /\ Sent(key, o, ok)
    BY <1>3, <1>6 DEF Reply, Sent
  <2>2. PICK m : m.key = "inventory.rejected" /\ (~m.success) /\ log' = log \cup {m}
    BY <2>1, SendAddsOne
  <2>3. Backed(m)'
    BY <2>2 DEF Backed
  <2>4. QED
    BY <1>2, <2>2, <2>3, PublishKeepsBacked
<1>7. QED
  BY <1>5, <1>6

LEMMA ReleaseKeepsBacked ==
  ASSUME TypeOK, Origins, Progress, EventsBacked, PublishRelease
  PROVE  Grows /\ EventsBacked'
<1>1. log \subseteq log' /\ gift' = gift
  BY PublishSends, SentIsLogged DEF PublishRelease, sagaVars
<1>2. Grows
  BY <1>1 DEF Grows
<1>3. PICK o : o = held[OrderSvc].order
  OBVIOUS
<1>4. Results(o, FALSE) # {}
  BY <1>3, ResultBehind DEF Progress, PublishRelease, Busy
<1>5. Results(o, FALSE)' # {}
  BY <1>1, <1>4 DEF Results
<1>6. \E key, ok : key = "inventory.release-requested" /\ Sent(key, o, ok)
  BY <1>3, PublishSends DEF PublishRelease
<1>7. PICK m : m.key = "inventory.release-requested" /\ m.order = o /\ log' = log \cup {m}
  BY <1>6, SendLogs
<1>8. Backed(m)'
  BY <1>5, <1>7 DEF Backed, ResultKeys
<1>9. QED
  BY <1>2, <1>7, <1>8, PublishKeepsBacked

LEMMA StatusKeepsBacked ==
  ASSUME TypeOK, Origins, Progress, EventsBacked, PublishStatus
  PROVE  Grows /\ EventsBacked'
<1>1. log \subseteq log' /\ gift' = gift
  BY PublishSends, SentIsLogged DEF PublishStatus, sagaVars
<1>2. Grows
  BY <1>1 DEF Grows
<1>3. PICK o, ok : o = held[OrderSvc].order /\ ok = held[OrderSvc].success
  OBVIOUS
<1>4. Results(o, ok) # {} /\ (ok = FALSE => Releases(o) # {})
  BY <1>3, ResultBehind DEF Progress, PublishStatus, Busy
<1>5. Results(o, ok)' # {} /\ (ok = FALSE => Releases(o)' # {})
  BY <1>1, <1>4 DEF Results, Releases
<1>6. \E key : key = "order.status-changed" /\ Sent(key, o, ok)
  BY <1>3, PublishSends DEF PublishStatus, Verdict
<1>7. PICK m : /\ m.key = "order.status-changed" /\ m.order = o /\ m.success = ok
               /\ log' = log \cup {m}
  BY <1>6, SendAddsOne
<1>8. Backed(m)'
  BY <1>5, <1>7 DEF Backed, ResultKeys
<1>9. QED
  BY <1>2, <1>7, <1>8, PublishKeepsBacked

LEMMA MailKeepsBacked ==
  ASSUME TypeOK, Origins, MailsBacked, SendMail
  PROVE  MailsBacked'
<1>1. PICK o : o = held[Notifier].order
  OBVIOUS
<1>2. o \in Orders /\ \E ok \in BOOLEAN : Statuses(o, ok) # {}
  BY <1>1, StatusBehind, OrderOfHeld DEF SendMail, Busy, Services
<1>3. \A x \in Orders \ {o} : Informed(x)' <=> Informed(x)
  BY <1>1 DEF SendMail, Informed, TypeOK
<1>4. \A x, ok : Statuses(x, ok)' = Statuses(x, ok)
  BY DEF SendMail, Statuses, historyVars
<1>5. QED
  BY <1>2, <1>3, <1>4 DEF MailsBacked

LEMMA NextKeepsBacked ==
  ASSUME TypeOK, Origins, Progress, EventsBacked, MailsBacked, [Next]_vars
  PROVE  EventsBacked' /\ MailsBacked'
<1> USE DEF busVars, brokerVars, handlerVars, historyVars, sagaVars
<1> DEFINE Quiet == log' = log /\ Grows /\ UNCHANGED mailVars
<1>0. Quiet => EventsBacked' /\ MailsBacked'
  BY QuietKeepsBacked, MailsStayBacked
<1>1. CASE UNCHANGED vars
  BY <1>0, <1>1 DEF vars, Grows
<1>2. CASE Checkout
  <2>1. ASSUME NEW o \in Orders, PublishPlaced(o)
        PROVE  EventsBacked' /\ MailsBacked'
    <3>1. Grows /\ UNCHANGED mailVars
      BY <2>1, PublishSends, SentIsLogged DEF PublishPlaced, Grows
    <3>2. \E key, ok : key = "order.placed" /\ Sent(key, o, ok)
      BY <2>1, PublishSends DEF PublishPlaced
    <3>3. PICK m : m.key = "order.placed" /\ log' = log \cup {m}
      BY <3>2, SendLogs
    <3>4. Backed(m)'
      BY <3>3 DEF Backed, ResultKeys
    <3>5. QED
      BY <3>1, <3>3, <3>4, PublishKeepsBacked, MailsStayBacked
  <2>2. ASSUME NEW o \in Orders,
               \/ \E draft \in BOOLEAN : SaveOrder(o, draft)
               \/ PublishPlacedFails(o) \/ ConfirmOverHttp(o)
        PROVE  Quiet
    BY <2>2 DEF SaveOrder, PublishPlacedFails, ConfirmOverHttp, Grows
  <2>3. QED
    BY <1>0, <1>2, <2>1, <2>2, SagaAssumption DEF Checkout
<1>3. ASSUME NEW g \in Gifts, AddGift(g) \/ DeleteGift(g)
      PROVE  Quiet
  BY <1>3, OthersAreCareless DEF AddGift, DeleteGift
<1>4. ASSUME NEW c \in Catalogs, CatalogWork(c)
      PROVE  EventsBacked' /\ MailsBacked'
  <2>1. CASE Reply(c)
    BY <2>1, ReplyKeepsBacked, MailsStayBacked DEF Reply
  <2>2. ASSUME \/ \E m \in ready : TakePlaced(c, m) \/ ReleaseLogged(c, m)
               \/ \E g \in Gifts : CheckItem(c, g)
        PROVE  Quiet
    BY <2>2 DEF TakePlaced, Take, ReleaseLogged, CheckItem, Grows
  <2>3. QED
    BY <1>0, <1>4, <2>1, <2>2 DEF CatalogWork
<1>5. CASE OrderWork
  <2>1. CASE PublishRelease \/ PublishStatus
    <3>1. UNCHANGED mailVars
      BY <2>1 DEF PublishRelease, PublishStatus
    <3>2. QED
      BY <2>1, <3>1, ReleaseKeepsBacked, StatusKeepsBacked, MailsStayBacked
  <2>2. CASE ApplyResult \/ \E m \in ready : TakeResult(m)
    BY <1>0, <2>2 DEF ApplyResult, TakeResult, Take, Grows
  <2>3. QED
    BY <1>5, <2>1, <2>2 DEF OrderWork
<1>6. CASE NotifierWork
  <2>1. log' = log /\ Grows
    BY <1>6, OthersAreCareless DEF NotifierWork, SendMail, TakeStatus, Take
  <2>2. EventsBacked'
    BY <2>1, QuietKeepsBacked
  <2>3. CASE \E m \in ready : TakeStatus(m)
    BY <2>1, <2>2, <2>3, MailsStayBacked DEF TakeStatus
  <2>4. QED
    BY <1>6, <2>2, <2>3, MailKeepsBacked DEF NotifierWork
<1>7. ASSUME NEW s \in Services, SharedStep(s)
      PROVE  Quiet
  BY <1>7, SharedIsCareless DEF Grows
<1>8. QED
  BY <1>0, <1>1, <1>2, <1>3, <1>4, <1>5, <1>6, <1>7 DEF Next, SharedStep

-----------------------------------------------------------------------------
(* The theorems.                                                           *)

\* The inductive invariant behind both.
Decided == TypeOK /\ Origins /\ Progress /\ EventsBacked /\ MailsBacked

LEMMA InitDecided == Init => Decided
<1> SUFFICES ASSUME Init PROVE Decided
  OBVIOUS
<1>1. \A s \in Services : ~Busy(s) /\ pc[s] = "idle"
  BY DEF Init, Busy
<1>2. Origins
  BY <1>1 DEF Init, Origins
<1>3. Progress
  BY <1>1 DEF Progress, Services
<1>4. EventsBacked /\ MailsBacked
  BY DEF Init, EventsBacked, MailsBacked, Informed
<1>5. QED
  BY <1>2, <1>3, <1>4, InitTypes DEF Decided

LEMMA NextDecided == Decided /\ [Next]_vars => Decided'
BY NextTypes, NextKeepsOrigins, NextKeepsProgress, NextKeepsBacked DEF Decided

\* OrderService announces only what the catalog decided, also when a rejection came
\* back from a retry under the key inventory.reserved; it has a reservation released
\* only after a rejection; the catalog reserves only gifts it has had; and
\* NotificationService mails nobody before a status was published.
THEOREM VerdictsAreDecisions == Spec => []VerdictsFollowDecisions
<1>1. Decided => VerdictsFollowDecisions
  BY BackedMeansDecided DEF Decided
<1>2. QED
  BY <1>1, InitDecided, NextDecided, PTL DEF Spec

\* Only ApplyResult, SaveOrder and ConfirmOverHttp write an order's row.
LEMMA RowsKept ==
  ASSUME TypeOK, [Next]_vars
  PROVE  \/ UNCHANGED <<row, chosenFinal, manual>>
         \/ Checkout \/ ApplyResult
<1>1. CASE UNCHANGED vars
  BY <1>1 DEF vars, sagaVars
<1>2. ASSUME NEW g \in Gifts, AddGift(g) \/ DeleteGift(g)
      PROVE  UNCHANGED <<row, chosenFinal, manual>>
  BY <1>2 DEF AddGift, DeleteGift
<1>3. ASSUME NEW c \in Catalogs, CatalogWork(c)
      PROVE  UNCHANGED <<row, chosenFinal, manual>>
  BY <1>3 DEF CatalogWork, TakePlaced, ReleaseLogged, CheckItem, Reply, sagaVars
<1>4. CASE OrderWork \/ NotifierWork
  BY <1>4 DEF OrderWork, TakeResult, PublishRelease, PublishStatus, NotifierWork,
              TakeStatus, SendMail, sagaVars
<1>5. ASSUME NEW s \in Services, SharedStep(s)
      PROVE  UNCHANGED <<row, chosenFinal, manual>>
  BY <1>5, SharedIsCareless
<1>6. QED
  BY <1>1, <1>2, <1>3, <1>4, <1>5 DEF Next, SharedStep

LEMMA NextKeepsPool ==
  ASSUME TypeOK, Origins, PoolIsJustified, Grows, [Next]_vars
  PROVE  PoolIsJustified'
<1>0. \A o \in Orders, ok \in BOOLEAN : Results(o, ok) # {} => Results(o, ok)' # {}
  BY DEF Results, Grows
<1>1. CASE UNCHANGED <<row, chosenFinal, manual>>
  BY <1>0, <1>1 DEF PoolIsJustified
<1>2. CASE ApplyResult
  <2>1. PICK o, ok : o = held[OrderSvc].order /\ ok = held[OrderSvc].success
    OBVIOUS
  <2>2. Busy(OrderSvc) /\ OrderSvc \in Services
    BY <1>2 DEF ApplyResult, Busy, Services
  <2>3. o \in Orders /\ ok \in BOOLEAN /\ Results(o, ok) # {}
    BY <2>1, <2>2, ResultBehind, OrderOfHeld
  <2>4. /\ row' = [row EXCEPT ![o] = IF ok THEN "final" ELSE "draft"]
        /\ UNCHANGED <<chosenFinal, manual>>
    BY <1>2, <2>1 DEF ApplyResult, RowAfter
  <2>5. \A x \in Orders \ {o} : row'[x] = row[x]
    BY <2>4 DEF TypeOK
  <2>6. CASE ok
    BY <1>0, <2>3, <2>4, <2>5, <2>6 DEF PoolIsJustified
  <2>7. CASE ~ok
    <3>1. row'[o] = "draft"
      BY <2>3, <2>4, <2>7 DEF TypeOK
    <3>2. QED
      BY <1>0, <2>4, <2>5, <3>1 DEF PoolIsJustified
  <2>8. QED
    BY <2>6, <2>7
<1>3. CASE Checkout
  <2>1. ASSUME NEW o \in Orders, NEW draft \in BOOLEAN, SaveOrder(o, draft)
        PROVE  PoolIsJustified'
    BY <1>0, <2>1 DEF SaveOrder, PoolIsJustified, TypeOK
  <2>2. ASSUME NEW o \in Orders, ConfirmOverHttp(o)
        PROVE  PoolIsJustified'
    BY <1>0, <2>2 DEF ConfirmOverHttp, PoolIsJustified, TypeOK
  <2>3. ASSUME NEW o \in Orders, PublishPlaced(o) \/ PublishPlacedFails(o)
        PROVE  UNCHANGED <<row, chosenFinal, manual>>
    BY <2>3 DEF PublishPlaced, PublishPlacedFails
  <2>4. QED
    BY <1>1, <1>3, <2>1, <2>2, <2>3, SagaAssumption DEF Checkout
<1>4. QED
  BY <1>1, <1>2, <1>3, RowsKept

\* The log and the gifts only grow.
LEMMA NextGrows ==
  ASSUME TypeOK, [Next]_vars
  PROVE  Grows
<1> USE DEF Grows
<1>1. CASE UNCHANGED vars
  BY <1>1 DEF vars, busVars, historyVars, sagaVars
<1>2. CASE Checkout \/ NotifierWork \/ \E g \in Gifts : AddGift(g) \/ DeleteGift(g)
  BY <1>2, OthersAreCareless
<1>3. ASSUME NEW c \in Catalogs, CatalogWork(c)
      PROVE  Grows
  BY <1>3 DEF CatalogWork, TakePlaced, Take, ReleaseLogged, CheckItem, Reply, Send, sagaVars,
              historyVars
<1>4. CASE OrderWork
  BY <1>4, PublishSends, SentIsLogged
  DEF OrderWork, TakeResult, Take, ApplyResult, PublishRelease, PublishStatus, sagaVars, historyVars
<1>5. ASSUME NEW s \in Services, SharedStep(s)
      PROVE  Grows
  BY <1>5, SharedIsCareless
<1>6. QED
  BY <1>1, <1>2, <1>3, <1>4, <1>5 DEF Next, SharedStep

\* A rejected order never gets into the pool: OrderService takes an order out of draft
\* only when its client asked for that, somebody confirmed it over HTTP, or the
\* catalog published a reservation for it.
THEOREM PoolNeedsAReason == Spec => []PoolIsJustified
<1>1. Init => PoolIsJustified
  BY DEF Init, PoolIsJustified
<1>2. Decided /\ PoolIsJustified /\ [Next]_vars => PoolIsJustified'
  BY NextGrows, NextKeepsPool DEF Decided
<1>3. QED
  BY <1>1, <1>2, InitDecided, NextDecided, PTL DEF Spec

-----------------------------------------------------------------------------
(* Retries duplicate nothing.  A retried delivery is in two places for a   *)
(* while, the copy in its queue and the original in the hand of the        *)
(* handler that failed, and another catalog replica, whose own store does  *)
(* not know the MessageId, may take the copy.  The argument is by stage:   *)
(* an order's order.placed is at one place at most where it can still      *)
(* become a result (CheckedOnce); OrderService, of which there is one      *)
(* instance, never takes a marked result again (AnsweredOnce); nor does    *)
(* NotificationService a status (MailedOnce).                              *)

AllResults(o)   == Results(o, TRUE) \cup Results(o, FALSE)
AllStatuses(o)  == Statuses(o, TRUE) \cup Statuses(o, FALSE)
PlacedCopies(o) == {m \in ready : m.key = "order.placed" /\ m.order = o}

\* The steps from which a replica may still publish a result or a retry.
Checking    == {"check", "reply", "catch"}
Checkers(o) == {c \in Catalogs : pc[c] \in Checking /\ held[c].order = o}

Unplaced(o) == checkout[o] \in {"new", "saved"}

CheckedOnce(o) ==
  /\ AtMostOne(PlacedCopies(o)) /\ AtMostOne(Checkers(o)) /\ AtMostOne(AllResults(o))
  /\ PlacedCopies(o) = {} \/ Checkers(o) = {}
  /\ AllResults(o) # {} \/ Unplaced(o) => PlacedCopies(o) = {} /\ Checkers(o) = {}
  /\ Unplaced(o) => AllResults(o) = {}

\* OrderService publishes from these steps, a release only from the first two.
Answering == {"apply", "release", "announce"}

AnsweredOnce(o) ==
  /\ AtMostOne(Releases(o)) /\ AtMostOne(AllStatuses(o))
  /\ Releases(o) \cup AllStatuses(o) # {} =>
       \E r \in AllResults(o) : r.mid \in seen[OrderSvc]
  /\ pc[OrderSvc] \in Answering /\ held[OrderSvc].order = o =>
       /\ AllStatuses(o) = {}
       /\ pc[OrderSvc] # "announce" => Releases(o) = {}

MailedOnce(o) ==
  /\ mails[o] \in 0..1
  /\ mails[o] # 0 => \E n \in AllStatuses(o) : n.mid \in seen[Notifier]
  /\ pc[Notifier] = "send" /\ held[Notifier].order = o => mails[o] = 0

\* A delivery in hand is marked in the store of its process.
Marked == \A s \in Services : Busy(s) => held[s].mid \in seen[s]

Calm == crashes = 0 /\ drops = 0

Once ==
  Calm => /\ stale = {}
          /\ \A o \in Orders : CheckedOnce(o) /\ AnsweredOnce(o) /\ MailedOnce(o)

\* Steps that bring a stage nothing new.
CatalogQuiet ==
  /\ \A m \in ready' : m \in ready \/ m.key # "order.placed"
  /\ log \subseteq log' /\ \A m \in log' : m \in log \/ m.key \notin ResultKeys
  /\ \A c \in Catalogs : pc'[c] \in Checking => pc[c] \in Checking /\ held'[c] = held[c]
  /\ \A o \in Orders : Unplaced(o)' => Unplaced(o)

OrderQuiet ==
  /\ log \subseteq log'
  /\ \A m \in log' : m \in log \/ m.key \notin {"inventory.release-requested", "order.status-changed"}
  /\ seen[OrderSvc] \subseteq seen'[OrderSvc]
  /\ pc'[OrderSvc] \in Answering =>
       pc'[OrderSvc] = pc[OrderSvc] /\ held'[OrderSvc] = held[OrderSvc]

MailQuiet ==
  /\ log \subseteq log' /\ mails' = mails
  /\ seen[Notifier] \subseteq seen'[Notifier]
  /\ pc'[Notifier] = "send" => pc[Notifier] = "send" /\ held'[Notifier] = held[Notifier]

LEMMA QuietKeepsChecked ==
  ASSUME CatalogQuiet, NEW o \in Orders, CheckedOnce(o)
  PROVE  CheckedOnce(o)'
<1>1. AllResults(o)' = AllResults(o)
  BY DEF CatalogQuiet, AllResults, Results
<1>2. PlacedCopies(o)' \subseteq PlacedCopies(o)
  BY DEF CatalogQuiet, PlacedCopies
<1>3. Checkers(o)' \subseteq Checkers(o)
  BY DEF CatalogQuiet, Checkers
<1>4. Unplaced(o)' => Unplaced(o)
  BY DEF CatalogQuiet
<1> QED
  BY <1>1, <1>2, <1>3, <1>4 DEF CheckedOnce, AtMostOne

\* What was published stays published.
LEMMA EventsStay ==
  ASSUME log \subseteq log', NEW o
  PROVE  /\ AllResults(o) \subseteq AllResults(o)'
         /\ AllStatuses(o) \subseteq AllStatuses(o)'
BY DEF AllResults, Results, AllStatuses, Statuses

LEMMA QuietKeepsAnswered ==
  ASSUME OrderQuiet, NEW o \in Orders, AnsweredOnce(o)
  PROVE  AnsweredOnce(o)'
<1>1. Releases(o)' = Releases(o) /\ AllStatuses(o)' = AllStatuses(o)
  BY DEF OrderQuiet, Releases, AllStatuses, Statuses
<1>2. AllResults(o) \subseteq AllResults(o)'
  BY EventsStay DEF OrderQuiet
<1>3. Releases(o)' \cup AllStatuses(o)' # {} =>
        \E r \in AllResults(o)' : r.mid \in seen'[OrderSvc]
  BY <1>1, <1>2 DEF AnsweredOnce, OrderQuiet
<1> QED
  BY <1>1, <1>3 DEF AnsweredOnce, OrderQuiet

LEMMA QuietKeepsMailed ==
  ASSUME MailQuiet, NEW o \in Orders, MailedOnce(o)
  PROVE  MailedOnce(o)'
<1>1. AllStatuses(o) \subseteq AllStatuses(o)'
  BY EventsStay DEF MailQuiet
<1> QED
  BY <1>1 DEF MailedOnce, MailQuiet

-----------------------------------------------------------------------------
(* A delivery in hand stays marked.                                        *)

\* Nobody takes a delivery, and no busy handler's marks are forgotten.
LEMMA UntakenKeepsMarked ==
  ASSUME Marked,
         \A t \in Services : Busy(t)' => Busy(t) /\ held'[t] = held[t] /\ seen[t] \subseteq seen'[t]
  PROVE  Marked'
BY DEF Marked

LEMMA TakeKeepsMarked ==
  ASSUME TypeOK, Marked, NEW s \in Services, NEW m \in ready, NEW first, Take(s, m, first)
  PROVE  Marked'
<1>1. held'[s] = m /\ seen'[s] = seen[s] \cup {m.mid}
  BY DEF Take, TypeOK, BusTypeOK
<1>2. \A t \in Services \ {s} : (Busy(t)' <=> Busy(t)) /\ held'[t] = held[t] /\ seen'[t] = seen[t]
  BY DEF Take, TypeOK, BusTypeOK, Busy
<1> QED
  BY <1>1, <1>2 DEF Marked

LEMMA NextKeepsMarked ==
  ASSUME TypeOK, Marked, [Next]_vars
  PROVE  Marked'
<1> USE DEF busVars, brokerVars, handlerVars, historyVars, boundVars, sagaVars
<1>0. OrderSvc \in Services /\ Notifier \in Services /\ Catalogs \subseteq Services
  BY DEF Services
<1>1. ASSUME NEW s \in Services, NEW m \in ready, NEW first, Take(s, m, first)
      PROVE  Marked'
  BY <1>1, TakeKeepsMarked
<1>2. ASSUME UNCHANGED <<pc, held, seen>>
      PROVE  Marked'
  BY <1>2, UntakenKeepsMarked DEF Busy
<1>3. ASSUME NEW s \in Services, pc[s] # "idle", NEW next, pc' = [pc EXCEPT ![s] = next],
             UNCHANGED <<held, seen>>
      PROVE  Marked'
  <2>1. \A t \in Services : Busy(t)' => Busy(t)
    BY <1>3 DEF Busy, TypeOK, BusTypeOK
  <2> QED
    BY <1>3, <2>1, UntakenKeepsMarked
<1>4. ASSUME NEW s \in Services, Idle(s), \A t \in Services \ {s} : seen'[t] = seen[t]
      PROVE  Marked'
  <2>1. ~Busy(s)' /\ \A t \in Services \ {s} : (Busy(t)' <=> Busy(t)) /\ held'[t] = held[t]
    BY <1>4 DEF Idle, Busy, TypeOK, BusTypeOK
  <2> QED
    BY <1>4, <2>1, UntakenKeepsMarked
<1>5. CASE UNCHANGED vars
  BY <1>2, <1>5 DEF vars
<1>6. CASE Checkout \/ \E g \in Gifts : AddGift(g) \/ DeleteGift(g)
  <2>1. UNCHANGED <<pc, held, seen>>
    BY <1>6 DEF Checkout, SaveOrder, PublishPlaced, PublishPlacedFails, ConfirmOverHttp,
                AddGift, DeleteGift
  <2> QED
    BY <1>2, <2>1
<1>7. ASSUME NEW c \in Catalogs, CatalogWork(c)
      PROVE  Marked'
  <2>1. CASE \E m \in ready : TakePlaced(c, m)
    BY <1>0, <1>1, <2>1 DEF TakePlaced
  <2>2. CASE \E m \in ready : ReleaseLogged(c, m)
    BY <1>2, <2>2 DEF ReleaseLogged
  <2>3. CASE \E g \in Gifts : CheckItem(c, g)
    <3>1. \E next : pc[c] # "idle" /\ pc' = [pc EXCEPT ![c] = next] /\ UNCHANGED <<held, seen>>
      BY <2>3 DEF CheckItem
    <3> QED
      BY <1>0, <1>3, <3>1
  <2>4. CASE Reply(c)
    <3>1. \E next : pc[c] # "idle" /\ pc' = [pc EXCEPT ![c] = next] /\ UNCHANGED <<held, seen>>
      BY <2>4 DEF Reply
    <3> QED
      BY <1>0, <1>3, <3>1
  <2> QED
    BY <1>7, <2>1, <2>2, <2>3, <2>4 DEF CatalogWork
<1>8. CASE OrderWork \/ NotifierWork
  <2>1. CASE \E m \in ready : TakeResult(m) \/ TakeStatus(m)
    BY <1>0, <1>1, <2>1 DEF TakeResult, TakeStatus
  <2>2. CASE ApplyResult \/ PublishRelease \/ PublishStatus
    <3>1. \E next : pc[OrderSvc] # "idle" /\ pc' = [pc EXCEPT ![OrderSvc] = next]
                    /\ UNCHANGED <<held, seen>>
      BY <2>2 DEF ApplyResult, PublishRelease, PublishStatus
    <3> QED
      BY <1>0, <1>3, <3>1
  <2>3. CASE SendMail
    <3>1. pc[Notifier] # "idle" /\ pc' = [pc EXCEPT ![Notifier] = "settle"]
          /\ UNCHANGED <<held, seen>>
      BY <2>3 DEF SendMail
    <3> QED
      BY <1>0, <1>3, <3>1
  <2> QED
    BY <1>8, <2>1, <2>2, <2>3 DEF OrderWork, NotifierWork
<1>9. ASSUME NEW s \in Services, SharedStep(s)
      PROVE  Marked'
  <2>1. CASE (\E m \in ready : SuppressDuplicate(s, m)) \/ Startup(s)
             \/ DropConnection(s)
    <3>1. UNCHANGED <<pc, held, seen>>
      BY <2>1 DEF SuppressDuplicate, Suppress, Startup, BootService, Boot, SubscribeService,
                  Subscribe, RecoverConnection, Reconnect, DropConnection, Drop
    <3> QED
      BY <1>2, <3>1
  <2>2. CASE Acknowledge(s) \/ DeadLetter(s) \/ AbandonStale(s) \/ CrashService(s)
    <3>1. Idle(s)
      BY <2>2 DEF Acknowledge, Ack, DeadLetter, Nack, AbandonStale, Abandon, CrashService, Crash
    <3>2. \A t \in Services \ {s} : seen'[t] = seen[t]
      BY <2>2 DEF Acknowledge, Ack, DeadLetter, Nack, AbandonStale, Abandon, CrashService, Crash,
                  TypeOK, BusTypeOK
    <3> QED
      BY <1>4, <3>1, <3>2
  <2>3. CASE AcknowledgeThrows(s) \/ HandlerThrows(s) \/ RepublishWithRetry(s)
    <3>1. \E next : pc[s] # "idle" /\ pc' = [pc EXCEPT ![s] = next] /\ UNCHANGED <<held, seen>>
      BY <2>3 DEF AcknowledgeThrows, AckThrows, HandlerThrows, Throw, ThrowingSteps,
                  RepublishWithRetry, Republish
    <3> QED
      BY <1>3, <3>1
  <2> QED
    BY <1>9, <2>1, <2>2, <2>3 DEF SharedStep, Protocol, Startup, Failure
<1> QED
  BY <1>5, <1>6, <1>7, <1>8, <1>9 DEF Next, SharedStep

-----------------------------------------------------------------------------
(* Which steps bring which stages nothing new.                             *)

\* Publishing puts its event, and nothing else, in the log and perhaps in a queue.
LEMMA SendBringsItsKey ==
  ASSUME NEW key, NEW o, NEW ok, Sent(key, o, ok)
  PROVE  /\ log \subseteq log'
         /\ \A m \in log' : m \in log \/ (m.key = key /\ m.order = o)
         /\ \A m \in ready' : m \in ready \/ (m.key = key /\ m.order = o)
<1>1. PICK m : m.key = key /\ m.order = o /\ log' = log \cup {m} /\ ready' \subseteq ready \cup {m}
  BY SendAddsOne
<1> QED
  BY <1>1

LEMMA RequestsAreQuiet ==
  ASSUME \/ \E o \in Orders : PublishPlacedFails(o) \/ ConfirmOverHttp(o)
                              \/ \E draft \in BOOLEAN : SaveOrder(o, draft)
         \/ \E g \in Gifts : AddGift(g) \/ DeleteGift(g)
         \/ UNCHANGED vars,
         TypeOK
  PROVE  CatalogQuiet /\ OrderQuiet /\ MailQuiet
<1> USE DEF vars, busVars, brokerVars, handlerVars, historyVars, boundVars, sagaVars, mailVars
<1>1. UNCHANGED <<ready, log, pc, held, seen, mails>>
  BY DEF PublishPlacedFails, ConfirmOverHttp, SaveOrder, AddGift, DeleteGift
<1>2. \A o \in Orders : Unplaced(o)' => Unplaced(o)
  <2>1. CASE UNCHANGED checkout
    BY <2>1 DEF Unplaced
  <2>2. ASSUME NEW p \in Orders, PublishPlacedFails(p) \/ \E draft \in BOOLEAN : SaveOrder(p, draft)
        PROVE  \A o \in Orders : Unplaced(o)' => Unplaced(o)
    BY <2>2 DEF PublishPlacedFails, SaveOrder, Unplaced, TypeOK
  <2> QED
    BY <2>1, <2>2 DEF ConfirmOverHttp, AddGift, DeleteGift
<1> QED
  BY <1>1, <1>2 DEF CatalogQuiet, OrderQuiet, MailQuiet

\* The publish of order.placed, and all that a catalog replica does, are nothing new to
\* OrderService's and NotificationService's handlers.
LEMMA CatalogIsElsewhere ==
  ASSUME TypeOK,
         \/ \E o \in Orders : PublishPlaced(o)
         \/ \E c \in Catalogs : CatalogWork(c)
  PROVE  OrderQuiet /\ MailQuiet
<1> USE DEF brokerVars, handlerVars, historyVars, boundVars, sagaVars, mailVars
<1>1. ASSUME NEW o \in Orders, PublishPlaced(o)
      PROVE  OrderQuiet /\ MailQuiet
  <2>1. \E ok : Sent("order.placed", o, ok)
    BY <1>1, PublishSends DEF PublishPlaced
  <2>2. log \subseteq log' /\ \A m \in log' : m \in log \/ m.key = "order.placed"
    BY <2>1, SendBringsItsKey
  <2> QED
    BY <1>1, <2>2 DEF PublishPlaced, OrderQuiet, MailQuiet
<1>2. ASSUME NEW c \in Catalogs, CatalogWork(c)
      PROVE  OrderQuiet /\ MailQuiet
  <2>1. log \subseteq log' /\ \A m \in log' : m \in log \/ m.key \in ResultKeys
    <3>1. CASE Reply(c)
      <4>1. \E key \in ResultKeys : \E o, ok : Sent(key, o, ok)
        BY <3>1 DEF Reply, ResultKeys, Sent
      <4> QED
        BY <4>1, SendBringsItsKey
    <3>2. CASE ~Reply(c)
      BY <1>2, <3>2 DEF CatalogWork, TakePlaced, Take, ReleaseLogged, CheckItem
    <3> QED
      BY <3>1, <3>2
  <2>2. c # OrderSvc /\ c # Notifier /\ c \in Services /\ OrderSvc \in Services /\ Notifier \in Services
    BY BusAssumption DEF Services
  <2>3. /\ \A s \in Services \ {c} : pc'[s] = pc[s] /\ held'[s] = held[s] /\ seen'[s] = seen[s]
        /\ mails' = mails
    <3>1. CASE \E m \in ready : TakePlaced(c, m) \/ ReleaseLogged(c, m)
      BY <3>1 DEF TakePlaced, Take, ReleaseLogged, TypeOK, BusTypeOK
    <3>2. CASE Reply(c) \/ \E g \in Gifts : CheckItem(c, g)
      <4>1. \E next : pc' = [pc EXCEPT ![c] = next]
        BY <3>2 DEF CheckItem, Reply
      <4>2. UNCHANGED <<held, seen, mails>>
        BY <3>2 DEF CheckItem, Reply
      <4> QED
        BY <4>1, <4>2 DEF TypeOK, BusTypeOK
    <3> QED
      BY <1>2, <3>1, <3>2 DEF CatalogWork
  <2> QED
    BY <2>1, <2>2, <2>3 DEF OrderQuiet, MailQuiet, ResultKeys
<1> QED
  BY <1>1, <1>2

\* What OrderService and NotificationService do with events is nothing new to the catalog.
LEMMA ConsumersAreElsewhere ==
  ASSUME TypeOK, OrderWork \/ NotifierWork
  PROVE  /\ CatalogQuiet
         /\ OrderWork => MailQuiet
         /\ NotifierWork => OrderQuiet
<1> USE DEF brokerVars, handlerVars, historyVars, boundVars, sagaVars, mailVars
<1>0. /\ OrderSvc \in Services /\ Notifier \in Services /\ OrderSvc # Notifier
      /\ Catalogs \subseteq Services \ {OrderSvc, Notifier}
  BY BusAssumption DEF Services
<1>1. CASE OrderWork
  <2>1. /\ log \subseteq log' /\ \A m \in log' : m \in log \/ m.key \notin ResultKeys
        /\ \A m \in ready' : m \in ready \/ m.key # "order.placed"
    <3>1. CASE PublishRelease \/ PublishStatus
      <4>1. \E key \in {"inventory.release-requested", "order.status-changed"} :
              \E o, ok : Sent(key, o, ok)
        BY <3>1, PublishSends DEF PublishRelease, PublishStatus
      <4>2. \E key \in {"inventory.release-requested", "order.status-changed"} :
              /\ log \subseteq log' /\ \A m \in log' : m \in log \/ m.key = key
              /\ \A m \in ready' : m \in ready \/ m.key = key
        BY <4>1, SendBringsItsKey
      <4> QED
        BY <4>2 DEF ResultKeys
    <3>2. CASE ~(PublishRelease \/ PublishStatus)
      BY <1>1, <3>2 DEF OrderWork, TakeResult, Take, ApplyResult
    <3> QED
      BY <3>1, <3>2
  <2>2. /\ \A s \in Services \ {OrderSvc} :
             pc'[s] = pc[s] /\ held'[s] = held[s] /\ seen'[s] = seen[s]
        /\ UNCHANGED <<checkout, mails>>
    BY <1>1 DEF OrderWork, TakeResult, Take, ApplyResult, PublishRelease, PublishStatus,
                TypeOK, BusTypeOK
  <2>3. CatalogQuiet
    BY <1>0, <2>1, <2>2 DEF CatalogQuiet, Unplaced
  <2>4. MailQuiet
    BY <1>0, <2>1, <2>2 DEF MailQuiet
  <2>5. NotifierWork => OrderQuiet
    <3>1. NotifierWork => log' = log /\ pc'[OrderSvc] = pc[OrderSvc]
                          /\ held'[OrderSvc] = held[OrderSvc] /\ seen'[OrderSvc] = seen[OrderSvc]
      BY <1>0 DEF NotifierWork, TakeStatus, Take, SendMail, TypeOK, BusTypeOK
    <3> QED
      BY <3>1 DEF OrderQuiet
  <2> QED
    BY <2>3, <2>4, <2>5
<1>2. CASE NotifierWork /\ ~OrderWork
  <2>1. /\ log' = log /\ ready' \subseteq ready /\ checkout' = checkout
        /\ \A s \in Services \ {Notifier} :
             pc'[s] = pc[s] /\ held'[s] = held[s] /\ seen'[s] = seen[s]
    BY <1>2 DEF NotifierWork, TakeStatus, Take, SendMail, TypeOK, BusTypeOK
  <2>2. CatalogQuiet
    BY <1>0, <2>1 DEF CatalogQuiet, Unplaced
  <2>3. OrderQuiet
    BY <1>0, <2>1 DEF OrderQuiet
  <2> QED
    BY <1>2, <2>2, <2>3
<1> QED
  BY <1>1, <1>2

\* Without crashes and lost connections the protocol brings nothing new to anyone but a
\* catalog replica's own retry to the catalog.
LEMMA SharedIsQuiet ==
  ASSUME TypeOK, stale = {}, NEW s \in Services, SharedStep(s),
         ~CrashService(s), ~DropConnection(s)
  PROVE  /\ OrderQuiet /\ MailQuiet /\ stale' = {}
         /\ CatalogQuiet \/ (s \in Catalogs /\ RepublishWithRetry(s))
<1> USE DEF brokerVars, handlerVars, historyVars, boundVars, sagaVars, mailVars
<1>0. OrderSvc \in Services /\ Notifier \in Services /\ Catalogs \subseteq Services
  BY DEF Services
<1>1. CASE (\E m \in ready : SuppressDuplicate(s, m)) \/ Startup(s)
  <2>1. ready' \subseteq ready /\ UNCHANGED <<log, pc, held, seen, mails, checkout, stale>>
    BY <1>1 DEF SuppressDuplicate, Suppress, Startup, BootService, Boot, SubscribeService,
                Subscribe, RecoverConnection, Reconnect
  <2> QED
    BY <2>1 DEF CatalogQuiet, OrderQuiet, MailQuiet, Unplaced
<1>2. CASE Acknowledge(s) \/ DeadLetter(s) \/ AbandonStale(s)
  <2>1. Idle(s) /\ UNCHANGED <<ready, log, seen, mails, checkout>>
    BY <1>2 DEF Acknowledge, Ack, DeadLetter, Nack, AbandonStale, Abandon
  <2>2. /\ pc'[s] = "idle" /\ stale' = {}
        /\ \A t \in Services \ {s} : pc'[t] = pc[t] /\ held'[t] = held[t]
    BY <2>1 DEF Idle, TypeOK, BusTypeOK
  <2> QED
    BY <1>0, <2>1, <2>2 DEF CatalogQuiet, OrderQuiet, MailQuiet, Unplaced, Checking, Answering
<1>3. CASE HandlerThrows(s)
  <2>1. /\ pc[s] \in ThrowingSteps(s) /\ pc' = [pc EXCEPT ![s] = "catch"]
        /\ UNCHANGED <<ready, log, held, seen, mails, checkout, stale>>
    BY <1>3 DEF HandlerThrows, Throw
  <2>2. s \in Catalogs => pc[s] \in Checking
    BY <2>1, BusAssumption DEF ThrowingSteps, Checking
  <2>3. pc'[s] = "catch" /\ \A t \in Services \ {s} : pc'[t] = pc[t]
    BY <2>1 DEF TypeOK, BusTypeOK
  <2> QED
    BY <1>0, <2>1, <2>2, <2>3 DEF CatalogQuiet, OrderQuiet, MailQuiet, Unplaced, Answering
<1>4. CASE RepublishWithRetry(s)
  <2>1. /\ pc'[s] = "nack" /\ \A t \in Services \ {s} : pc'[t] = pc[t]
        /\ UNCHANGED <<log, held, seen, mails, checkout, stale>>
    BY <1>4 DEF RepublishWithRetry, Republish, TypeOK, BusTypeOK
  <2>2. s \notin Catalogs => \A m \in ready' : m \in ready \/ m.key # "order.placed"
    <3>1. PICK h : h = held[s]
      OBVIOUS
    <3>2. h \in Message /\ ready' \subseteq ready \cup {[h EXCEPT !.tag = nextId, !.key = RetryKey(s), !.retry = @ + 1]}
      BY <1>4, <3>1, HeldIsMessage DEF RepublishWithRetry, Republish, TypeOK, Busy
    <3>3. [h EXCEPT !.tag = nextId, !.key = RetryKey(s), !.retry = @ + 1].key = RetryKey(s)
      BY <3>2 DEF Message
    <3>4. s \notin Catalogs => RetryKey(s) # "order.placed"
      BY DEF RetryKey, Services
    <3> QED
      BY <3>2, <3>3, <3>4
  <2>3. s \notin Catalogs => CatalogQuiet
    BY <1>0, <2>1, <2>2 DEF CatalogQuiet, Unplaced
  <2> QED
    BY <1>0, <1>4, <2>1, <2>3 DEF OrderQuiet, MailQuiet, Answering
<1>5. ~AcknowledgeThrows(s)
  BY DEF AcknowledgeThrows, AckThrows
<1> QED
  BY <1>1, <1>2, <1>3, <1>4, <1>5 DEF SharedStep, Protocol, Startup, Failure

-----------------------------------------------------------------------------
(* The stage of the catalog.                                               *)

\* Placing an order, of which nothing is under way yet, starts it with one copy.
LEMMA PlacingStartsOnce ==
  ASSUME TypeOK, NEW p \in Orders, PublishPlaced(p), NEW o \in Orders, CheckedOnce(o)
  PROVE  CheckedOnce(o)'
<1> USE DEF handlerVars
<1>1. \E ok : Sent("order.placed", p, ok)
  BY PublishSends DEF PublishPlaced
<1>2. PICK m : m.key = "order.placed" /\ m.order = p /\ log' = log \cup {m} /\ ready' \subseteq ready \cup {m}
  BY <1>1, SendAddsOne
<1>3. UNCHANGED <<pc, held>> /\ checkout' = [checkout EXCEPT ![p] = "done"] /\ checkout[p] = "saved"
  BY DEF PublishPlaced
<1>4. AllResults(o)' = AllResults(o)
  BY <1>2 DEF AllResults, Results, ResultKeys
<1>5. Checkers(o)' = Checkers(o)
  BY <1>3 DEF Checkers
<1>6. CASE o = p
  <2>1. PlacedCopies(o) = {} /\ Checkers(o) = {} /\ AllResults(o) = {}
    BY <1>3, <1>6 DEF CheckedOnce, Unplaced
  <2>2. PlacedCopies(o)' \subseteq {m}
    BY <1>2, <2>1 DEF PlacedCopies
  <2>3. ~Unplaced(o)'
    BY <1>3, <1>6 DEF Unplaced, TypeOK
  <2> QED
    BY <1>4, <1>5, <2>1, <2>2, <2>3 DEF CheckedOnce, AtMostOne
<1>7. CASE o # p
  <2>1. PlacedCopies(o)' \subseteq PlacedCopies(o)
    BY <1>2, <1>7 DEF PlacedCopies
  <2>2. Unplaced(o)' => Unplaced(o)
    BY <1>3, <1>7 DEF Unplaced, TypeOK
  <2> QED
    BY <1>4, <1>5, <2>1, <2>2 DEF CheckedOnce, AtMostOne
<1> QED
  BY <1>6, <1>7

\* A replica takes the only copy.
LEMMA TakingKeepsChecked ==
  ASSUME TypeOK, NEW c \in Catalogs, NEW m \in ready, TakePlaced(c, m),
         NEW o \in Orders, CheckedOnce(o)
  PROVE  CheckedOnce(o)'
<1> USE DEF historyVars
<1>1. m.key \in Keys /\ c \in Services /\ Queue[m.key] = "inventory.order-placed"
  BY QueuesOfServices DEF TypeOK, BusTypeOK, Message, Services, TakePlaced, Take, CanTake
<1>2. m.key = "order.placed"
  BY <1>1 DEF Queue, Keys
<1>3. /\ ready' = ready \ {m} /\ log' = log /\ checkout' = checkout
      /\ held'[c] = m /\ \A d \in Catalogs \ {c} : pc'[d] = pc[d] /\ held'[d] = held[d]
  BY <1>1 DEF TakePlaced, Take, TypeOK, BusTypeOK, Services
<1>4. AllResults(o)' = AllResults(o) /\ (Unplaced(o)' <=> Unplaced(o))
  BY <1>3 DEF AllResults, Results, Unplaced
<1>5. PlacedCopies(o)' = PlacedCopies(o) \ {m}
  BY <1>3 DEF PlacedCopies
<1>6. CASE m.order = o
  <2>1. m \in PlacedCopies(o)
    BY <1>2, <1>6 DEF PlacedCopies
  <2>2. PlacedCopies(o)' = {} /\ Checkers(o) = {}
    BY <1>5, <2>1 DEF CheckedOnce, AtMostOne
  <2>3. Checkers(o)' \subseteq {c}
    BY <1>3, <2>2 DEF Checkers
  <2> QED
    BY <1>4, <2>1, <2>2, <2>3 DEF CheckedOnce, AtMostOne
<1>7. CASE m.order # o
  <2>1. Checkers(o)' \subseteq Checkers(o)
    BY <1>3, <1>7 DEF Checkers
  <2> QED
    BY <1>4, <1>5, <2>1 DEF CheckedOnce, AtMostOne
<1> QED
  BY <1>6, <1>7

\* The one replica that still checks the order publishes its result and is past it.
LEMMA ReplyingKeepsChecked ==
  ASSUME TypeOK, NEW c \in Catalogs, Reply(c), NEW o \in Orders, CheckedOnce(o)
  PROVE  CheckedOnce(o)'
<1> USE DEF sagaVars
<1>1. PICK p : p = held[c].order
  OBVIOUS
<1>2. \E key \in ResultKeys : \E ok : Sent(key, p, ok)
  BY <1>1 DEF Reply, ResultKeys, Sent
<1>3. PICK m : m.key \in ResultKeys /\ m.order = p /\ log' = log \cup {m} /\ ready' \subseteq ready \cup {m}
  BY <1>2, SendAddsOne
<1>4. /\ pc'[c] = "settle" /\ \A d \in Catalogs \ {c} : pc'[d] = pc[d]
      /\ held' = held /\ checkout' = checkout
  BY DEF Reply, TypeOK, BusTypeOK, Services
<1>5. PlacedCopies(o)' \subseteq PlacedCopies(o) /\ Checkers(o)' \subseteq Checkers(o) \ {c}
  BY <1>3, <1>4 DEF PlacedCopies, Checkers, ResultKeys, Checking
<1>6. Unplaced(o)' <=> Unplaced(o)
  BY <1>4 DEF Unplaced
<1>7. CASE o = p
  <2>1. c \in Checkers(o)
    BY <1>1, <1>7 DEF Checkers, Checking, Reply
  <2>2. PlacedCopies(o)' = {} /\ Checkers(o)' = {} /\ AllResults(o) = {} /\ ~Unplaced(o)
    BY <1>5, <2>1 DEF CheckedOnce, AtMostOne
  <2>3. AllResults(o)' \subseteq {m}
    BY <1>3, <2>2 DEF AllResults, Results
  <2> QED
    BY <1>6, <2>2, <2>3 DEF CheckedOnce, AtMostOne
<1>8. CASE o # p
  <2>1. AllResults(o)' = AllResults(o)
    BY <1>3, <1>8 DEF AllResults, Results
  <2> QED
    BY <1>5, <1>6, <2>1 DEF CheckedOnce, AtMostOne
<1> QED
  BY <1>7, <1>8

\* A replica that failed puts its order back and is past it, too.
LEMMA RetryingKeepsChecked ==
  ASSUME TypeOK, NEW c \in Catalogs, RepublishWithRetry(c), NEW o \in Orders, CheckedOnce(o)
  PROVE  CheckedOnce(o)'
<1> USE DEF sagaVars, historyVars
<1>0. c \in Services
  BY DEF Services
<1>1. PICK h : h = held[c]
  OBVIOUS
<1>2. PICK m : m = [h EXCEPT !.tag = nextId, !.key = RetryKey(c), !.retry = @ + 1]
  OBVIOUS
<1>3. h \in Message /\ ready' \subseteq ready \cup {m}
  BY <1>0, <1>1, <1>2, HeldIsMessage DEF RepublishWithRetry, Republish, TypeOK, Busy
<1>4. m.order = h.order
  BY <1>2, <1>3 DEF Message
<1>5. /\ pc[c] = "catch" /\ pc'[c] = "nack" /\ \A d \in Catalogs \ {c} : pc'[d] = pc[d]
      /\ UNCHANGED <<log, held, checkout>>
  BY <1>0 DEF RepublishWithRetry, Republish, TypeOK, BusTypeOK, Services
<1>6. /\ Checkers(o)' \subseteq Checkers(o) \ {c}
      /\ AllResults(o)' = AllResults(o) /\ (Unplaced(o)' <=> Unplaced(o))
  BY <1>5 DEF Checkers, Checking, AllResults, Results, Unplaced
<1>7. CASE o = h.order
  <2>1. c \in Checkers(o)
    BY <1>1, <1>5, <1>7 DEF Checkers, Checking
  <2>2. Checkers(o)' = {} /\ PlacedCopies(o) = {} /\ AllResults(o) = {} /\ ~Unplaced(o)
    BY <1>6, <2>1 DEF CheckedOnce, AtMostOne
  <2>3. PlacedCopies(o)' \subseteq {m}
    BY <1>3, <2>2 DEF PlacedCopies
  <2> QED
    BY <1>6, <2>2, <2>3 DEF CheckedOnce, AtMostOne
<1>8. CASE o # h.order
  <2>1. PlacedCopies(o)' \subseteq PlacedCopies(o)
    BY <1>3, <1>4, <1>8 DEF PlacedCopies
  <2> QED
    BY <1>6, <2>1 DEF CheckedOnce, AtMostOne
<1> QED
  BY <1>7, <1>8

LEMMA CatalogKeepsChecked ==
  ASSUME TypeOK, NEW c \in Catalogs, CatalogWork(c), NEW o \in Orders, CheckedOnce(o)
  PROVE  CheckedOnce(o)'
<1> USE DEF sagaVars, historyVars, brokerVars, handlerVars
<1>1. CASE \E m \in ready : TakePlaced(c, m)
  BY <1>1, TakingKeepsChecked
<1>2. CASE Reply(c)
  BY <1>2, ReplyingKeepsChecked
<1>3. CASE \E m \in ready : ReleaseLogged(c, m)
  <2>1. ready' \subseteq ready /\ UNCHANGED <<log, pc, held, checkout>>
    BY <1>3 DEF ReleaseLogged
  <2>2. CatalogQuiet
    BY <2>1 DEF CatalogQuiet, Unplaced
  <2> QED
    BY <2>2, QuietKeepsChecked
<1>4. ASSUME NEW g \in Gifts, CheckItem(c, g)
      PROVE  CheckedOnce(o)'
  <2>1. UNCHANGED <<ready, log, held, checkout>> /\ pc[c] = "check" /\ \E next : pc' = [pc EXCEPT ![c] = next]
    BY <1>4 DEF CheckItem
  <2>2. \A d \in Catalogs \ {c} : pc'[d] = pc[d]
    BY <2>1 DEF TypeOK, BusTypeOK, Services
  <2>3. CatalogQuiet
    BY <2>1, <2>2 DEF CatalogQuiet, Unplaced, Checking
  <2> QED
    BY <2>3, QuietKeepsChecked
<1> QED
  BY <1>1, <1>2, <1>3, <1>4 DEF CatalogWork

-----------------------------------------------------------------------------
(* The stages of OrderService and of NotificationService.                  *)

\* The event behind a copy has the copy's MessageId, whatever key it came back under.
LEMMA EventBehind ==
  ASSUME TypeOK, NEW m, Published(m)
  PROVE  /\ Queue[m.key] \in Reads(OrderSvc) => \E r \in AllResults(m.order) : r.mid = m.mid
         /\ Queue[m.key] \in Reads(Notifier) => \E n \in AllStatuses(m.order) : n.mid = m.mid
<1>1. PICK n \in log : n.mid = m.mid /\ n.order = m.order /\ Queue[n.key] = Queue[m.key]
  BY DEF Published
<1>2. n.key \in Keys /\ n.success \in BOOLEAN
  BY DEF TypeOK, BusTypeOK, Message
<1>3. /\ Queue[n.key] = "orders.inventory-reserved.v2" => n.key \in ResultKeys
      /\ Queue[n.key] = "notifications.order-status" => n.key = "order.status-changed"
  BY <1>2, QueuesOfKeys
<1>4. Queue[m.key] \in Reads(OrderSvc) => n \in AllResults(m.order)
  BY <1>1, <1>2, <1>3, QueuesOfServices DEF AllResults, Results
<1>5. Queue[m.key] \in Reads(Notifier) => n \in AllStatuses(m.order)
  BY <1>1, <1>2, <1>3, QueuesOfServices DEF AllStatuses, Statuses
<1> QED
  BY <1>1, <1>4, <1>5

\* OrderService takes a result nothing was published for: had there been a release or a
\* status, the MessageId of the order's one result would be marked.
LEMMA TakingKeepsAnswered ==
  ASSUME TypeOK, Origins, NEW m \in ready, TakeResult(m),
         NEW o \in Orders, CheckedOnce(o), AnsweredOnce(o)
  PROVE  AnsweredOnce(o)'
<1> USE DEF historyVars
<1>1. /\ Queue[m.key] \in Reads(OrderSvc) /\ m.mid \notin seen[OrderSvc] /\ log' = log
      /\ pc'[OrderSvc] = "apply" /\ held'[OrderSvc] = m
      /\ seen'[OrderSvc] = seen[OrderSvc] \cup {m.mid}
  BY DEF TakeResult, Take, CanTake, TypeOK, BusTypeOK, Services
<1>2. \E r \in AllResults(m.order) : r.mid = m.mid
  BY <1>1, EventBehind DEF Origins
<1>3. m.order = o => Releases(o) \cup AllStatuses(o) = {}
  BY <1>1, <1>2 DEF CheckedOnce, AnsweredOnce, AtMostOne
<1>4. /\ Releases(o)' = Releases(o) /\ AllStatuses(o)' = AllStatuses(o)
      /\ AllResults(o)' = AllResults(o)
  BY <1>1 DEF Releases, AllStatuses, Statuses, AllResults, Results
<1> QED
  BY <1>1, <1>3, <1>4 DEF AnsweredOnce

\* A step of the handler by which it answers for the order in hand: it publishes m, of
\* another kind than results, and stands at the next step.
LEMMA AnsweringKeepsAnswered ==
  ASSUME TypeOK, Origins, Marked, pc[OrderSvc] \in Answering,
         NEW m, m.order = held[OrderSvc].order, m.key \notin ResultKeys, log' = log \cup {m},
         UNCHANGED <<held, seen>>,
         \/ /\ m.key = "inventory.release-requested"
            /\ pc[OrderSvc] # "announce" /\ pc'[OrderSvc] = "announce"
         \/ m.key = "order.status-changed" /\ pc'[OrderSvc] = "settle",
         NEW o \in Orders, AnsweredOnce(o)
  PROVE  AnsweredOnce(o)'
<1>1. AllResults(o)' = AllResults(o)
  BY DEF AllResults, Results
<1>2. CASE o # m.order
  <2>1. Releases(o)' = Releases(o) /\ AllStatuses(o)' = AllStatuses(o)
    BY <1>2 DEF Releases, AllStatuses, Statuses
  <2> QED
    BY <1>1, <1>2, <2>1 DEF AnsweredOnce
<1>3. CASE o = m.order
  <2>1. Busy(OrderSvc) /\ OrderSvc \in Services
    BY DEF Busy, Answering, Services
  <2>2. \E r \in AllResults(o) : r.mid \in seen[OrderSvc]
    BY <1>3, <2>1, EventBehind DEF Origins, Marked
  <2>3. AllStatuses(o) = {} /\ (pc[OrderSvc] # "announce" => Releases(o) = {})
    BY <1>3 DEF AnsweredOnce
  <2>4. CASE m.key = "inventory.release-requested"
    <3>1. Releases(o)' \subseteq {m} /\ AllStatuses(o)' = {}
      BY <2>3, <2>4 DEF Releases, AllStatuses, Statuses
    <3>2. pc'[OrderSvc] = "announce"
      BY <2>4
    <3> QED
      BY <1>1, <2>2, <3>1, <3>2 DEF AnsweredOnce, AtMostOne
  <2>5. CASE m.key = "order.status-changed"
    <3>1. Releases(o)' = Releases(o) /\ AllStatuses(o)' \subseteq {m}
      BY <2>3, <2>5 DEF Releases, AllStatuses, Statuses
    <3>2. pc'[OrderSvc] \notin Answering
      BY <2>5 DEF Answering
    <3> QED
      BY <1>1, <2>2, <3>1, <3>2 DEF AnsweredOnce, AtMostOne
  <2> QED
    BY <2>4, <2>5
<1> QED
  BY <1>2, <1>3

LEMMA OrderKeepsAnswered ==
  ASSUME TypeOK, Origins, Marked, OrderWork, NEW o \in Orders, CheckedOnce(o), AnsweredOnce(o)
  PROVE  AnsweredOnce(o)'
<1> USE DEF sagaVars, historyVars, brokerVars, handlerVars
<1>0. OrderSvc \in Services
  BY DEF Services
<1>1. CASE \E m \in ready : TakeResult(m)
  BY <1>1, TakingKeepsAnswered
<1>2. CASE ApplyResult
  <2>1. /\ UNCHANGED <<log, held, seen>> /\ pc[OrderSvc] = "apply"
        /\ pc'[OrderSvc] \in {"release", "announce"}
    BY <1>0, <1>2 DEF ApplyResult, TypeOK, BusTypeOK
  <2>2. /\ Releases(o)' = Releases(o) /\ AllStatuses(o)' = AllStatuses(o)
        /\ AllResults(o)' = AllResults(o)
    BY <2>1 DEF Releases, AllStatuses, Statuses, AllResults, Results
  <2> QED
    BY <2>1, <2>2 DEF AnsweredOnce, Answering
<1>3. CASE PublishRelease
  <2>1. PICK p : p = held[OrderSvc].order
    OBVIOUS
  <2>2. \E key, ok : key = "inventory.release-requested" /\ Sent(key, p, ok)
    BY <1>3, <2>1, PublishSends DEF PublishRelease
  <2>3. PICK m : m.key = "inventory.release-requested" /\ m.order = p /\ log' = log \cup {m}
    BY <2>2, SendLogs
  <2>4. /\ UNCHANGED <<held, seen>> /\ pc[OrderSvc] = "release" /\ pc'[OrderSvc] = "announce"
    BY <1>0, <1>3 DEF PublishRelease, TypeOK, BusTypeOK
  <2>5. m.key \notin ResultKeys /\ pc[OrderSvc] \in Answering
    BY <2>3, <2>4 DEF ResultKeys, Answering
  <2> QED
    BY <2>1, <2>3, <2>4, <2>5, AnsweringKeepsAnswered
<1>4. CASE PublishStatus
  <2>1. PICK p, ok : p = held[OrderSvc].order /\ ok = Verdict(held[OrderSvc])
    OBVIOUS
  <2>2. \E key : key = "order.status-changed" /\ Sent(key, p, ok)
    BY <1>4, <2>1, PublishSends DEF PublishStatus
  <2>3. PICK m : m.key = "order.status-changed" /\ m.order = p /\ log' = log \cup {m}
    BY <2>2, SendLogs
  <2>4. /\ UNCHANGED <<held, seen>> /\ pc[OrderSvc] = "announce" /\ pc'[OrderSvc] = "settle"
    BY <1>0, <1>4 DEF PublishStatus, TypeOK, BusTypeOK
  <2>5. m.key \notin ResultKeys /\ pc[OrderSvc] \in Answering
    BY <2>3, <2>4 DEF ResultKeys, Answering
  <2> QED
    BY <2>1, <2>3, <2>4, <2>5, AnsweringKeepsAnswered
<1> QED
  BY <1>1, <1>2, <1>3, <1>4 DEF OrderWork

LEMMA NotifierKeepsMailed ==
  ASSUME TypeOK, Origins, Marked, NotifierWork, NEW o \in Orders, AnsweredOnce(o), MailedOnce(o)
  PROVE  MailedOnce(o)'
<1> USE DEF sagaVars, historyVars, mailVars
<1>0. Notifier \in Services
  BY DEF Services
<1>1. ASSUME NEW m \in ready, TakeStatus(m)
      PROVE  MailedOnce(o)'
  <2>1. /\ Queue[m.key] \in Reads(Notifier) /\ m.mid \notin seen[Notifier]
        /\ log' = log /\ mails' = mails /\ held'[Notifier] = m
        /\ seen'[Notifier] = seen[Notifier] \cup {m.mid}
    BY <1>0, <1>1 DEF TakeStatus, Take, CanTake, TypeOK, BusTypeOK
  <2>2. \E n \in AllStatuses(m.order) : n.mid = m.mid
    BY <2>1, EventBehind DEF Origins
  <2>3. m.order = o => mails[o] = 0
    BY <2>1, <2>2 DEF AnsweredOnce, MailedOnce, AtMostOne
  <2>4. AllStatuses(o)' = AllStatuses(o)
    BY <2>1 DEF AllStatuses, Statuses
  <2> QED
    BY <2>1, <2>3, <2>4 DEF MailedOnce
<1>2. CASE SendMail
  <2>1. /\ UNCHANGED <<log, held, seen>> /\ pc[Notifier] = "send" /\ pc'[Notifier] = "settle"
    BY <1>0, <1>2 DEF SendMail, TypeOK, BusTypeOK
  <2>2. PICK p : p = held[Notifier].order
    OBVIOUS
  <2>3. mails' \in {mails, [mails EXCEPT ![p] = @ + 1]}
    BY <1>2, <2>2 DEF SendMail
  <2>4. AllStatuses(o)' = AllStatuses(o)
    BY <2>1 DEF AllStatuses, Statuses
  <2>5. CASE mails'[o] = mails[o]
    BY <2>1, <2>4, <2>5 DEF MailedOnce
  <2>6. CASE mails'[o] # mails[o]
    <3>1. p = o /\ mails'[o] = mails[o] + 1
      BY <2>3, <2>6 DEF TypeOK
    <3>2. mails[o] = 0
      BY <2>1, <2>2, <3>1 DEF MailedOnce
    <3>3. \E n \in AllStatuses(o) : n.mid \in seen[Notifier]
      BY <1>0, <2>1, <2>2, <3>1, EventBehind DEF Origins, Marked, Busy
    <3> QED
      BY <2>1, <2>4, <3>1, <3>2, <3>3 DEF MailedOnce
  <2> QED
    BY <2>5, <2>6
<1> QED
  BY <1>1, <1>2 DEF NotifierWork

-----------------------------------------------------------------------------
(* The theorem.                                                            *)

\* A calm step is neither a crash nor a lost connection, and calm it was before.
LEMMA CalmBefore ==
  ASSUME TypeOK, [Next]_vars, Calm'
  PROVE  Calm /\ \A s \in Services : ~CrashService(s) /\ ~DropConnection(s)
<1> USE DEF busVars, brokerVars, handlerVars, historyVars, boundVars, sagaVars, mailVars
<1>1. crashes \in Nat /\ drops \in Nat
  BY DEF TypeOK, BusTypeOK
<1>2. \A s \in Services : ~CrashService(s) /\ ~DropConnection(s)
  BY <1>1 DEF Calm, CrashService, Crash, DropConnection, Drop
<1>0. ASSUME NEW key, NEW o, NEW ok, Publish(key, o, ok)
      PROVE  UNCHANGED <<crashes, drops>>
  BY <1>0, <1>1, PublishSends DEF Calm
<1>3. UNCHANGED <<crashes, drops>>
  <2>1. CASE UNCHANGED vars
    BY <2>1 DEF vars
  <2>2. CASE Checkout \/ \E g \in Gifts : AddGift(g) \/ DeleteGift(g)
    BY <1>0, <2>2 DEF Checkout, SaveOrder, PublishPlaced, PublishPlacedFails, ConfirmOverHttp,
                      AddGift, DeleteGift
  <2>3. ASSUME NEW c \in Catalogs, CatalogWork(c)
        PROVE  UNCHANGED <<crashes, drops>>
    BY <2>3 DEF CatalogWork, TakePlaced, Take, ReleaseLogged, CheckItem, Reply
  <2>4. CASE OrderWork \/ NotifierWork
    BY <1>0, <2>4 DEF OrderWork, TakeResult, Take, ApplyResult, PublishRelease, PublishStatus,
                      NotifierWork, TakeStatus, SendMail
  <2>5. ASSUME NEW s \in Services, SharedStep(s)
        PROVE  UNCHANGED <<crashes, drops>>
    BY <1>2, <2>5
    DEF SharedStep, Protocol, Startup, Failure, SuppressDuplicate, Suppress, Acknowledge, Ack,
        AcknowledgeThrows, AckThrows, RepublishWithRetry, Republish, DeadLetter, Nack,
        AbandonStale, Abandon, BootService, Boot, SubscribeService, Subscribe, RecoverConnection,
        Reconnect, HandlerThrows, Throw
  <2> QED
    BY <2>1, <2>2, <2>3, <2>4, <2>5 DEF Next, SharedStep
<1> QED
  BY <1>2, <1>3 DEF Calm

LEMMA NextKeepsOnce ==
  ASSUME TypeOK, Origins, Marked, Once, [Next]_vars
  PROVE  Once'
<1> SUFFICES ASSUME Calm'
             PROVE  /\ stale' = {}
                    /\ \A o \in Orders : CheckedOnce(o)' /\ AnsweredOnce(o)' /\ MailedOnce(o)'
  BY DEF Once
<1>0. /\ stale = {} /\ \A s \in Services : ~CrashService(s) /\ ~DropConnection(s)
      /\ \A o \in Orders : CheckedOnce(o) /\ AnsweredOnce(o) /\ MailedOnce(o)
  BY CalmBefore DEF Once
<1> USE DEF busVars, brokerVars, handlerVars, historyVars, boundVars, sagaVars, mailVars
<1>1. CASE \/ \E o \in Orders : PublishPlacedFails(o) \/ ConfirmOverHttp(o)
                                 \/ \E draft \in BOOLEAN : SaveOrder(o, draft)
           \/ \E g \in Gifts : AddGift(g) \/ DeleteGift(g)
           \/ UNCHANGED vars
  <2>1. stale' = stale
    BY <1>1 DEF PublishPlacedFails, ConfirmOverHttp, SaveOrder, AddGift, DeleteGift, vars
  <2>2. CatalogQuiet /\ OrderQuiet /\ MailQuiet
    BY <1>1, RequestsAreQuiet
  <2> QED
    BY <1>0, <2>1, <2>2, QuietKeepsChecked, QuietKeepsAnswered, QuietKeepsMailed
<1>2. CASE \E p \in Orders : PublishPlaced(p)
  <2>1. stale' = stale
    BY <1>2 DEF PublishPlaced
  <2>2. OrderQuiet /\ MailQuiet
    BY <1>2, CatalogIsElsewhere
  <2> QED
    BY <1>0, <1>2, <2>1, <2>2, PlacingStartsOnce, QuietKeepsAnswered, QuietKeepsMailed
<1>3. ASSUME NEW c \in Catalogs, CatalogWork(c)
      PROVE  /\ stale' = {}
             /\ \A o \in Orders : CheckedOnce(o)' /\ AnsweredOnce(o)' /\ MailedOnce(o)'
  <2>1. stale' = stale
    BY <1>3 DEF CatalogWork, TakePlaced, Take, ReleaseLogged, CheckItem, Reply
  <2>2. OrderQuiet /\ MailQuiet
    BY <1>3, CatalogIsElsewhere
  <2> QED
    BY <1>0, <1>3, <2>1, <2>2, CatalogKeepsChecked, QuietKeepsAnswered, QuietKeepsMailed
<1>4. CASE OrderWork
  <2>1. stale' = stale
    BY <1>4 DEF OrderWork, TakeResult, Take, ApplyResult, PublishRelease, PublishStatus
  <2>2. CatalogQuiet /\ MailQuiet
    BY <1>4, ConsumersAreElsewhere
  <2> QED
    BY <1>0, <1>4, <2>1, <2>2, QuietKeepsChecked, OrderKeepsAnswered, QuietKeepsMailed
<1>5. CASE NotifierWork
  <2>1. stale' = stale
    BY <1>5 DEF NotifierWork, TakeStatus, Take, SendMail
  <2>2. CatalogQuiet /\ OrderQuiet
    BY <1>5, ConsumersAreElsewhere
  <2> QED
    BY <1>0, <1>5, <2>1, <2>2, QuietKeepsChecked, QuietKeepsAnswered, NotifierKeepsMailed
<1>6. ASSUME NEW s \in Services, SharedStep(s)
      PROVE  /\ stale' = {}
             /\ \A o \in Orders : CheckedOnce(o)' /\ AnsweredOnce(o)' /\ MailedOnce(o)'
  <2>1. /\ OrderQuiet /\ MailQuiet /\ stale' = {}
        /\ CatalogQuiet \/ (s \in Catalogs /\ RepublishWithRetry(s))
    BY <1>0, <1>6, SharedIsQuiet
  <2>2. \A o \in Orders : CheckedOnce(o)'
    BY <1>0, <2>1, QuietKeepsChecked, RetryingKeepsChecked
  <2> QED
    BY <1>0, <2>1, <2>2, QuietKeepsAnswered, QuietKeepsMailed
<1> QED
  BY <1>1, <1>2, <1>3, <1>4, <1>5, <1>6, SagaAssumption DEF Next, Checkout, SharedStep

\* As long as no process crashes and no connection is lost, an order has at most one
\* result, one release request, one status and one e-mail, however often handlers throw,
\* deliveries are retried and replicas compete for the copies.
THEOREM RetriesAreHarmless == Spec => []RetriesDuplicateNothing
<1>1. Init => Decided /\ Marked /\ Once
  <2> SUFFICES ASSUME Init PROVE Decided /\ Marked /\ Once
    OBVIOUS
  <2>1. Marked
    BY DEF Init, Marked, Busy
  <2>2. ASSUME NEW o \in Orders
        PROVE  CheckedOnce(o) /\ AnsweredOnce(o) /\ MailedOnce(o)
    <3>1. /\ PlacedCopies(o) = {} /\ AllResults(o) = {} /\ AllStatuses(o) = {} /\ Releases(o) = {}
      BY DEF Init, PlacedCopies, AllResults, Results, AllStatuses, Statuses, Releases
    <3>2. pc[OrderSvc] = "idle" /\ pc[Notifier] = "idle" /\ \A c \in Catalogs : pc[c] = "idle"
      BY DEF Init, Services
    <3>3. Checkers(o) = {} /\ mails[o] = 0
      BY <3>2 DEF Init, Checkers, Checking
    <3> QED
      BY <3>1, <3>2, <3>3 DEF CheckedOnce, AnsweredOnce, MailedOnce, AtMostOne, Answering
  <2>3. Once
    BY <2>2 DEF Init, Once
  <2> QED
    BY <2>1, <2>3, InitDecided
<1>2. Decided /\ Marked /\ Once /\ [Next]_vars => (Decided /\ Marked /\ Once)'
  BY NextDecided, NextKeepsMarked, NextKeepsOnce DEF Decided
<1>3. Decided /\ Marked /\ Once => RetriesDuplicateNothing
  <2> SUFFICES ASSUME TypeOK, Once, Calm, NEW o \in Orders
               PROVE  /\ AtMostOne(Results(o, TRUE) \cup Results(o, FALSE))
                      /\ AtMostOne(Releases(o))
                      /\ AtMostOne(Statuses(o, TRUE) \cup Statuses(o, FALSE))
                      /\ mails[o] <= 1
    BY DEF Decided, RetriesDuplicateNothing, Calm
  <2>1. CheckedOnce(o) /\ AnsweredOnce(o) /\ MailedOnce(o)
    BY DEF Once
  <2>2. mails[o] <= 1
    BY <2>1 DEF MailedOnce
  <2> QED
    BY <2>1, <2>2 DEF CheckedOnce, AnsweredOnce, AllResults, AllStatuses
<1> QED
  BY <1>1, <1>2, <1>3, PTL DEF Spec
=============================================================================
