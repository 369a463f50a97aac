----------------------------- MODULE OrderSaga -----------------------------
(***************************************************************************)
(* The checkout saga: OrderService stores an order and publishes           *)
(* order.placed; a CatalogService replica looks every gift up and          *)
(* publishes inventory.reserved or inventory.rejected; OrderService        *)
(* confirms or cancels the order and publishes order.status-changed;       *)
(* NotificationService e-mails the customer.  The broker and the consumer  *)
(* protocol come from EventBus.                                            *)
(***************************************************************************)
EXTENDS EventBus

CONSTANTS
  Gifts,      \* gift ids
  ItemsOf,    \* the gifts each order asks for
  WarmStart,  \* TRUE: every service is up and every queue declared initially
  DraftChoices, \* bound: the values of isDraft the clients send
  ManualOrders  \* bound: the orders somebody may confirm over HTTP

ASSUME SagaAssumption ==
  /\ ItemsOf \in [Orders -> SUBSET Gifts]
  /\ \A o \in Orders : ItemsOf[o] # {}    \* checkout refuses an empty basket
  /\ WarmStart \in BOOLEAN
  /\ DraftChoices \subseteq BOOLEAN
  /\ ManualOrders \subseteq Orders

VARIABLES
  row,        \* OrderService's row: "absent", "draft" (IsDraft) or "final"
  checkout,   \* PlaceOrderAsync of each order: "new", "saved", "done" or "failed"
  gift,       \* CatalogService's gift: "absent", "live" or "deleted" (IsDeleted)
  unchecked,  \* gifts a catalog handler has still to look up
  chosenFinal, \* history: orders whose client asked for isDraft = false
  manual,     \* history: orders confirmed over HTTP
  mails,      \* history: e-mails the SMTP server accepted for each order
  bounced     \* history: orders with an e-mail the SMTP server refused

mailVars == <<mails, bounced>>
sagaVars == <<row, checkout, gift, unchecked, chosenFinal, manual, mailVars>>
vars == <<busVars, sagaVars>>

ResultKeys == {"inventory.reserved", "inventory.rejected"}

-----------------------------------------------------------------------------
Init ==
  /\ ready = {} /\ dead = {} /\ nextId = 1
  /\ bound = IF WarmStart THEN Queues ELSE {}
  /\ host = [s \in Services |-> IF WarmStart THEN "up" ELSE "down"]
  /\ seen = [s \in Services |-> {}]
  /\ pc = [s \in Services |-> "idle"]
  /\ held = [s \in Services |-> NoMsg]
  /\ stale = {} /\ cut = {}
  /\ log = {} /\ done = {} /\ unrouted = {} /\ abandoned = {} /\ lost = {}
  /\ faults = 0 /\ crashes = 0 /\ drops = 0
  /\ row = [o \in Orders |-> "absent"]
  /\ checkout = [o \in Orders |-> "new"]
  /\ gift \in [Gifts -> {"absent", "live"}]
  /\ unchecked = [c \in Catalogs |-> {}]
  /\ chosenFinal = {} /\ manual = {} /\ bounced = {}
  /\ mails = [o \in Orders |-> 0]

-----------------------------------------------------------------------------
(* OrderService over HTTP.                                                 *)

\* PlaceOrderAsync up to the commit: the client chooses IsDraft.
SaveOrder(o, draft) ==
  /\ host[OrderSvc] # "down"
  /\ checkout[o] = "new"
  /\ checkout' = [checkout EXCEPT ![o] = "saved"]
  /\ row' = [row EXCEPT ![o] = IF draft THEN "draft" ELSE "final"]
  /\ chosenFinal' = IF draft THEN chosenFinal ELSE chosenFinal \cup {o}
  /\ UNCHANGED <<busVars, gift, unchecked, manual, mailVars>>

\* The rest of PlaceOrderAsync: publish order.placed, answer 200.
PublishPlaced(o) ==
  /\ checkout[o] = "saved"
  /\ Publish("order.placed", o, FALSE)
  /\ checkout' = [checkout EXCEPT ![o] = "done"]
  /\ UNCHANGED <<host, seen, handlerVars>>
  /\ UNCHANGED <<row, gift, unchecked, chosenFinal, manual, mailVars>>

\* The publish throws after the commit; the controller answers 500 and the row stays.
PublishPlacedFails(o) ==
  /\ checkout[o] = "saved"
  /\ faults < MaxFaults
  /\ faults' = faults + 1
  /\ checkout' = [checkout EXCEPT ![o] = "failed"]
  /\ UNCHANGED <<brokerVars, host, seen, handlerVars, historyVars, crashes, drops>>
  /\ UNCHANGED <<row, gift, unchecked, chosenFinal, manual, mailVars>>

\* POST confirm/{orderId}: any signed-in user, any order, no look at the saga.
ConfirmOverHttp(o) ==
  /\ host[OrderSvc] # "down"
  /\ row[o] # "absent"
  /\ o \in ManualOrders \ manual
  /\ row' = [row EXCEPT ![o] = "final"]
  /\ manual' = manual \cup {o}
  /\ UNCHANGED <<busVars, checkout, gift, unchecked, chosenFinal, mailVars>>

-----------------------------------------------------------------------------
(* CatalogService: InventoryReservationConsumer and the managers' API.     *)

AddGift(g) ==
  /\ gift[g] = "absent"
  /\ gift' = [gift EXCEPT ![g] = "live"]
  /\ UNCHANGED <<busVars, row, checkout, unchecked, chosenFinal, manual, mailVars>>

DeleteGift(g) ==
  /\ gift[g] = "live"
  /\ gift' = [gift EXCEPT ![g] = "deleted"]
  /\ UNCHANGED <<busVars, row, checkout, unchecked, chosenFinal, manual, mailVars>>

TakePlaced(c, m) ==
  /\ Take(c, m, "check")
  /\ unchecked' = [unchecked EXCEPT ![c] = ItemsOf[m.order]]
  /\ UNCHANGED <<row, checkout, gift, chosenFinal, manual, mailVars>>

\* One GetByIdAsync of the foreach; the first gift that is missing ends the loop
\* and stays unchecked.
CheckItem(c, g) ==
  /\ pc[c] = "check"
  /\ g \in unchecked[c]
  /\ IF gift[g] = "live"
       THEN /\ unchecked' = [unchecked EXCEPT ![c] = @ \ {g}]
            /\ pc' = [pc EXCEPT ![c] = IF unchecked[c] = {g} THEN "reply" ELSE "check"]
       ELSE /\ pc' = [pc EXCEPT ![c] = "reply"]
            /\ UNCHANGED unchecked
  /\ UNCHANGED <<brokerVars, host, seen, held, stale, cut, historyVars, boundVars>>
  /\ UNCHANGED <<row, checkout, gift, chosenFinal, manual, mailVars>>

NeverChecks(c) == TRUE    \* mutant: the lookups decide nothing
OneIsEnough(c) == unchecked[c] # ItemsOf[held[c].order]    \* mutant: some gift is available
AllAvailable(c) == unchecked[c] = {}

\* Publish the result as a new event with a MessageId of its own, on the consumer's
\* channel.  Nothing is reserved or decremented, and quantities are not looked at.
Reply(c) ==
  /\ pc[c] = "reply"
  /\ IF AllAvailable(c)
       THEN Send("inventory.reserved", held[c].order, TRUE, c \notin cut)
       ELSE Send("inventory.rejected", held[c].order, FALSE, c \notin cut)
  /\ pc' = [pc EXCEPT ![c] = "settle"]
  /\ UNCHANGED <<host, seen, held, stale, cut, boundVars, sagaVars>>

\* The release consumer logs the request and acknowledges it.
ReleaseLogged(c, m) ==
  /\ host[c] = "up" /\ c \notin cut
  /\ ~Busy(c) \/ c \in stale    \* one channel, one delivery at a time
  /\ m \in ready
  /\ m.key = "inventory.release-requested"
  /\ ready' = ready \ {m}
  /\ done' = done \cup {m.mid}
  /\ UNCHANGED <<dead, bound, nextId, host, seen, handlerVars, log, unrouted, abandoned, lost>>
  /\ UNCHANGED <<boundVars, sagaVars>>

-----------------------------------------------------------------------------
(* OrderService: InventoryReservedConsumer.                                *)

\* mutant: the status goes out before the order is updated
AnnounceFirst(m) == Take(OrderSvc, m, "announce") /\ UNCHANGED sagaVars
TakeResult(m) ==
  /\ Take(OrderSvc, m, "apply")
  /\ UNCHANGED sagaVars

CancelIsNoOp(m) == IF m.success THEN "final" ELSE row[m.order]   \* mutant
RejectionConfirms(m) == "final"                                  \* mutant

\* ConfirmOrderAsync or CancelOrderAsync, by the Success of the body and not by
\* the routing key.  Canceling is setting IsDraft back.  A row is never deleted.
RowAfter(m) == IF m.success THEN "final" ELSE "draft"

ApplyResult ==
  /\ pc[OrderSvc] = "apply"
  /\ LET m == held[OrderSvc]
     IN  /\ row' = [row EXCEPT ![m.order] = RowAfter(m)]
         /\ pc' = [pc EXCEPT ![OrderSvc] = IF m.success THEN "announce" ELSE "release"]
  /\ UNCHANGED <<brokerVars, host, seen, held, stale, cut, historyVars, boundVars>>
  /\ UNCHANGED <<checkout, gift, unchecked, chosenFinal, manual, mailVars>>

PublishRelease ==
  /\ pc[OrderSvc] = "release"
  /\ Publish("inventory.release-requested", held[OrderSvc].order, FALSE)
  /\ pc' = [pc EXCEPT ![OrderSvc] = "announce"]
  /\ UNCHANGED <<host, seen, held, stale, cut, sagaVars>>

KeyDecides(m) == m.key = "inventory.reserved"    \* mutant: trust the routing key
Verdict(m) == m.success

PublishStatus ==
  /\ pc[OrderSvc] = "announce"
  /\ Publish("order.status-changed", held[OrderSvc].order, Verdict(held[OrderSvc]))
  /\ pc' = [pc EXCEPT ![OrderSvc] = "settle"]
  /\ UNCHANGED <<host, seen, held, stale, cut, sagaVars>>

-----------------------------------------------------------------------------
(* NotificationService: OrderStatusChangedConsumer.                        *)

TakeStatus(m) ==
  /\ Take(Notifier, m, "send")
  /\ UNCHANGED sagaVars

\* SendAsync mails the one template there is, a raffle winner's, whatever the status;
\* it swallows an SMTP failure, and its result is not looked at.
SendMail ==
  /\ pc[Notifier] = "send"
  /\ LET o == held[Notifier].order
     IN  \/ /\ mails' = [mails EXCEPT ![o] = @ + 1]
            /\ UNCHANGED <<bounced, boundVars>>
         \/ /\ faults < MaxFaults
            /\ faults' = faults + 1
            /\ bounced' = bounced \cup {o}
            /\ UNCHANGED <<mails, crashes, drops>>
  /\ pc' = [pc EXCEPT ![Notifier] = "settle"]
  /\ UNCHANGED <<brokerVars, host, seen, held, stale, cut, historyVars>>
  /\ UNCHANGED <<row, checkout, gift, unchecked, chosenFinal, manual>>

-----------------------------------------------------------------------------
(* What every service may do with the delivery in hand, and what happens   *)
(* to processes and connections.                                           *)

\* mutant: a call after the publish throws too
ThrowsAfterPublish(s) ==
  CASE s = OrderSvc -> {"apply", "release", "announce", "settle"}
    [] s = Notifier -> {}
    [] OTHER        -> {"check", "reply", "settle"}

\* The steps at which the try block of a service calls something that can throw
\* before it takes effect.  SendAsync cannot.
ThrowingSteps(s) ==
  CASE s = OrderSvc -> {"apply", "release", "announce"}
    [] s = Notifier -> {}
    [] OTHER        -> {"check", "reply"}

SuppressDuplicate(s, m) == Suppress(s, m) /\ UNCHANGED sagaVars
Acknowledge(s)          == Ack(s) /\ UNCHANGED sagaVars
AcknowledgeThrows(s)    == AckThrows(s) /\ UNCHANGED sagaVars
HandlerThrows(s)        == Throw(s, ThrowingSteps(s)) /\ UNCHANGED sagaVars
RepublishWithRetry(s)   == Republish(s) /\ UNCHANGED sagaVars
DeadLetter(s)           == Nack(s) /\ UNCHANGED sagaVars
AbandonStale(s)         == Abandon(s) /\ UNCHANGED sagaVars
BootService(s)          == Boot(s) /\ UNCHANGED sagaVars
SubscribeService(s)     == Subscribe(s) /\ UNCHANGED sagaVars
DropConnection(s)       == Drop(s) /\ UNCHANGED sagaVars
RecoverConnection(s)    == Reconnect(s) /\ UNCHANGED sagaVars

\* A checkout between its commit and its publish dies with OrderService.
CrashService(s) ==
  /\ Crash(s)
  /\ checkout' = IF s = OrderSvc
                   THEN [o \in Orders |-> IF checkout[o] = "saved" THEN "failed" ELSE checkout[o]]
                   ELSE checkout
  /\ UNCHANGED <<row, gift, unchecked, chosenFinal, manual, mailVars>>

-----------------------------------------------------------------------------
Checkout == \E o \in Orders :
  \/ \E draft \in DraftChoices : SaveOrder(o, draft)
  \/ PublishPlaced(o)
  \/ PublishPlacedFails(o)
  \/ ConfirmOverHttp(o)

CatalogWork(c) ==
  \/ \E m \in ready : TakePlaced(c, m)
  \/ \E m \in ready : ReleaseLogged(c, m)
  \/ \E g \in Gifts : CheckItem(c, g)
  \/ Reply(c)

OrderWork ==
  \/ \E m \in ready : TakeResult(m)
  \/ ApplyResult
  \/ PublishRelease
  \/ PublishStatus

NotifierWork ==
  \/ \E m \in ready : TakeStatus(m)
  \/ SendMail

Protocol(s) ==
  \/ \E m \in ready : SuppressDuplicate(s, m)
  \/ Acknowledge(s)
  \/ AcknowledgeThrows(s)
  \/ RepublishWithRetry(s)
  \/ DeadLetter(s)
  \/ AbandonStale(s)

Startup(s) == BootService(s) \/ SubscribeService(s) \/ RecoverConnection(s)

Failure(s) == HandlerThrows(s) \/ CrashService(s) \/ DropConnection(s)

Next ==
  \/ Checkout
  \/ \E g \in Gifts : AddGift(g) \/ DeleteGift(g)
  \/ \E c \in Catalogs : CatalogWork(c)
  \/ OrderWork
  \/ NotifierWork
  \/ \E s \in Services : Protocol(s) \/ Startup(s) \/ Failure(s)

Spec == Init /\ [][Next]_vars

\* A handler that has started goes on, a running consumer is handed the messages
\* of its queues, a request in progress goes on, and a process that was started
\* subscribes.  Clients, managers, failures and restarts owe nothing: no container
\* of these services has a restart policy.
Fairness ==
  /\ \A o \in Orders : WF_vars(PublishPlaced(o))
  /\ \A c \in Catalogs : WF_vars(CatalogWork(c))
  /\ WF_vars(OrderWork)
  /\ WF_vars(NotifierWork)
  /\ \A s \in Services : WF_vars(Protocol(s)) /\ WF_vars(SubscribeService(s))

FairSpec == Spec /\ Fairness

-----------------------------------------------------------------------------
(* Properties.                                                             *)

\* Every variable holds a value of its type, and a handler has a delivery in hand
\* exactly while it is at work.
TypeOK ==
  /\ BusTypeOK
  /\ row \in [Orders -> {"absent", "draft", "final"}]
  /\ checkout \in [Orders -> {"new", "saved", "done", "failed"}]
  /\ gift \in [Gifts -> {"absent", "live", "deleted"}]
  /\ unchecked \in [Catalogs -> SUBSET Gifts]
  /\ chosenFinal \subseteq Orders /\ manual \subseteq Orders /\ bounced \subseteq Orders
  /\ mails \in [Orders -> Nat]

InBroker(mid)     == \E m \in ready : m.mid = mid
InHand(mid)       == \E s \in Services : Busy(s) /\ held[s].mid = mid
DeadLettered(mid) == \E m \in dead : m.mid = mid
Accounted(mid)    == \/ InBroker(mid) \/ InHand(mid) \/ DeadLettered(mid)
                     \/ mid \in done \cup unrouted \cup abandoned \cup lost

\* What makes suppressing a duplicate safe: a MessageId a process has marked is one
\* it is working on, or somebody has finished, dead-lettered or given up.
SeenAccounted ==
  \A s \in Services : \A mid \in seen[s] :
    \/ Busy(s) /\ held[s].mid = mid
    \/ DeadLettered(mid) \/ mid \in done \cup abandoned

\* An event, once published, is waiting in a queue, in the hand of a handler,
\* handled, or in a dead-letter queue.  The suppressing of duplicates, the
\* requeueing at a crash and the republishing of retries lose it in exactly three
\* ways: its queue did not exist yet, it was published on a connection that was gone,
\* or a handler gave up after its connection had been lost.
NoSilentLoss == \A m \in log : Accounted(m.mid)

Results(o, ok)  == {m \in log : m.key \in ResultKeys /\ m.order = o /\ m.success = ok}
Statuses(o, ok) == {m \in log : m.key = "order.status-changed" /\ m.order = o /\ m.success = ok}
Releases(o)     == {m \in log : m.key = "inventory.release-requested" /\ m.order = o}

\* The verdict the customer reads is one the catalog published for that order,
\* also when a rejection went through a retry and came back under the routing key
\* inventory.reserved; a release is requested only after a rejection; a
\* reservation covers only gifts the catalog has had; nobody is mailed before a
\* status was published.
VerdictsFollowDecisions ==
  \A o \in Orders :
    /\ \A ok \in BOOLEAN : Statuses(o, ok) # {} => Results(o, ok) # {}
    /\ Releases(o) # {} => Results(o, FALSE) # {}
    /\ Statuses(o, FALSE) # {} => Releases(o) # {}
    /\ Results(o, TRUE) # {} => \A g \in ItemsOf[o] : gift[g] # "absent"
    /\ mails[o] > 0 \/ o \in bounced => Statuses(o, TRUE) \cup Statuses(o, FALSE) # {}

\* OrderService's row and what it announced agree: once a status went out, and as
\* long as the catalog never contradicted itself and nobody confirmed by hand,
\* a Confirmed order is out of draft and a Rejected one is not in the raffle pool.
RowMatchesStatus ==
  \A o \in Orders \ manual : \A ok \in BOOLEAN :
    Statuses(o, ok) # {} /\ Results(o, ~ok) = {}
      => row[o] = IF ok THEN "final" ELSE "draft"

\* An order in the raffle pool was put there by its client's isDraft = false, by a
\* confirmation by hand or by a reservation, never by a rejection.
PoolIsJustified ==
  \A o \in Orders : row[o] = "final" => o \in chosenFinal \cup manual \/ Results(o, TRUE) # {}

AtMostOne(S) == \A x, y \in S : x = y

\* As long as no process crashes and no connection is lost, retries alone never
\* produce two results, two releases, two statuses or two e-mails for an order.
RetriesDuplicateNothing ==
  crashes = 0 /\ drops = 0 =>
    \A o \in Orders :
      /\ AtMostOne(Results(o, TRUE) \cup Results(o, FALSE))
      /\ AtMostOne(Releases(o))
      /\ AtMostOne(Statuses(o, TRUE) \cup Statuses(o, FALSE))
      /\ mails[o] <= 1

Informed(o) == mails[o] > 0 \/ o \in bounced

\* Without crashes and lost connections, and with every queue declared, a placed
\* order always ends with its customer mailed (or the mail refused) or with one of
\* its events in a dead-letter queue.
PlacedIsSettled ==
  \A o \in Orders :
    checkout[o] = "done" ~> Informed(o) \/ \E m \in dead : m.order = o

-----------------------------------------------------------------------------
(* The abstract specification.                                             *)

\* What the log says was decided, and what was announced.
Verdicts(keys) == {<<m.order, m.success>> : m \in {n \in log : n.key \in keys}}
Decisions      == Verdicts(ResultKeys)
Announcements  == Verdicts({"order.status-changed"})

\* Seen without broker and processes, the saga does what OrderOutcome promises:
\* its rows change only as decisions and clients say, it announces only decisions
\* its rows follow, and mails only what was announced, whatever crashes between
\* the commit and the publish of a step.
Outcome == INSTANCE OrderOutcome WITH
  decided <- Decisions, announced <- Announcements, mailed <- {o \in Orders : Informed(o)}

ImplementsOutcome == Outcome!Spec

-----------------------------------------------------------------------------
(* What the repository says of the saga and the code does not do.          *)

\* ADR RabbitMQ: retry headers give at-least-once delivery.  An order whose handler
\* throws once is still decided and announced in the end.
RetriesDeliver ==
  \A o \in Orders : checkout[o] = "done" ~> Statuses(o, TRUE) \cup Statuses(o, FALSE) # {}

=============================================================================
